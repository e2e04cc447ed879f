--------------------------- MODULE RoleInference ---------------------------
(***************************************************************************)
(* InferRoles of internal/verify/roles.go: the numbers of a relationship   *)
(* are read from the bindings of its template.  The bindings are a Go map, *)
(* ranged over in an order that changes from run to run.  Composer makes   *)
(* these steps for every relationship with a known pattern.                *)
(*                                                                         *)
(* A binding is a record: Variable names it, Scope and Prop are the two    *)
(* sides of its dot, Resolved says whether the model has a number there    *)
(* and Value is that number as an integer (toInt truncates).  Prop is the  *)
(* class assignRole tells apart: "min_instances" and "max_instances" stand *)
(* for every name with that ending, "operation_ms" for every name ending   *)
(* in _ms but conn_establish_ms; the others are exact names.               *)
(***************************************************************************)
EXTENDS RoleMap

VARIABLES
  left,        \* the bindings the range has not visited
  rm           \* the role map filled so far

RoleNames == {"MinInstances", "MaxInstances", "ResourceCapacity",
              "PoolCapacity", "AcquireTime", "OperationTime"}

(* &RoleMap{Pattern}: every number is zero. *)
Unassigned == [role \in RoleNames |-> 0]

BeginInference(bindings) == left' = bindings /\ rm' = Unassigned

(* The role a binding speaks for: the cases of the switch. *)
RoleOf(b) ==
  CASE b.Prop = "min_instances" /\ b.Scope = "upstream" -> "MinInstances"
    [] b.Prop = "max_instances" /\ b.Scope = "upstream" -> "MaxInstances"
    [] b.Prop = "max_connections" /\ b.Scope = "downstream" -> "ResourceCapacity"
    [] b.Prop = "max_pool_size" -> "PoolCapacity"
    [] b.Prop = "conn_establish_ms" -> "AcquireTime"
    [] b.Prop = "operation_ms" /\ b.Scope = "edge" -> "OperationTime"
    [] OTHER -> "none"

(* The last two exact names overwrite; the others keep the first value     *)
(* that is not zero.                                                       *)
Overwrites(role) == role \in {"PoolCapacity", "AcquireTime"}

assignRole(b) ==
  LET role == RoleOf(b)
  IN  IF b.Resolved /\ role # "none" /\ (Overwrites(role) \/ rm[role] = 0)
      THEN rm' = [rm EXCEPT ![role] = b.Value]
      ELSE UNCHANGED rm

(* The role map of the template's pattern, as the machine gets it. *)
Inferred(pattern, filled) ==
  [Pattern |-> pattern, MinInstances |-> filled.MinInstances,
   MaxInstances |-> filled.MaxInstances, ResourceCapacity |-> filled.ResourceCapacity,
   PoolCapacity |-> filled.PoolCapacity, AcquireTime |-> filled.AcquireTime]

(* Mutant: the range stops once the two numbers every pattern needs are    *)
(* there.                                                                  *)
VisitUntilBounded(b) ==
  /\ assignRole(b)
  /\ left' = IF rm'.MaxInstances > 0 /\ rm'.ResourceCapacity > 0 THEN {} ELSE left \ {b}

Visit(b) ==
  /\ left' = left \ {b}
  /\ assignRole(b)
=============================================================================
