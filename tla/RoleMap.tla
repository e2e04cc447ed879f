------------------------------ MODULE RoleMap ------------------------------
(***************************************************************************)
(* The numbers a simulation runs on: internal/verify/types.go (RoleMap)    *)
(* and the two draws internal/verify/simulator.go makes from them.  A role *)
(* map is a record with the source's field names; AcquireTime and          *)
(* OperationTime are carried by the source but read by no rule, so only    *)
(* whether AcquireTime is set matters (Missing).                           *)
(***************************************************************************)
EXTENDS Integers

PatternFiniteResource == "finite_resource"
PatternFinitePooledResource == "finite_pooled_resource"

(* An unset or negative minimum counts as one instance. *)
EffectiveMinInstances(r) == IF r.MinInstances <= 0 THEN 1 ELSE r.MinInstances

(* The required roles that hold no positive value. *)
Missing(r) ==
  {role \in {"MaxInstances", "ResourceCapacity"} : r[role] <= 0} \cup
  {role \in {"PoolCapacity", "AcquireTime"} :
      r.Pattern = PatternFinitePooledResource /\ r[role] <= 0}

Valid(r) == Missing(r) = {}

(* How many instance counts the prefix byte of a stream chooses between.   *)
(* Nothing before the draw makes this positive: it is zero when the model  *)
(* asks for min_instances = max_instances + 1, and Go's % then panics.     *)
Spread(r) == r.MaxInstances - EffectiveMinInstances(r) + 1

(* Go's % truncates toward zero, so for a byte b a negative divisor acts   *)
(* as its absolute value.                                                  *)
InstanceCount(r, b) ==
  LET width == IF Spread(r) < 0 THEN -Spread(r) ELSE Spread(r)
  IN  (b % width) + EffectiveMinInstances(r)
=============================================================================
