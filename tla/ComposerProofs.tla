--------------------------- MODULE ComposerProofs ---------------------------
(***************************************************************************)
(* Compose, InferRoles and Verify for any models.                          *)
(*                                                                         *)
(* InferenceInv says of the bindings that the range has visited so far     *)
(* what OrderIrrelevant says of all; SortedInv says of the relationships   *)
(* that the loop of Compose has passed what Accounted says of all; and     *)
(* PointersInv says why simulations start idle: no machine has the pointer *)
(* of another, for the map that shares them is empty while it is read.     *)
(***************************************************************************)
EXTENDS Composer, SequenceTheorems, TLAPS

IsSeq(s) == \E S : s \in Seq(S)

Phases == {"compose", "infer", "verify", "done"}

PlacesInv ==
  /\ relationships \in Models /\ phase \in Phases /\ at \in Nat \ {0}
  /\ IsSeq(machines) /\ IsSeq(warnings) /\ IsSeq(verifications)
  /\ Len(machines) <= Len(relationships)
  /\ phase = "compose" => at <= Len(relationships) + 1 /\ Len(machines) < at
  /\ phase = "infer" => at <= Len(relationships) /\ Len(machines) < at /\ Known(Rel)
  /\ phase \in {"verify", "done"} => at <= Len(machines) + 1

(* A longer sequence keeps its entries. *)
LEMMA Appended ==
  ASSUME NEW s, IsSeq(s), NEW e
  PROVE  /\ IsSeq(Append(s, e)) /\ Len(s) \in Nat /\ Len(Append(s, e)) = Len(s) + 1
         /\ DOMAIN s = 1 .. Len(s) /\ DOMAIN Append(s, e) = 1 .. Len(s) + 1
         /\ \A k \in DOMAIN s : Append(s, e)[k] = s[k]
         /\ Append(s, e)[Len(s) + 1] = e
<1>1. PICK S : s \in Seq(S)
  BY DEF IsSeq
<1>2. s \in Seq(S \cup {e})
  BY <1>1
<1>3. Append(s, e) \in Seq(S \cup {e})
  BY <1>2
<1>4. QED
  BY <1>2, <1>3 DEF IsSeq

LEMMA SeqDomain ==
  ASSUME NEW s, IsSeq(s)
  PROVE  Len(s) \in Nat /\ DOMAIN s = 1 .. Len(s)
BY DEF IsSeq

LEMMA ModelSeq ==
  ASSUME relationships \in Models
  PROVE  /\ Len(relationships) \in Nat /\ Positions = 1 .. Len(relationships)
         /\ \A k \in Positions : \A b \in relationships[k].Resolve : b.Value \in Int
BY ModelsAssumption DEF Positions

LEMMA PlacesInit == Init => PlacesInv
<1>1. SUFFICES ASSUME Init PROVE PlacesInv
  OBVIOUS
<1>2. /\ relationships \in Models /\ phase = "compose" /\ at = 1
      /\ machines = << >> /\ warnings = << >> /\ verifications = << >>
  BY <1>1 DEF Init
<1>3. Len(relationships) \in Nat
  BY <1>2, ModelSeq
<1>4. IsSeq(machines) /\ Len(machines) = 0 /\ IsSeq(warnings) /\ IsSeq(verifications)
  <2>1. machines \in Seq({}) /\ warnings \in Seq({}) /\ verifications \in Seq({})
    BY <1>2
  <2>2. Len(machines) = 0
    BY <1>2
  <2>3. QED
    BY <2>1, <2>2 DEF IsSeq
<1>5. QED
  BY <1>2, <1>3, <1>4 DEF PlacesInv, Phases

LEMMA PlacesNext == PlacesInv /\ [Next]_vars => PlacesInv'
<1>1. SUFFICES ASSUME PlacesInv, [Next]_vars PROVE PlacesInv'
  OBVIOUS
<1>2. /\ Len(machines) \in Nat /\ Len(relationships) \in Nat /\ at \in Nat \ {0}
      /\ relationships' = relationships
  <2>1. relationships' = relationships
    BY <1>1 DEF Next, vars, composeVars, SkipUnpatterned, WarnUnknownPattern, InferRoles,
         VisitBinding, Warn, AddMachine, Composed, InitState, Step, EndSimulation, EndMachine,
         Summarise, Finished
  <2>2. QED
    BY <1>1, <2>1, SeqDomain, ModelSeq DEF PlacesInv
<1>. USE DEF PlacesInv, Phases
<1>3. CASE SkipUnpatterned
  BY <1>1, <1>2, <1>3 DEF SkipUnpatterned, Composing, composeVars
<1>4. CASE WarnUnknownPattern
  BY <1>1, <1>2, <1>4, Appended DEF WarnUnknownPattern, Composing
<1>5. CASE InferRoles
  BY <1>1, <1>2, <1>5 DEF InferRoles, Composing, Rel, Known
<1>6. CASE VisitBinding
  BY <1>1, <1>2, <1>6 DEF VisitBinding, Rel, Known
<1>7. CASE Warn
  BY <1>1, <1>2, <1>7, Appended DEF Warn, InferenceOver
<1>8. CASE AddMachine
  <2>1. PICK m : machines' = Append(machines, m)
    BY <1>8 DEF AddMachine
  <2>2. IsSeq(machines') /\ Len(machines') = Len(machines) + 1
    BY <1>1, <2>1, Appended
  <2>3. QED
    BY <1>1, <1>2, <1>8, <2>2 DEF AddMachine, InferenceOver
<1>9. CASE Composed
  <2>1. UNCHANGED <<machines, warnings, verifications>> /\ at' = 1 /\ phase' \in {"done", "verify"}
    BY <1>9 DEF Composed, composeVars
  <2>2. QED
    BY <1>1, <1>2, <2>1
<1>10. CASE InitState
  BY <1>1, <1>2, <1>10 DEF InitState, Verifying, composeVars
<1>11. CASE Step
  BY <1>1, <1>2, <1>11 DEF Step, Verifying, composeVars
<1>12. CASE EndSimulation
  BY <1>1, <1>2, <1>12 DEF EndSimulation, Verifying, composeVars
<1>13. CASE EndMachine
  <2>1. PICK v : verifications' = Append(verifications, v)
    BY <1>13 DEF EndMachine
  <2>2. IsSeq(verifications')
    BY <1>1, <2>1, Appended
  <2>3. QED
    BY <1>1, <1>2, <1>13, <2>2 DEF EndMachine, Verifying, composeVars
<1>14. CASE Summarise
  BY <1>1, <1>2, <1>14 DEF Summarise, composeVars
<1>15. CASE UNCHANGED vars
  BY <1>1, <1>15 DEF vars, Rel, Known
<1>16. QED
  BY <1>1, <1>3, <1>4, <1>5, <1>6, <1>7, <1>8, <1>9, <1>10, <1>11, <1>12, <1>13, <1>14, <1>15
     DEF Next, Finished

-----------------------------------------------------------------------------
(* InferRoles: the bindings that the range has visited. *)

Visited == Rel.Resolve \ left

Said(role) == {b.Value : b \in {c \in Visited : c.Resolved /\ RoleOf(c) = role}}

Assigned(role) ==
  /\ rm[role] \in {0} \cup Said(role)
  /\ Overwrites(role) /\ Said(role) # {} => rm[role] \in Said(role)
  /\ ~Overwrites(role) /\ Said(role) \ {0} # {} => rm[role] # 0

InferenceInv ==
  /\ rm \in [RoleNames -> Int]
  /\ phase = "infer" => left \subseteq Rel.Resolve /\ \A role \in RoleNames : Assigned(role)

LEMMA RoleNamed == "none" \notin RoleNames
BY DEF RoleNames

(* A visit assigns the role its binding speaks for, and no other. *)
LEMMA VisitAssigns ==
  ASSUME rm \in [RoleNames -> Int], NEW b, Visit(b), NEW role \in RoleNames
  PROVE  rm'[role] = IF b.Resolved /\ RoleOf(b) = role /\ (Overwrites(role) \/ rm[role] = 0)
                     THEN b.Value ELSE rm[role]
<1>1. assignRole(b) /\ role # "none"
  BY RoleNamed DEF Visit
<1>2. CASE b.Resolved /\ RoleOf(b) # "none" /\ (Overwrites(RoleOf(b)) \/ rm[RoleOf(b)] = 0)
  <2>1. rm' = [rm EXCEPT ![RoleOf(b)] = b.Value]
    BY <1>1, <1>2 DEF assignRole
  <2>2. QED
    BY <1>1, <1>2, <2>1
<1>3. CASE ~(b.Resolved /\ RoleOf(b) # "none" /\ (Overwrites(RoleOf(b)) \/ rm[RoleOf(b)] = 0))
  <2>1. rm' = rm
    BY <1>1, <1>3 DEF assignRole
  <2>2. QED
    BY <1>1, <1>3, <2>1
<1>4. QED
  BY <1>2, <1>3

LEMMA VisitStep ==
  ASSUME PlacesInv, InferenceInv, VisitBinding
  PROVE  InferenceInv'
<1>1. PICK b \in left : Visit(b)
  BY DEF VisitBinding
<1>2. /\ left' = left \ {b} /\ left \subseteq Rel.Resolve /\ b \in Rel.Resolve
      /\ phase = "infer" /\ phase' = "infer" /\ Rel' = Rel
      /\ rm \in [RoleNames -> Int] /\ \A role \in RoleNames : Assigned(role)
  BY <1>1 DEF VisitBinding, Visit, InferenceInv, Rel
<1>3. b.Value \in Int
  BY <1>2, ModelSeq DEF PlacesInv, Rel
<1>4. rm' \in [RoleNames -> Int]
  BY <1>1, <1>2, <1>3 DEF Visit, assignRole
<1>5. Visited' = Visited \cup {b}
  BY <1>2 DEF Visited
<1>6. ASSUME NEW role \in RoleNames PROVE Assigned(role)'
  <2>1. Assigned(role)
    BY <1>2
  <2>2. CASE b.Resolved /\ RoleOf(b) = role
    <3>1. Said(role)' = Said(role) \cup {b.Value}
      BY <1>5, <2>2 DEF Said
    <3>2. rm'[role] = IF Overwrites(role) \/ rm[role] = 0 THEN b.Value ELSE rm[role]
      BY <1>1, <1>2, <2>2, VisitAssigns
    <3>3. QED
      BY <2>1, <3>1, <3>2 DEF Assigned
  <2>3. CASE ~(b.Resolved /\ RoleOf(b) = role)
    <3>1. Said(role)' = Said(role)
      BY <1>5, <2>3 DEF Said
    <3>2. rm'[role] = rm[role]
      BY <1>1, <1>2, <2>3, VisitAssigns
    <3>3. QED
      BY <2>1, <3>1, <3>2 DEF Assigned
  <2>4. QED
    BY <2>2, <2>3
<1>7. QED
  BY <1>2, <1>4, <1>6 DEF InferenceInv

LEMMA UnassignedType == Unassigned \in [RoleNames -> Int]
BY DEF Unassigned

LEMMA InferenceNext == PlacesInv /\ InferenceInv /\ [Next]_vars => InferenceInv'
<1>1. SUFFICES ASSUME PlacesInv, InferenceInv, [Next]_vars PROVE InferenceInv'
  OBVIOUS
<1>2. CASE InferRoles
  <2>1. left' = Rel.Resolve /\ rm' = Unassigned /\ Rel' = Rel
    BY <1>2 DEF InferRoles, BeginInference, Rel
  <2>2. Visited' = {}
    BY <2>1 DEF Visited
  <2>3. \A role \in RoleNames : Assigned(role)'
    BY <2>1, <2>2 DEF Assigned, Said, Unassigned
  <2>4. QED
    BY <2>1, <2>3, UnassignedType DEF InferenceInv
<1>3. CASE Warn \/ AddMachine
  BY <1>3, UnassignedType DEF Warn, AddMachine, InferenceInv
<1>4. CASE UNCHANGED rm /\ phase' # "infer"
  BY <1>1, <1>4 DEF InferenceInv
<1>5. CASE UNCHANGED vars
  BY <1>1, <1>5 DEF InferenceInv, vars, Rel, Assigned, Said, Visited
<1>6. ASSUME \/ SkipUnpatterned \/ WarnUnknownPattern \/ Composed \/ InitState
             \/ Step \/ EndSimulation \/ EndMachine \/ Summarise
      PROVE  UNCHANGED rm /\ phase' # "infer"
  BY <1>6 DEF SkipUnpatterned, WarnUnknownPattern, Composed, InitState, Step, EndSimulation,
              EndMachine, Summarise, composeVars, inferVars, Composing, Verifying
<1>7. QED
  BY <1>1, <1>2, <1>3, <1>4, <1>5, <1>6, VisitStep DEF Next, Finished

LEMMA InferenceInit == Init => InferenceInv
BY UnassignedType DEF Init, InferenceInv

LEMMA PlacesInvariant == Spec => [](PlacesInv /\ InferenceInv)
BY PlacesInit, PlacesNext, InferenceInit, InferenceNext, PTL DEF Spec

(* For any bindings, visited in any order. *)
THEOREM OrderDoesNotMatter == Spec => []OrderIrrelevant
<1>1. ASSUME InferenceInv PROVE OrderIrrelevant
  <2>1. SUFFICES ASSUME InferenceOver, NEW role \in RoleNames
                 PROVE  /\ Speaking(Rel, role) = {} => rm[role] = 0
                        /\ \A v \in Speaking(Rel, role) : Speaking(Rel, role) = {v} => rm[role] = v
                        /\ ~Overwrites(role) /\ Speaking(Rel, role) \ {0} # {} => rm[role] # 0
    BY DEF OrderIrrelevant
  <2>2. Said(role) = Speaking(Rel, role) /\ Assigned(role)
    BY <1>1, <2>1 DEF InferenceOver, InferenceInv, Said, Visited, Speaking
  <2>3. QED
    BY <2>2 DEF Assigned
<1>2. QED
  BY <1>1, PlacesInvariant, PTL

-----------------------------------------------------------------------------
(* Compose: the relationships that the loop has passed. *)

Passed(k) == k \in Positions /\ (phase \in {"compose", "infer"} => k < at)
MachineFor(k) == \E j \in DOMAIN machines : machines[j].rel = k
WarnedAt(k) == \E j \in DOMAIN warnings : warnings[j] = k

SortedInv ==
  /\ \A k : MachineFor(k) \/ WarnedAt(k) <=> Passed(k) /\ Asks(k)
  /\ \A k : ~(MachineFor(k) /\ WarnedAt(k))
  /\ \A k : MachineFor(k) => ~Hopeless(k)
  /\ \A k : WarnedAt(k) => ~Certain(k)
  /\ \A k, l \in DOMAIN machines : k < l => machines[k].rel < machines[l].rel
  /\ \A k, l \in DOMAIN warnings : k < l => warnings[k] < warnings[l]

(* The roles a pattern needs and which of them are missing. *)
LEMMA MissingRole ==
  ASSUME NEW f \in [RoleNames -> Int], NEW pattern, NEW role
  PROVE  role \in Missing(Inferred(pattern, f)) <=>
           /\ \/ role \in {"MaxInstances", "ResourceCapacity"}
              \/ /\ pattern = PatternFinitePooledResource
                 /\ role \in {"PoolCapacity", "AcquireTime"}
           /\ f[role] <= 0
<1> DEFINE r == Inferred(pattern, f)
<1>1. /\ r["MaxInstances"] = f["MaxInstances"] /\ r["ResourceCapacity"] = f["ResourceCapacity"]
      /\ r["PoolCapacity"] = f["PoolCapacity"] /\ r["AcquireTime"] = f["AcquireTime"]
      /\ r.Pattern = pattern
  BY DEF Inferred
<1>. HIDE DEF r
<1>2. role \in Missing(r) <=>
           /\ \/ role \in {"MaxInstances", "ResourceCapacity"}
              \/ /\ pattern = PatternFinitePooledResource
                 /\ role \in {"PoolCapacity", "AcquireTime"}
           /\ f[role] <= 0
  BY <1>1 DEF Missing
<1>3. QED
  BY <1>2 DEF r

LEMMA NeededRole ==
  ASSUME NEW k, NEW f \in [RoleNames -> Int], NEW role
  PROVE  /\ role \in Missing(Inferred(relationships[k].Pattern, f)) <=>
              role \in Needed(k) /\ f[role] <= 0
         /\ role \in Needed(k) => role \in RoleNames
<1>1. \A r \in RoleNames : Unassigned[r] <= 0
  BY DEF Unassigned
<1>2. {"MaxInstances", "ResourceCapacity", "PoolCapacity", "AcquireTime"} \subseteq RoleNames
  BY DEF RoleNames
<1>3. QED
  BY <1>1, <1>2, UnassignedType, MissingRole DEF Needed

(* What the bindings settle, whatever the order, is what is decided.       *)
LEMMA Decided ==
  ASSUME PlacesInv, InferenceInv, InferenceOver
  PROVE  /\ Asks(at) /\ at \in Positions
         /\ Valid(Roles) => ~Hopeless(at)
         /\ ~Valid(Roles) => ~Certain(at)
<1>1. /\ at \in Positions /\ Known(Rel) /\ Rel = relationships[at]
      /\ \A role \in RoleNames : Assigned(role)
      /\ rm \in [RoleNames -> Int]
  BY ModelSeq DEF PlacesInv, InferenceInv, InferenceOver, Rel
<1>2. \A role : Said(role) = Speaking(Rel, role)
  BY DEF InferenceOver, Said, Visited, Speaking
<1>3. Asks(at)
  BY <1>1 DEF Asks, Known, PatternFiniteResource, PatternFinitePooledResource
<1>4. \A role : role \in Missing(Roles) <=> role \in Needed(at) /\ rm[role] <= 0
  BY <1>1, NeededRole DEF Roles
<1>5. \A role : role \in Needed(at) => role \in RoleNames
  BY UnassignedType, NeededRole
<1>6. ASSUME Valid(Roles), Hopeless(at) PROVE FALSE
  <2>1. PICK role \in Needed(at) : \A v \in Speaking(Rel, role) : v <= 0
    BY <1>1, <1>6 DEF Hopeless
  <2>2. rm[role] \in {0} \cup Speaking(Rel, role)
    BY <1>1, <1>2, <1>5 DEF Assigned
  <2>3. rm[role] <= 0
    BY <2>1, <2>2
  <2>4. QED
    BY <1>4, <1>6, <2>3 DEF Valid
<1>7. ASSUME ~Valid(Roles), Certain(at) PROVE FALSE
  <2>1. PICK role : role \in Needed(at) /\ rm[role] <= 0
    BY <1>4, <1>7 DEF Valid
  <2>2. Speaking(Rel, role) # {} /\ \A v \in Speaking(Rel, role) : v > 0
    BY <1>1, <1>7, <2>1 DEF Certain
  <2>3. Assigned(role) /\ Said(role) = Speaking(Rel, role)
    BY <1>1, <1>2, <1>5, <2>1
  <2>4. rm[role] \in Speaking(Rel, role)
    <3>1. CASE Overwrites(role)
      BY <2>2, <2>3, <3>1 DEF Assigned
    <3>2. CASE ~Overwrites(role)
      <4>1. Speaking(Rel, role) \ {0} # {}
        BY <2>2
      <4>2. QED
        BY <2>3, <3>2, <4>1 DEF Assigned
    <3>3. QED
      BY <3>1, <3>2
  <2>5. rm[role] \in Int
    BY <1>1, <1>5, <2>1
  <2>6. QED
    BY <2>1, <2>2, <2>4, <2>5
<1>8. QED
  BY <1>1, <1>3, <1>6, <1>7

(* The loop goes on past the relationship it was at. *)
GoesOn ==
  /\ phase \in {"compose", "infer"} /\ phase' = "compose"
  /\ at \in Positions /\ at' = at + 1
  /\ UNCHANGED relationships

LEMMA PassedOne ==
  ASSUME PlacesInv, GoesOn, NEW k
  PROVE  /\ Passed(k)' <=> Passed(k) \/ k = at
         /\ ~Passed(at)
         /\ Passed(k) => k \in Int /\ k < at
BY ModelSeq DEF PlacesInv, GoesOn, Passed, Positions

(* What is said of a relationship does not change. *)
LEMMA SameModel ==
  ASSUME UNCHANGED relationships
  PROVE  /\ Positions' = Positions
         /\ \A k : /\ Asks(k)' = Asks(k) /\ Hopeless(k)' = Hopeless(k)
                   /\ Certain(k)' = Certain(k)
BY DEF Positions, Asks, Hopeless, Certain, Known, Needed, Speaking

(* A relationship that asks for nothing is passed. *)
LEMMA SkipSorted ==
  ASSUME PlacesInv, SortedInv, GoesOn, ~Asks(at), UNCHANGED <<machines, warnings>>
  PROVE  SortedInv'
BY PassedOne, SameModel DEF GoesOn, SortedInv, MachineFor, WarnedAt

LEMMA WarnSorted ==
  ASSUME PlacesInv, SortedInv, GoesOn, Asks(at), ~Certain(at),
         warnings' = Append(warnings, at), UNCHANGED machines
  PROVE  SortedInv'
<1>1. /\ DOMAIN warnings = 1 .. Len(warnings) /\ DOMAIN warnings' = 1 .. Len(warnings) + 1
      /\ \A j \in DOMAIN warnings : warnings'[j] = warnings[j]
      /\ warnings'[Len(warnings) + 1] = at /\ Len(warnings) \in Nat
  BY Appended DEF PlacesInv
<1>2. \A k : WarnedAt(k)' <=> WarnedAt(k) \/ k = at
  BY <1>1 DEF WarnedAt
<1>3. \A k : MachineFor(k)' = MachineFor(k)
  BY DEF MachineFor
<1>4. \A j \in DOMAIN warnings : warnings[j] < at
  BY PassedOne DEF SortedInv, WarnedAt
<1>5. \A k, l \in DOMAIN warnings' : k < l => warnings'[k] < warnings'[l]
  <2>1. SUFFICES ASSUME NEW k \in DOMAIN warnings', NEW l \in DOMAIN warnings', k < l
                 PROVE  warnings'[k] < warnings'[l]
    OBVIOUS
  <2>2. k \in DOMAIN warnings
    BY <1>1, <2>1
  <2>3. CASE l = Len(warnings) + 1
    BY <1>1, <1>4, <2>2, <2>3
  <2>4. CASE l \in DOMAIN warnings
    BY <1>1, <2>1, <2>2, <2>4 DEF SortedInv
  <2>5. QED
    BY <1>1, <2>3, <2>4
<1>6. /\ \A k : MachineFor(k)' \/ WarnedAt(k)' <=> Passed(k)' /\ Asks(k)'
      /\ \A k : ~(MachineFor(k)' /\ WarnedAt(k)')
      /\ \A k : MachineFor(k)' => ~Hopeless(k)'
      /\ \A k : WarnedAt(k)' => ~Certain(k)'
  BY <1>2, <1>3, PassedOne, SameModel DEF SortedInv, GoesOn
<1>7. QED
  BY <1>5, <1>6 DEF SortedInv

LEMMA AddSorted ==
  ASSUME PlacesInv, SortedInv, GoesOn, Asks(at), ~Hopeless(at),
         NEW m, m.rel = at, machines' = Append(machines, m), UNCHANGED warnings
  PROVE  SortedInv'
<1>1. /\ DOMAIN machines = 1 .. Len(machines) /\ DOMAIN machines' = 1 .. Len(machines) + 1
      /\ \A j \in DOMAIN machines : machines'[j] = machines[j]
      /\ machines'[Len(machines) + 1] = m /\ Len(machines) \in Nat
  BY Appended DEF PlacesInv
<1>2. \A k : MachineFor(k)' <=> MachineFor(k) \/ k = at
  BY <1>1 DEF MachineFor
<1>3. \A k : WarnedAt(k)' = WarnedAt(k)
  BY DEF WarnedAt
<1>4. \A j \in DOMAIN machines : machines[j].rel < at
  BY PassedOne DEF SortedInv, MachineFor
<1>5. \A k, l \in DOMAIN machines' : k < l => machines'[k].rel < machines'[l].rel
  <2>1. SUFFICES ASSUME NEW k \in DOMAIN machines', NEW l \in DOMAIN machines', k < l
                 PROVE  machines'[k].rel < machines'[l].rel
    OBVIOUS
  <2>2. k \in DOMAIN machines
    BY <1>1, <2>1
  <2>3. CASE l = Len(machines) + 1
    BY <1>1, <1>4, <2>2, <2>3
  <2>4. CASE l \in DOMAIN machines
    BY <1>1, <2>1, <2>2, <2>4 DEF SortedInv
  <2>5. QED
    BY <1>1, <2>3, <2>4
<1>6. /\ \A k : MachineFor(k)' \/ WarnedAt(k)' <=> Passed(k)' /\ Asks(k)'
      /\ \A k : ~(MachineFor(k)' /\ WarnedAt(k)')
      /\ \A k : MachineFor(k)' => ~Hopeless(k)'
      /\ \A k : WarnedAt(k)' => ~Certain(k)'
  BY <1>2, <1>3, PassedOne, SameModel DEF SortedInv, GoesOn
<1>7. QED
  BY <1>5, <1>6 DEF SortedInv

(* Nothing is sorted and nothing is passed. *)
LEMMA KeepsSorted ==
  ASSUME SortedInv, UNCHANGED <<relationships, machines, warnings>>,
         \A k : Passed(k)' <=> Passed(k)
  PROVE  SortedInv'
BY SameModel DEF SortedInv, MachineFor, WarnedAt

LEMMA SortedInit == Init => SortedInv
<1>1. SUFFICES ASSUME Init PROVE SortedInv
  OBVIOUS
<1>2. DOMAIN machines = {} /\ DOMAIN warnings = {}
  BY <1>1 DEF Init
<1>3. \A k : ~Passed(k)
  BY <1>1, ModelSeq DEF Init, Passed, Positions
<1>4. QED
  BY <1>2, <1>3 DEF SortedInv, MachineFor, WarnedAt

LEMMA SortedNext == PlacesInv /\ InferenceInv /\ SortedInv /\ [Next]_vars => SortedInv'
<1>1. SUFFICES ASSUME PlacesInv, InferenceInv, SortedInv, [Next]_vars PROVE SortedInv'
  OBVIOUS
<1>2. Composing => at \in Positions
  BY <1>1, ModelSeq DEF Composing, PlacesInv
<1>3. CASE SkipUnpatterned
  <2>1. GoesOn /\ ~Asks(at) /\ UNCHANGED <<machines, warnings>>
    BY <1>2, <1>3 DEF SkipUnpatterned, GoesOn, Composing, Asks, Rel, composeVars
  <2>2. QED
    BY <1>1, <2>1, SkipSorted
<1>4. CASE WarnUnknownPattern
  <2>1. /\ GoesOn /\ Asks(at) /\ ~Certain(at)
        /\ warnings' = Append(warnings, at) /\ UNCHANGED machines
    BY <1>2, <1>4 DEF WarnUnknownPattern, GoesOn, Composing, Asks, Rel, Certain
  <2>2. QED
    BY <1>1, <2>1, WarnSorted
<1>5. CASE Warn
  <2>1. /\ GoesOn /\ Asks(at) /\ ~Certain(at)
        /\ warnings' = Append(warnings, at) /\ UNCHANGED machines
    BY <1>1, <1>5, Decided DEF Warn, GoesOn, InferenceOver
  <2>2. QED
    BY <1>1, <2>1, WarnSorted
<1>6. CASE AddMachine
  <2>1. PICK m : m.rel = at /\ machines' = Append(machines, m)
    BY <1>6 DEF AddMachine
  <2>2. GoesOn /\ Asks(at) /\ ~Hopeless(at) /\ UNCHANGED warnings
    BY <1>1, <1>6, Decided DEF AddMachine, GoesOn, InferenceOver
  <2>3. QED
    BY <1>1, <2>1, <2>2, AddSorted
<1>7. CASE Composed
  <2>1. \A k : Passed(k)' <=> Passed(k)
    <3>1. /\ phase = "compose" /\ at > Len(relationships) /\ UNCHANGED relationships
          /\ phase' \in {"verify", "done"}
      BY <1>7 DEF Composed, composeVars
    <3>2. \A k \in Positions : k < at
      BY <1>1, <3>1, ModelSeq DEF PlacesInv
    <3>3. QED
      BY <3>1, <3>2 DEF Passed, Positions
  <2>2. QED
    BY <1>1, <1>7, <2>1, KeepsSorted DEF Composed, composeVars
<1>8. ASSUME \/ InferRoles \/ VisitBinding \/ InitState \/ Step \/ EndSimulation
             \/ EndMachine \/ Summarise \/ UNCHANGED vars
      PROVE  /\ UNCHANGED <<relationships, machines, warnings>>
             /\ \A k : Passed(k)' <=> Passed(k)
  BY <1>8 DEF InferRoles, VisitBinding, InitState, Step, EndSimulation, EndMachine, Summarise,
              vars, composeVars, Composing, Verifying, Passed, Positions
<1>9. QED
  BY <1>1, <1>3, <1>4, <1>5, <1>6, <1>7, <1>8, KeepsSorted DEF Next, Finished

-----------------------------------------------------------------------------
(* Verify: one verification for every machine it has been at. *)

VerifiedInv ==
  /\ phase \in {"compose", "infer"} => Len(verifications) = 0
  /\ phase = "verify" => Len(verifications) = at - 1
  /\ phase = "done" => Len(verifications) = Len(machines)
  /\ Len(verifications) <= Len(machines)
  /\ \A k \in DOMAIN verifications : verifications[k].rel = machines[k].rel

LEMMA VerifiedInit == Init => VerifiedInv
BY DEF Init, VerifiedInv

LEMMA VerifiedNext == PlacesInv /\ VerifiedInv /\ [Next]_vars => VerifiedInv'
<1>1. SUFFICES ASSUME PlacesInv, VerifiedInv, [Next]_vars PROVE VerifiedInv'
  OBVIOUS
<1>2. /\ Len(machines) \in Nat /\ Len(verifications) \in Nat /\ at \in Nat
      /\ DOMAIN machines = 1 .. Len(machines)
      /\ DOMAIN verifications = 1 .. Len(verifications)
  BY <1>1, SeqDomain DEF PlacesInv
<1>3. ASSUME phase \in {"compose", "infer"}, phase' \in {"compose", "infer"},
             UNCHANGED verifications, IsSeq(machines')
      PROVE  VerifiedInv'
  <2>1. Len(verifications) = 0 /\ \A k \in DOMAIN verifications : FALSE
    <3>1. Len(verifications) = 0
      BY <1>1, <1>3 DEF VerifiedInv
    <3>2. DOMAIN verifications = 1 .. 0
      BY <1>2, <3>1
    <3>3. QED
      BY <3>1, <3>2
  <2>2. Len(machines') \in Nat
    BY <1>3, SeqDomain
  <2>3. QED
    BY <1>3, <2>1, <2>2 DEF VerifiedInv
<1>4. IsSeq(machines')
  BY <1>1, PlacesNext DEF PlacesInv
<1>5. ASSUME \/ SkipUnpatterned \/ WarnUnknownPattern \/ InferRoles \/ VisitBinding
             \/ Warn \/ AddMachine
      PROVE  /\ phase \in {"compose", "infer"} /\ phase' \in {"compose", "infer"}
             /\ UNCHANGED verifications
  BY <1>5 DEF SkipUnpatterned, WarnUnknownPattern, InferRoles, VisitBinding, Warn, AddMachine,
              Composing, InferenceOver
<1>6. CASE Composed
  <2>1. /\ phase = "compose" /\ at' = 1 /\ UNCHANGED <<machines, verifications>>
        /\ phase' = "verify" \/ (phase' = "done" /\ machines = << >>)
    BY <1>6 DEF Composed, composeVars
  <2>2. machines = << >> => Len(machines) = 0
    OBVIOUS
  <2>3. QED
    BY <1>1, <1>2, <2>1, <2>2 DEF VerifiedInv
<1>7. CASE EndMachine
  <2>1. PICK v : v.rel = machines[at].rel /\ verifications' = Append(verifications, v)
    BY <1>7 DEF EndMachine, Machine
  <2>2. /\ DOMAIN verifications' = 1 .. Len(verifications) + 1
        /\ Len(verifications') = Len(verifications) + 1
        /\ \A j \in DOMAIN verifications : verifications'[j] = verifications[j]
        /\ verifications'[Len(verifications) + 1] = v
    BY <1>1, <2>1, Appended DEF PlacesInv
  <2>3. /\ phase = "verify" /\ at <= Len(machines) /\ at' = at + 1
        /\ UNCHANGED <<phase, machines>>
    BY <1>7 DEF EndMachine, Verifying, composeVars
  <2>4. QED
    BY <1>1, <1>2, <2>1, <2>2, <2>3 DEF VerifiedInv
<1>8. CASE Summarise
  <2>1. /\ phase = "verify" /\ phase' = "done" /\ at > Len(machines)
        /\ UNCHANGED <<at, machines, verifications>>
    BY <1>8 DEF Summarise, composeVars
  <2>2. at <= Len(machines) + 1 /\ Len(verifications) = at - 1
    BY <1>1, <2>1 DEF PlacesInv, VerifiedInv
  <2>3. Len(verifications) = Len(machines)
    BY <1>2, <2>1, <2>2
  <2>4. QED
    BY <1>1, <2>1, <2>3 DEF VerifiedInv
<1>9. CASE UNCHANGED <<phase, at, machines, verifications>>
  BY <1>1, <1>9 DEF VerifiedInv
<1>10. ASSUME InitState \/ Step \/ EndSimulation \/ UNCHANGED vars
       PROVE  UNCHANGED <<phase, at, machines, verifications>>
  BY <1>10 DEF InitState, Step, EndSimulation, vars, composeVars
<1>11. QED
  BY <1>1, <1>3, <1>4, <1>5, <1>6, <1>7, <1>8, <1>9, <1>10 DEF Next, Finished

(* For any model: nobody who asks for a behavior is lost between Compose   *)
(* and what Verify returns, nobody is in both lists, and whether a         *)
(* relationship is verified does not depend on the order of its bindings.  *)
THEOREM EveryoneAccounted == Spec => []Accounted
<1>1. ASSUME PlacesInv, SortedInv, VerifiedInv PROVE Accounted
  <2>1. SUFFICES ASSUME phase = "done" PROVE Accounted
    BY DEF Accounted
  <2>2. /\ DOMAIN verifications = DOMAIN machines
        /\ \A k \in DOMAIN machines : verifications[k].rel = machines[k].rel
    BY <1>1, <2>1, SeqDomain DEF PlacesInv, VerifiedInv
  <2>3. \A k : k \in {verifications[j].rel : j \in DOMAIN verifications} <=> MachineFor(k)
    BY <2>2 DEF MachineFor
  <2>4. \A k : k \in ToSet(warnings) <=> WarnedAt(k)
    BY DEF ToSet, WarnedAt
  <2>5. \A k : Passed(k) <=> k \in Positions
    BY <2>1 DEF Passed
  <2>6. \A k : Certain(k) => Asks(k)
    BY DEF Certain, Known, Asks, PatternFiniteResource, PatternFinitePooledResource
  <2>7. \A k, l \in DOMAIN verifications :
          k < l => verifications[k].rel < verifications[l].rel
    BY <1>1, <2>2 DEF SortedInv
  <2>8. QED
    BY <1>1, <2>3, <2>4, <2>5, <2>6, <2>7 DEF SortedInv, Accounted
<1>2. QED
  BY <1>1, PlacesInit, PlacesNext, InferenceInit, InferenceNext, SortedInit, SortedNext,
     VerifiedInit, VerifiedNext, PTL DEF Spec

-----------------------------------------------------------------------------
(* The pointers. *)

PointersInv ==
  /\ heap \in Seq(Nat) /\ counter \in 0 .. Len(heap)
  /\ simulations \in Nat /\ failures \in 0 .. simulations
  /\ counter # Unshared => Verifying
  /\ \A d \in DOMAIN sharedStates : sharedStates[d] \in 0 .. Len(heap)
  /\ DOMAIN sharedStates = Downstreams(relationships)
  /\ phase \in {"compose", "infer"} =>
       \A d \in DOMAIN sharedStates : sharedStates[d] = Unshared
  /\ \A k \in DOMAIN machines :
       machines[k].rel \in Positions /\ machines[k].shared = Unshared

LEMMA PointersInit == Init => PointersInv
BY DEF Init, PointersInv, Unshared

(* An InitState makes a counter of its own, whichever of the two it is.    *)
LEMMA InitStateOwn ==
  ASSUME PlacesInv, PointersInv, InitState
  PROVE  /\ heap' = Append(heap, 0) /\ counter' = Len(heap) + 1
         /\ Len(heap) \in Nat /\ Len(heap') = Len(heap) + 1 /\ heap' \in Seq(Nat)
         /\ heap'[Len(heap) + 1] = 0
         /\ sharedStates' = [sharedStates EXCEPT ![MachineRel.Downstream] = Len(heap) + 1]
<1>1. /\ heap' = Append(heap, 0) /\ Len(heap) \in Nat /\ Len(heap') = Len(heap) + 1
      /\ heap' \in Seq(Nat) /\ heap'[Len(heap) + 1] = 0
  BY DEF InitState, PointersInv
<1>2. at \in DOMAIN machines
  <2>1. DOMAIN machines = 1 .. Len(machines) /\ Len(machines) \in Nat
    BY SeqDomain DEF PlacesInv
  <2>2. QED
    BY <2>1 DEF InitState, Verifying, PlacesInv
<1>3. Machine.shared = Unshared
  BY <1>2 DEF PointersInv, Machine
<1>4. QED
  BY <1>1, <1>3 DEF InitState

LEMMA PointersNext == PlacesInv /\ PointersInv /\ [Next]_vars => PointersInv'
<1>1. SUFFICES ASSUME PlacesInv, PointersInv, [Next]_vars PROVE PointersInv'
  OBVIOUS
<1>2. Len(heap) \in Nat
  BY <1>1 DEF PointersInv
<1>. USE DEF Unshared
<1>3. ASSUME UNCHANGED <<relationships, machines, simulationVars>>,
             phase' \in {"compose", "infer"} => phase \in {"compose", "infer"},
             counter = Unshared
      PROVE  PointersInv'
  BY <1>1, <1>3 DEF PointersInv, simulationVars, Positions, Downstreams
<1>4. ASSUME \/ SkipUnpatterned \/ WarnUnknownPattern \/ InferRoles \/ VisitBinding
             \/ Warn \/ Composed \/ EndMachine \/ Summarise
      PROVE  UNCHANGED <<relationships, machines>>
  BY <1>4 DEF SkipUnpatterned, WarnUnknownPattern, InferRoles, VisitBinding, Warn, Composed,
              EndMachine, Summarise, composeVars
<1>5. ASSUME \/ SkipUnpatterned \/ WarnUnknownPattern \/ InferRoles \/ VisitBinding
             \/ Warn \/ Composed
      PROVE  UNCHANGED simulationVars /\ phase \in {"compose", "infer"}
  BY <1>5 DEF SkipUnpatterned, WarnUnknownPattern, InferRoles, VisitBinding, Warn, Composed,
              Composing, InferenceOver
<1>6. phase # "verify" => counter = Unshared
  BY <1>1 DEF PointersInv, Verifying
<1>7. CASE AddMachine
  <2>1. PICK m : /\ m.rel = at /\ m.shared = sharedStates[Rel.Downstream]
                 /\ machines' = Append(machines, m)
    BY <1>7 DEF AddMachine
  <2>2. /\ UNCHANGED <<relationships, simulationVars>> /\ phase = "infer" /\ phase' = "compose"
    BY <1>7 DEF AddMachine, InferenceOver
  <2>3. at \in Positions
    BY <1>1, <2>2, ModelSeq DEF PlacesInv
  <2>4. Rel.Downstream \in DOMAIN sharedStates
    BY <1>1, <2>3 DEF PointersInv, Downstreams, Rel, Positions
  <2>5. m.shared = Unshared
    BY <1>1, <2>1, <2>2, <2>4 DEF PointersInv
  <2>6. /\ DOMAIN machines = 1 .. Len(machines) /\ DOMAIN machines' = 1 .. Len(machines) + 1
        /\ \A j \in DOMAIN machines : machines'[j] = machines[j]
        /\ machines'[Len(machines) + 1] = m /\ Len(machines) \in Nat
    BY <1>1, <2>1, Appended DEF PlacesInv
  <2>7. counter = Unshared
    BY <1>6, <2>2
  <2>8. \A k \in DOMAIN machines' :
          machines'[k].rel \in Positions /\ machines'[k].shared = Unshared
    BY <1>1, <2>1, <2>3, <2>5, <2>6 DEF PointersInv
  <2>9. QED
    BY <1>1, <2>2, <2>7, <2>8 DEF PointersInv, simulationVars, Positions, Downstreams
<1>8. CASE InitState
  <2>1. /\ counter' = Len(heap) + 1
        /\ Len(heap') = Len(heap) + 1 /\ heap' \in Seq(Nat)
        /\ sharedStates' = [sharedStates EXCEPT ![MachineRel.Downstream] = Len(heap) + 1]
    BY <1>1, <1>8, InitStateOwn
  <2>2. /\ UNCHANGED <<relationships, machines, phase, at, simulations, failures>>
        /\ phase = "verify" /\ Verifying
    BY <1>8 DEF InitState, Verifying, composeVars
  <2>3. /\ counter' \in 0 .. Len(heap')
        /\ \A d \in DOMAIN sharedStates' : sharedStates'[d] \in 0 .. Len(heap')
        /\ DOMAIN sharedStates' = DOMAIN sharedStates
    BY <1>1, <1>2, <2>1 DEF PointersInv
  <2>4. QED
    BY <1>1, <2>1, <2>2, <2>3 DEF PointersInv, Positions, Downstreams, Verifying
<1>9. CASE Step
  <2>1. PICK v \in Nat : heap' = [heap EXCEPT ![counter] = v]
    BY <1>9 DEF Step
  <2>2. UNCHANGED <<relationships, machines, phase, at, sharedStates, counter, simulations,
                    failures>>
    BY <1>9 DEF Step, composeVars
  <2>3. heap' \in Seq(Nat) /\ Len(heap') = Len(heap)
    <3>1. heap \in Seq(Nat) /\ counter \in 1 .. Len(heap)
      BY <1>1, <1>2, <1>9 DEF PointersInv, Step
    <3>2. QED
      BY <2>1, <3>1, ExceptSeq
  <2>4. QED
    BY <1>1, <2>2, <2>3 DEF PointersInv, Positions, Downstreams, Verifying
<1>10. CASE EndSimulation
  <2>1. /\ UNCHANGED <<relationships, machines, phase, sharedStates, heap>>
        /\ counter' = Unshared /\ simulations' = simulations + 1
        /\ failures' \in {failures, failures + 1}
    BY <1>10 DEF EndSimulation, composeVars
  <2>2. simulations' \in Nat /\ failures' \in 0 .. simulations'
    BY <1>1, <2>1 DEF PointersInv
  <2>3. counter' \in 0 .. Len(heap)
    BY <1>2, <2>1
  <2>4. QED
    BY <1>1, <2>1, <2>2, <2>3 DEF PointersInv, Positions, Downstreams
<1>11. CASE EndMachine
  <2>1. /\ UNCHANGED <<relationships, machines, phase, sharedStates, heap, counter>>
        /\ simulations' = 0 /\ failures' = 0 /\ counter = Unshared
    BY <1>11 DEF EndMachine, composeVars
  <2>2. QED
    BY <1>1, <2>1 DEF PointersInv, Positions, Downstreams
<1>12. CASE UNCHANGED vars
  BY <1>1, <1>12 DEF vars, PointersInv, Positions, Downstreams, Verifying
<1>13. ASSUME Summarise PROVE PointersInv'
  <2>1. UNCHANGED <<relationships, machines, simulationVars>> /\ phase' = "done"
    BY <1>13 DEF Summarise, composeVars
  <2>2. counter = Unshared
    <3>1. /\ DOMAIN machines = 1 .. Len(machines) /\ Len(machines) \in Nat /\ at \in Nat
      BY <1>1, SeqDomain DEF PlacesInv
    <3>2. QED
      BY <1>1, <1>13, <3>1 DEF Summarise, PointersInv, Verifying
  <2>3. QED
    BY <1>3, <2>1, <2>2
<1>14. QED
  BY <1>1, <1>3, <1>4, <1>5, <1>6, <1>7, <1>8, <1>9, <1>10, <1>11, <1>12, <1>13
     DEF Next, Finished

LEMMA PointersInvariant == Spec => [](PlacesInv /\ InferenceInv /\ PointersInv)
BY PlacesInit, PlacesNext, InferenceInit, InferenceNext, PointersInit, PointersNext, PTL DEF Spec

(* For any models and any number of simulations: the loops stay within     *)
(* their lists, the pointers that composer.go passes around point to       *)
(* counters that were made, and verify.go charges no machine with more     *)
(* failures than it had simulations.                                       *)
THEOREM TypeCorrect == Spec => []TypeOK
<1>1. ASSUME PlacesInv, InferenceInv, PointersInv PROVE TypeOK
  <2>1. at \in 1 .. Len(relationships) + 1
    <3>1. /\ Len(machines) \in Nat /\ Len(relationships) \in Nat /\ at \in Nat \ {0}
          /\ Len(machines) <= Len(relationships)
      BY <1>1, SeqDomain, ModelSeq DEF PlacesInv
    <3>2. \/ at <= Len(relationships) + 1
          \/ at <= Len(machines) + 1
      BY <1>1, <3>1 DEF PlacesInv, Phases
    <3>3. QED
      BY <3>1, <3>2
  <2>2. QED
    BY <1>1, <2>1 DEF TypeOK, PlacesInv, Phases, InferenceInv, PointersInv
<1>2. QED
  BY <1>1, PointersInvariant, PTL

(* For any models and whatever earlier simulations of the same downstream  *)
(* ended with: the InitState closures of composer.go give every simulation *)
(* a counter of its own that is zero.                                      *)
THEOREM SimulationsStartIdle == Spec => StartsIdle
<1>1. ASSUME PlacesInv, PointersInv, [Next]_vars
      PROVE  [counter = Unshared /\ counter' # Unshared => heap'[counter'] = 0]_vars
  <2>1. CASE InitState
    BY <1>1, <2>1, InitStateOwn
  <2>2. ASSUME counter = Unshared, ~InitState PROVE counter' = Unshared
    <3>1. UNCHANGED counter \/ counter' = Unshared
      BY <1>1, <2>2 DEF Next, SkipUnpatterned, WarnUnknownPattern, InferRoles, VisitBinding, Warn,
           AddMachine, Composed, Step, EndSimulation, EndMachine, Summarise, Finished, vars,
           simulationVars
    <3>2. QED
      BY <2>2, <3>1
  <2>3. QED
    BY <2>1, <2>2
<1>2. QED
  BY <1>1, PointersInvariant, PTL DEF Spec, StartsIdle
=============================================================================
