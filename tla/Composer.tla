------------------------------ MODULE Composer ------------------------------
(***************************************************************************)
(* Compose of internal/verify/composer.go and the loop of Verify in        *)
(* internal/verify/verify.go over the machines it returns.                 *)
(*                                                                         *)
(* A relationship is a record: Downstream, Pattern ("unlisted" when the    *)
(* registry has no such template, "none" when the template has no          *)
(* pattern) and Resolve, the bindings of its template.  Shared states are  *)
(* pointers in the code: `heap` holds the counter behind each, a machine   *)
(* has the pointer its InitState copies, or Unshared when it makes a state *)
(* of its own and publishes it.  A simulation is reduced to what the       *)
(* pointers can tell apart, a counter that starts where InitState puts it  *)
(* and moves by one; FinitePooled and FiniteResource are the machines      *)
(* themselves.                                                             *)
(***************************************************************************)
EXTENDS RoleInference, SequencesExt

CONSTANTS
  Models,           \* the models: sequences of relationships
  MaxSimulations    \* simulations a machine runs at most

ASSUME SimulationsAssumption == MaxSimulations \in Nat \ {0}

ASSUME ModelsAssumption ==
  \A m \in Models :
    /\ Len(m) \in Nat /\ DOMAIN m = 1 .. Len(m)
    /\ \A k \in DOMAIN m : \A b \in m[k].Resolve : b.Value \in Int

VARIABLES
  relationships,    \* m.Relationships
  phase,            \* "compose", "infer" (within InferRoles), "verify" or "done"
  at,               \* the relationship, then the machine, of the loop
  machines,         \* the machines composed so far
  warnings,         \* positions of the relationships warned about
  sharedStates,     \* the map of Compose, kept alive by the InitStates
  heap,             \* the counters made so far
  counter,          \* the counter of the running simulation, Unshared between
  simulations, failures,   \* of the machine at hand
  verifications,    \* what verifyMachine returned for each machine
  result            \* what Verify returns: printed by the command

inferVars == <<left, rm>>

vars == <<relationships, phase, at, machines, warnings, sharedStates, heap,
          counter, simulations, failures, verifications, result, left, rm>>

composeVars == <<relationships, machines, warnings, left, rm>>
simulationVars == <<sharedStates, heap, counter, simulations, failures>>

Unshared == 0

Downstreams(model) == {model[k].Downstream : k \in DOMAIN model}

NoResult == [Summary |-> "none"]

Init ==
  /\ relationships \in Models
  /\ phase = "compose"
  /\ at = 1
  /\ machines = << >>
  /\ warnings = << >>
  /\ left = {} /\ rm = Unassigned
  /\ sharedStates = [d \in Downstreams(relationships) |-> Unshared]
  /\ heap = << >>
  /\ counter = Unshared
  /\ simulations = 0 /\ failures = 0
  /\ verifications = << >>
  /\ result = NoResult

Rel == relationships[at]

Composing == phase = "compose" /\ at <= Len(relationships)

Known(rel) == rel.Pattern \in {PatternFiniteResource, PatternFinitePooledResource}

(* No template of that name, or one without a pattern: not a word. *)
SkipUnpatterned ==
  /\ Composing
  /\ Rel.Pattern \in {"unlisted", "none"}
  /\ at' = at + 1
  /\ UNCHANGED <<composeVars, phase, simulationVars, verifications, result>>

(* A pattern nobody knows: a warning. *)
WarnUnknownPattern ==
  /\ Composing
  /\ Rel.Pattern \notin {"unlisted", "none"} /\ ~Known(Rel)
  /\ warnings' = Append(warnings, at)
  /\ at' = at + 1
  /\ UNCHANGED <<relationships, phase, machines, inferVars, simulationVars,
                 verifications, result>>

(* InferRoles, one binding after the other in the order of the range. *)
InferRoles ==
  /\ Composing /\ Known(Rel)
  /\ BeginInference(Rel.Resolve)
  /\ phase' = "infer"
  /\ UNCHANGED <<relationships, at, machines, warnings, simulationVars,
                 verifications, result>>

VisitBinding ==
  /\ phase = "infer"
  /\ \E b \in left : Visit(b)
  /\ UNCHANGED <<relationships, phase, at, machines, warnings, simulationVars,
                 verifications, result>>

InferenceOver == phase = "infer" /\ left = {}

Roles == Inferred(Rel.Pattern, rm)

(* Mutant: the first warning ends the loop. *)
WarnAndStop ==
  /\ InferenceOver /\ ~Valid(Roles)
  /\ warnings' = Append(warnings, at)
  /\ phase' = "compose"
  /\ at' = Len(relationships) + 1
  /\ rm' = Unassigned
  /\ UNCHANGED <<relationships, machines, left, simulationVars, verifications, result>>

(* Roles that are missing: a warning. *)
Warn ==
  /\ InferenceOver /\ ~Valid(Roles)
  /\ warnings' = Append(warnings, at)
  /\ phase' = "compose"
  /\ at' = at + 1
  /\ rm' = Unassigned
  /\ UNCHANGED <<relationships, machines, left, simulationVars, verifications, result>>

(* A machine, and which of the two InitStates it gets: the map is read now *)
(* and written only when an InitState runs.                                *)
AddMachine ==
  /\ InferenceOver /\ Valid(Roles)
  /\ machines' = Append(machines, [rel |-> at, shared |-> sharedStates[Rel.Downstream],
                                   Roles |-> Roles])
  /\ phase' = "compose"
  /\ at' = at + 1
  /\ rm' = Unassigned
  /\ UNCHANGED <<relationships, warnings, left, simulationVars, verifications, result>>

(* Compose is over.  Without a machine Verify is over too, and the         *)
(* warnings are returned to nobody: Verify drops them.                     *)
Composed ==
  /\ phase = "compose" /\ at > Len(relationships)
  /\ IF machines = << >>
     THEN /\ phase' = "done"
          /\ result' = [Summary |-> "nothing to verify", Verifications |-> << >>]
     ELSE phase' = "verify" /\ UNCHANGED result
  /\ at' = 1
  /\ UNCHANGED <<composeVars, simulationVars, verifications>>

Machine == machines[at]
MachineRel == relationships[Machine.rel]

Verifying == phase = "verify" /\ at <= Len(machines)

(* Mutant: the map is asked when the simulation starts. *)
InitStateShared ==
  /\ Verifying /\ counter = Unshared
  /\ simulations < MaxSimulations
  /\ heap' = Append(heap, 0)
  /\ IF sharedStates[MachineRel.Downstream] = Unshared
     THEN /\ counter' = Len(heap')
          /\ sharedStates' = [sharedStates EXCEPT ![MachineRel.Downstream] = Len(heap')]
     ELSE counter' = sharedStates[MachineRel.Downstream] /\ UNCHANGED sharedStates
  /\ UNCHANGED <<composeVars, phase, at, simulations, failures, verifications, result>>

(* InitState at the head of a simulation: the machine's own state is made; *)
(* then it is published, or replaced by the shared one.                    *)
InitState ==
  /\ Verifying /\ counter = Unshared
  /\ simulations < MaxSimulations
  /\ heap' = Append(heap, 0)
  /\ IF Machine.shared = Unshared
     THEN /\ counter' = Len(heap')
          /\ sharedStates' = [sharedStates EXCEPT ![MachineRel.Downstream] = Len(heap')]
     ELSE counter' = Machine.shared /\ UNCHANGED sharedStates
  /\ UNCHANGED <<composeVars, phase, at, simulations, failures, verifications, result>>

Broken == heap[counter] > Machine.Roles.ResourceCapacity

(* A step of the simulation takes or gives back a unit. *)
Step ==
  /\ Verifying /\ counter # Unshared /\ ~Broken
  /\ \E v \in {heap[counter] + 1, heap[counter] - 1} \cap Nat :
       heap' = [heap EXCEPT ![counter] = v]
  /\ UNCHANGED <<composeVars, phase, at, sharedStates, counter, simulations, failures,
                 verifications, result>>

(* The simulation returns, violated or having run its steps. *)
EndSimulation ==
  /\ Verifying /\ counter # Unshared
  /\ counter' = Unshared
  /\ simulations' = simulations + 1
  /\ failures' = IF Broken THEN failures + 1 ELSE failures
  /\ UNCHANGED <<composeVars, phase, at, sharedStates, heap, verifications, result>>

(* Mutant: the failures of one machine are counted for the next. *)
EndMachineCarrying ==
  /\ Verifying /\ counter = Unshared /\ simulations > 0
  /\ verifications' =
       Append(verifications, [rel |-> Machine.rel,
                              Result |-> IF failures > 0 THEN "fail" ELSE "pass"])
  /\ simulations' = 0
  /\ at' = at + 1
  /\ UNCHANGED <<composeVars, phase, sharedStates, heap, counter, failures, result>>

(* verifyMachine returns after any number of simulations, of which the     *)
(* sequential test of Verification decides; then the next machine.         *)
EndMachine ==
  /\ Verifying /\ counter = Unshared /\ simulations > 0
  /\ verifications' =
       Append(verifications, [rel |-> Machine.rel,
                              Result |-> IF failures > 0 THEN "fail" ELSE "pass"])
  /\ simulations' = 0 /\ failures' = 0
  /\ at' = at + 1
  /\ UNCHANGED <<composeVars, phase, sharedStates, heap, counter, result>>

Failed == SelectSeq(verifications, LAMBDA v : v.Result # "pass")

Summarise ==
  /\ phase = "verify" /\ at > Len(machines)
  /\ phase' = "done"
  /\ result' = [Summary |-> IF Failed # << >> THEN "rejected" ELSE "accepted",
                Verifications |-> verifications]
  /\ UNCHANGED <<composeVars, at, simulationVars, verifications>>

Finished == phase = "done" /\ UNCHANGED vars

Next ==
  \/ SkipUnpatterned \/ WarnUnknownPattern
  \/ InferRoles \/ VisitBinding \/ Warn \/ AddMachine
  \/ Composed
  \/ InitState \/ Step \/ EndSimulation \/ EndMachine \/ Summarise
  \/ Finished

Spec == Init /\ [][Next]_vars

-----------------------------------------------------------------------------
(* What composition and verification guarantee. *)

Positions == DOMAIN relationships

(* Pointers point to counters that were made, and no machine has more      *)
(* failures than simulations of its own.                                   *)
TypeOK ==
  /\ phase \in {"compose", "infer", "verify", "done"}
  /\ rm \in [RoleNames -> Int]
  /\ at \in 1 .. Len(relationships) + 1
  /\ \A k \in DOMAIN machines : machines[k].rel \in Positions
  /\ counter \in 0 .. Len(heap)
  /\ \A d \in DOMAIN sharedStates : sharedStates[d] \in 0 .. Len(heap)
  /\ heap \in Seq(Nat)
  /\ failures \in 0 .. simulations

(* Every simulation starts from an idle resource, whatever simulations of  *)
(* this and of other machines on the same downstream ended with: outcomes  *)
(* are independent, which the sequential test needs.                       *)
StartsIdle ==
  [][counter = Unshared /\ counter' # Unshared => heap'[counter'] = 0]_vars

(* The numbers the model has for a role of a relationship. *)
Speaking(rel, role) ==
  {b.Value : b \in {c \in rel.Resolve : c.Resolved /\ RoleOf(c) = role}}

(* Whatever the order of the range: a role whose bindings agree on a       *)
(* number, or which has none, gets that number or stays unset, and a zero  *)
(* never hides a number in the roles that keep the first value.  Only a    *)
(* template with two bindings that disagree on a role is at the mercy of   *)
(* the order.                                                              *)
OrderIrrelevant ==
  InferenceOver =>
    \A role \in RoleNames :
      /\ Speaking(Rel, role) = {} => rm[role] = 0
      /\ \A v \in Speaking(Rel, role) : Speaking(Rel, role) = {v} => rm[role] = v
      /\ ~Overwrites(role) /\ Speaking(Rel, role) \ {0} # {} => rm[role] # 0

(* A template that asks for a behavior. *)
Asks(k) == relationships[k].Pattern \notin {"unlisted", "none"}

(* The roles the pattern of a relationship needs.  Its bindings settle     *)
(* each of them, or leave one without a positive number, whatever the      *)
(* order.                                                                  *)
Needed(k) == Missing(Inferred(relationships[k].Pattern, Unassigned))

Certain(k) ==
  Known(relationships[k]) /\ \A role \in Needed(k) :
    /\ Speaking(relationships[k], role) # {}
    /\ \A v \in Speaking(relationships[k], role) : v > 0

Hopeless(k) ==
  ~Known(relationships[k]) \/ \E role \in Needed(k) :
    \A v \in Speaking(relationships[k], role) : v <= 0

(* When the command returns, every relationship that asks for a behavior   *)
(* is either verified or in the warnings and no other is, each once and in *)
(* the order of the model; and but for those at the mercy of the order it  *)
(* is verified if every role its pattern needs has a positive number and   *)
(* no other to be confused with it, and warned about if one has none.      *)
Accounted ==
  phase = "done" =>
    LET Verified == {verifications[k].rel : k \in DOMAIN verifications}
    IN  /\ Verified \cup ToSet(warnings) = {k \in Positions : Asks(k)}
        /\ Verified \cap ToSet(warnings) = {}
        /\ \A k \in Positions : Certain(k) => k \in Verified
        /\ \A k \in Positions : Asks(k) /\ Hopeless(k) => k \in ToSet(warnings)
        /\ \A k, l \in DOMAIN verifications :
             k < l => verifications[k].rel < verifications[l].rel
        /\ \A k, l \in DOMAIN warnings : k < l => warnings[k] < warnings[l]

-----------------------------------------------------------------------------
(* What docs/spec.md says and the code does not do.                        *)

(* Section 8.3: "When two relationships reference the same downstream      *)
(* component, their shared state variables are unified - both state        *)
(* machines compete for the same resource."                                *)
DownstreamUnified ==
  phase = "done" =>
    \A k, l \in DOMAIN machines :
      relationships[machines[k].rel].Downstream = relationships[machines[l].rel].Downstream
      /\ k < l => machines[l].shared # Unshared
=============================================================================
