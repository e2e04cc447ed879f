----------------------------- MODULE Simulator -----------------------------
(***************************************************************************)
(* The loop of internal/verify/simulator.go (Simulate), shared by the two  *)
(* machines that extend this module.  A run draws the number of instances  *)
(* from the first byte of its bytestream, then at each iteration draws two *)
(* bytes: one selects the instance, the other one of the rules that can    *)
(* fire there.  The rule is applied, a step is recorded, the machine's     *)
(* invariants are checked in their order, and the first one broken ends    *)
(* the run.                                                                *)
(*                                                                         *)
(* The bytes are the run's only input and are drawn when they are used.    *)
(* Of the recorded steps the last two are kept, which is what              *)
(* verifyMachine reads to report the trigger of a failure.  The shared     *)
(* counter of the state (used_connections or used_resources) is `used`.    *)
(***************************************************************************)
EXTENDS RoleMap, Sequences

CONSTANTS
  RoleMaps,     \* the role maps a model can lead to
  ByteValues,   \* how many values a byte has: 256 in the code
  MaxSteps      \* SimulationConfig.MaxSteps, after its default

ASSUME ByteValuesAssumption == ByteValues \in Nat \ {0}
ASSUME MaxStepsAssumption == MaxSteps \in Nat \ {0}
ASSUME RoleMapsAssumption ==
  \A r \in RoleMaps :
    /\ {r.MinInstances, r.MaxInstances, r.ResourceCapacity,
        r.PoolCapacity, r.AcquireTime} \subseteq Int
    /\ r.Pattern \in {PatternFiniteResource, PatternFinitePooledResource}
    /\ Valid(r)

VARIABLES
  roles,      \* machine.Roles
  status,     \* "ready", "running", "passed", "violated" or "panicked"
  invariant,  \* SimulationOutcome.Invariant, "none" when no invariant failed
  count,      \* instanceCount, 0 before it is drawn
  used,       \* the shared counter
  iter,       \* iterations done; every iteration records a step
  lastStep,   \* the last recorded step
  prevStep    \* the one before it

simVars == <<roles, status, invariant, count, used, iter, lastStep, prevStep>>

Byte == 0 .. ByteValues - 1

NoStep == [Rule |-> "none"]

Instances == 0 .. count - 1

SimInit ==
  /\ roles \in RoleMaps
  /\ status = "ready"
  /\ invariant = "none"
  /\ count = 0
  /\ used = 0
  /\ iter = 0
  /\ lastStep = NoStep
  /\ prevStep = NoStep

(* The prefix of the stream: the instance count is drawn, the state made. *)
DrawInstanceCount ==
  /\ status = "ready"
  /\ Spread(roles) # 0
  /\ \E b \in Byte : count' = InstanceCount(roles, b)
  /\ status' = "running"
  /\ UNCHANGED <<roles, invariant, used, iter, lastStep, prevStep>>

(* int(b) % 0: the goroutine panics before the first step. *)
DivideByZero ==
  /\ status = "ready"
  /\ Spread(roles) = 0
  /\ status' = "panicked"
  /\ UNCHANGED <<roles, invariant, count, used, iter, lastStep, prevStep>>

(* Two bytes of the stream select instance i and, among the rules that can *)
(* fire there, the rule of that name.                                      *)
Selects(rule, i, fireable) ==
  /\ status = "running"
  /\ i \in {b0 % count : b0 \in Byte}
  /\ rule \in {fireable[(b1 % Len(fireable)) + 1] : b1 \in Byte}

(* Mutant: the step records the state before the rule was applied. *)
RecordAndCheckStale(rule, i, broken) ==
  /\ UNCHANGED <<roles, count>>
  /\ iter' = iter + 1
  /\ prevStep' = lastStep
  /\ lastStep' = [Rule |-> rule, Instance |-> i, Value |-> used]
  /\ invariant' = broken
  /\ status' = IF broken # "none" THEN "violated"
               ELSE IF iter' = MaxSteps THEN "passed" ELSE "running"

(* Mutant: the invariants are checked when the steps are done. *)
RecordAndCheckAtEnd(rule, i, broken) ==
  /\ UNCHANGED <<roles, count>>
  /\ iter' = iter + 1
  /\ prevStep' = lastStep
  /\ lastStep' = [Rule |-> rule, Instance |-> i, Value |-> used']
  /\ invariant' = IF iter' = MaxSteps THEN broken ELSE "none"
  /\ status' = IF iter' < MaxSteps THEN "running"
               ELSE IF broken # "none" THEN "violated" ELSE "passed"

(* The rest of the iteration, after the rule was applied: the step is      *)
(* appended, then `broken`, the first invariant the new state breaks, or   *)
(* "none", decides whether the run goes on.                                *)
RecordAndCheck(rule, i, broken) ==
  /\ UNCHANGED <<roles, count>>
  /\ iter' = iter + 1
  /\ prevStep' = lastStep
  /\ lastStep' = [Rule |-> rule, Instance |-> i, Value |-> used']
  /\ invariant' = broken
  /\ status' = IF broken # "none" THEN "violated"
               ELSE IF iter' = MaxSteps THEN "passed" ELSE "running"

Over == status \in {"passed", "violated", "panicked"}
=============================================================================
