--------------------------- MODULE FailureReport ---------------------------
(***************************************************************************)
(* A failure on its way through verifyMachine (internal/verify/verify.go): *)
(* a simulation records its bytes, the bytes of a failing one are handed   *)
(* to Shrink, and the shrunk bytes are replayed once more for the report.  *)
(* RecordedRun is the simulation and Shrinker the search, each with its    *)
(* own variables; what they hand over is here.  The other simulations of   *)
(* the test, which change none of this, are in Verification.               *)
(***************************************************************************)
EXTENDS RecordedRun

CONSTANT MaxAttempts    \* ShrinkConfig.MaxAttempts, after its default

ASSUME MaxAttemptsAssumption == MaxAttempts \in Nat \ {0}

VARIABLES
  best, bestSteps, attempts, phase, chunkSize, start, byteAt, lo, hi, prevLen, prevSteps,
  report    \* what the report takes from the last replay

S == INSTANCE Shrinker WITH i <- byteAt

shrinkVars == <<best, bestSteps, attempts, phase, chunkSize, start, byteAt, lo, hi,
                prevLen, prevSteps>>
reportVars == <<roles, status, invariant, count, used, iter, lastStep, prevStep,
                pool, in_flight, pending, drawn, best, bestSteps, attempts, phase,
                chunkSize, start, byteAt, lo, hi, prevLen, prevSteps, report>>

NoReport == [Result |-> "none"]

ReportInit == RecordInit /\ S!Init /\ report = NoReport

Simulation == RecordNext /\ UNCHANGED <<shrinkVars, report>>

(* The bytes of the failing simulation go to the shrinker. *)
CallShrink ==
  /\ status = "violated"
  /\ S!Shrink(drawn)
  /\ UNCHANGED <<recordedVars, report>>

Shrinking == S!Search /\ UNCHANGED <<recordedVars, report>>

(* Mutant: the step that violated the invariant is cut off. *)
TriggerBefore(outcome) ==
  [Rule |-> outcome.Prev.Rule, Limit |-> roles.ResourceCapacity,
   ValueBefore |-> outcome.Prev.Value, ValueAfter |-> outcome.Prev.Value]

(* The final step and the counter around it; the zero value when there is  *)
(* no step before.                                                         *)
TriggerOf(outcome) ==
  [Rule |-> outcome.Last.Rule, Limit |-> roles.ResourceCapacity,
   ValueBefore |-> IF outcome.FailedAt >= 1 THEN outcome.Prev.Value ELSE 0,
   ValueAfter |-> outcome.Last.Value]

(* The invariant is that of the simulation found; the steps, the instances *)
(* and the trigger are those of the replay, and left out when it passes.   *)
ReportFailure ==
  /\ phase = "done" /\ report = NoReport
  /\ LET outcome == R!Simulate(roles, best, MaxSteps)
     IN  report' = IF outcome.Violated
                   THEN [Result |-> "fail", ViolatedInvariant |-> invariant,
                         MinimalFailure |-> outcome.FailedAt + 1,
                         Instances |-> outcome.InstanceCount,
                         Trigger |-> TriggerOf(outcome)]
                   ELSE [Result |-> "fail", ViolatedInvariant |-> invariant]
  /\ UNCHANGED <<recordedVars, shrinkVars>>

(* A pass has nothing to shrink. *)
ReportPass ==
  /\ status = "passed" /\ report = NoReport
  /\ report' = [Result |-> "pass"]
  /\ UNCHANGED <<recordedVars, shrinkVars>>

ReportFinished == (report # NoReport \/ status = "panicked") /\ UNCHANGED reportVars

ReportNext ==
  \/ Simulation
  \/ CallShrink
  \/ Shrinking
  \/ ReportFailure
  \/ ReportPass
  \/ ReportFinished

ReportSpec == ReportInit /\ [][ReportNext]_reportVars

-----------------------------------------------------------------------------
(* The bytes at hand fail at every moment of the search, however it is cut *)
(* short by its budget, and are whole steps after the prefix: the replay   *)
(* for the report finds the failure.                                       *)
BestFails == S!BestFails

(* Every step of the search goes down in an order without infinite         *)
(* descents, wherever in its nested loops the budget runs out, and never   *)
(* makes the bytes longer, nor larger.                                     *)
Descends == [][S!StepsDown]_shrinkVars

(* What is reported belongs together although it comes from two different  *)
(* runs: the invariant, found by the simulation, is the one the last of    *)
(* the reported steps breaks; the trigger is the connection too many, from *)
(* exactly the limit to one past it; and the failure that is printed has   *)
(* no more steps than the one found and no more than the budget of a run.  *)
(* Its instances are in the range the model asks for, if that has any.     *)
ReportHangsTogether ==
  report.Result = "fail" =>
    /\ report.ViolatedInvariant = R!Simulate(roles, best, MaxSteps).Invariant
    /\ report.Trigger.Rule = "StartGrowth"
    /\ report.Trigger.Limit = roles.ResourceCapacity
    /\ report.Trigger.ValueBefore = report.Trigger.Limit
    /\ report.Trigger.ValueAfter = report.Trigger.Limit + 1
    /\ report.MinimalFailure <= iter
    /\ EffectiveMinInstances(roles) <= roles.MaxInstances =>
         report.Instances \in EffectiveMinInstances(roles) .. roles.MaxInstances
=============================================================================
