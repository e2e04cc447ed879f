---------------------------- MODULE FinitePooled ----------------------------
(***************************************************************************)
(* One simulation of the finite_pooled_resource pattern: the machine of    *)
(* internal/verify/finite_pooled.go run by the loop of Simulator.  Every   *)
(* instance keeps a pool of connections to one shared resource; a request  *)
(* that finds room in its instance's pool starts a connection.             *)
(***************************************************************************)
EXTENDS Simulator, Counting

ASSUME PooledRoleMaps == \A r \in RoleMaps : r.Pattern = PatternFinitePooledResource

VARIABLES
  pool,        \* established connections of each instance
  in_flight,   \* connections being established
  pending      \* requests waiting for a connection

vars == <<roles, status, invariant, count, used, iter, lastStep, prevStep,
          pool, in_flight, pending>>

(* Mutant: a connection is started without a request that waits for it. *)
CanFireUnasked(rule, i) ==
  CASE rule = "StartGrowth" -> pool[i] + in_flight[i] < roles.PoolCapacity
    [] rule = "GrowComplete" -> in_flight[i] > 0
    [] rule = "RequestCompletes" -> pool[i] > 0
    [] OTHER -> TRUE

(* Mutant: a pool may grow one past its capacity. *)
CanFireOneMore(rule, i) ==
  CASE rule = "StartGrowth" -> /\ pending[i] > 0
                               /\ pool[i] + in_flight[i] <= roles.PoolCapacity
    [] rule = "GrowComplete" -> in_flight[i] > 0
    [] rule = "RequestCompletes" -> pool[i] > 0
    [] OTHER -> TRUE

(* Mutant: connections being established do not count for the bound. *)
CanFireEstablishedOnly(rule, i) ==
  CASE rule = "StartGrowth" -> pending[i] > 0 /\ pool[i] < roles.PoolCapacity
    [] rule = "GrowComplete" -> in_flight[i] > 0
    [] rule = "RequestCompletes" -> pool[i] > 0
    [] OTHER -> TRUE

CanFire(rule, i) ==
  CASE rule = "RequestArrives" -> TRUE
    [] rule = "StartGrowth" -> /\ pending[i] > 0
                               /\ pool[i] + in_flight[i] < roles.PoolCapacity
    [] rule = "GrowComplete" -> in_flight[i] > 0
    [] rule = "RequestCompletes" -> pool[i] > 0

Listed(rule, i) == IF CanFire(rule, i) THEN <<rule>> ELSE << >>

(* The rules that can fire, in the order the loop collects them.           *)
(* RequestArrives always can, so the list is never empty and the loop's    *)
(* `continue` for an empty one is never taken.                             *)
Fireable(i) ==
  Listed("RequestArrives", i) \o Listed("StartGrowth", i)
    \o Listed("GrowComplete", i) \o Listed("RequestCompletes", i)

(* Mutant: reaching the capacity is a violation already. *)
BrokenAtCapacity == IF used >= roles.ResourceCapacity THEN "Conservation" ELSE "none"

(* The invariants of the machine, in their order: the first one broken.    *)
Broken ==
  IF used > roles.ResourceCapacity THEN "Conservation"
  ELSE IF \E i \in Instances : pool[i] + in_flight[i] > roles.PoolCapacity
       THEN "PoolBounded"
  ELSE "none"

(* Instance i and the rule were drawn, and the rule can fire there. *)
Fires(rule, i) ==
  /\ Selects(rule, i, Fireable(i))
  /\ CanFire(rule, i)

Init ==
  /\ SimInit
  /\ pool = [i \in Instances |-> 0]
  /\ in_flight = [i \in Instances |-> 0]
  /\ pending = [i \in Instances |-> 0]

InitState ==
  /\ DrawInstanceCount
  /\ pool' = [i \in Instances' |-> 0]
  /\ in_flight' = [i \in Instances' |-> 0]
  /\ pending' = [i \in Instances' |-> 0]

Panic == DivideByZero /\ UNCHANGED <<pool, in_flight, pending>>

RequestArrives(i) ==
  /\ Fires("RequestArrives", i)
  /\ pending' = With(pending, i, pending[i] + 1)
  /\ UNCHANGED <<pool, in_flight, used>>
  /\ RecordAndCheck("RequestArrives", i, Broken')

StartGrowth(i) ==
  /\ Fires("StartGrowth", i)
  /\ pending' = With(pending, i, pending[i] - 1)
  /\ in_flight' = With(in_flight, i, in_flight[i] + 1)
  /\ used' = used + 1
  /\ UNCHANGED pool
  /\ RecordAndCheck("StartGrowth", i, Broken')

GrowComplete(i) ==
  /\ Fires("GrowComplete", i)
  /\ in_flight' = With(in_flight, i, in_flight[i] - 1)
  /\ pool' = With(pool, i, pool[i] + 1)
  /\ UNCHANGED <<pending, used>>
  /\ RecordAndCheck("GrowComplete", i, Broken')

(* Mutant: the connection is closed and never given back. *)
RequestCompletesLeaking(i) ==
  /\ Fires("RequestCompletes", i)
  /\ pool' = With(pool, i, pool[i] - 1)
  /\ UNCHANGED <<in_flight, pending, used>>
  /\ RecordAndCheck("RequestCompletes", i, Broken')

RequestCompletes(i) ==
  /\ Fires("RequestCompletes", i)
  /\ pool' = With(pool, i, pool[i] - 1)
  /\ used' = used - 1
  /\ UNCHANGED <<in_flight, pending>>
  /\ RecordAndCheck("RequestCompletes", i, Broken')

Finished == Over /\ UNCHANGED vars

Step(i) ==
  \/ RequestArrives(i)
  \/ StartGrowth(i)
  \/ GrowComplete(i)
  \/ RequestCompletes(i)

Next ==
  \/ InitState
  \/ Panic
  \/ \E i \in Instances : Step(i)
  \/ Finished

Spec == Init /\ [][Next]_vars

-----------------------------------------------------------------------------
(* What the simulation guarantees. *)

(* Every variable stays in the values the source's type gives it, counters *)
(* never go negative, and the instances the state was made for are exactly *)
(* the ones the loop can select.                                           *)
TypeOK ==
  /\ roles \in RoleMaps
  /\ status \in {"ready", "running", "passed", "violated", "panicked"}
  /\ invariant \in {"none", "Conservation", "PoolBounded"}
  /\ count \in Nat
  /\ used \in Nat
  /\ iter \in 0 .. MaxSteps
  /\ pool \in [Instances -> Nat]
  /\ in_flight \in [Instances -> Nat]
  /\ pending \in [Instances -> Nat]

(* The connections an instance holds, established or being established. *)
Held == [i \in Instances |-> pool[i] + in_flight[i]]

(* The shared counter, updated apart from the per-instance ones by two of  *)
(* the four rules, is at every moment the number of connections all the    *)
(* instances hold together.                                                *)
UsedIsHeld == used = Total(Held, count, roles.PoolCapacity)

(* The second invariant of the machine, checked after every step of every  *)
(* instance, never is the one a simulation reports.                        *)
PoolBoundedNeverReported == invariant # "PoolBounded"

(* What verifyMachine reads from the last two steps of a failure, the      *)
(* trigger: the rule that took the one connection too many, and the        *)
(* counter one past the capacity after it and exactly at it before.        *)
TriggerExact ==
  status = "violated" =>
    /\ invariant = "Conservation"
    /\ lastStep.Rule = "StartGrowth"
    /\ lastStep.Value = roles.ResourceCapacity + 1
    /\ prevStep # NoStep
    /\ prevStep.Value = roles.ResourceCapacity

(* A connection in use took an arrival and a growth of its own, a waiting  *)
(* request an arrival: the iterations done bound both together.            *)
StepBudget == 2 * used + Total(pending, count, MaxSteps) <= iter

(* So a run of MaxSteps iterations can only find the failure of a capacity *)
(* below MaxSteps / 2: at the default of 1000 steps every model of 500 or  *)
(* more connections passes whatever its pools are.                         *)
ShortRunsCannotFail ==
  MaxSteps < 2 * (roles.ResourceCapacity + 1) => status # "violated"

(* The arithmetic check on the same numbers (instances times pool size at  *)
(* most the connection limit) is sound for the behavior: a model that      *)
(* passes it fails in no interleaving of the instances.                    *)
ArithmeticSound ==
  /\ EffectiveMinInstances(roles) <= roles.MaxInstances
  /\ roles.MaxInstances * roles.PoolCapacity <= roles.ResourceCapacity
  => status # "violated"

Outcome ==
  CASE status \in {"ready", "running"} -> "running"
    [] status = "violated" -> "violated"
    [] status \in {"passed", "panicked"} -> "stopped"

Counter == INSTANCE ResourceCounter WITH
  Capacities <- {r.ResourceCapacity : r \in RoleMaps},
  capacity <- roles.ResourceCapacity,
  outcome <- Outcome

(* The machine and the loop implement the counter with an exact alarm: the *)
(* violation is reported by the step that causes it, nothing happens after *)
(* it, and a run that ends otherwise never went past the capacity.         *)
ImplementsCounter == Counter!Spec

-----------------------------------------------------------------------------
(* The inductive invariant of the proofs in FailureReportProofs. *)

PoolsFit ==
  \A i \in Instances : pool[i] + in_flight[i] <= roles.PoolCapacity

WaitingFit == \A i \in Instances : pending[i] <= iter

DrawInOrder ==
  EffectiveMinInstances(roles) <= roles.MaxInstances => count <= roles.MaxInstances

(* The verdict and the last recorded step agree with the counter. *)
Reported ==
  /\ status \in {"ready", "panicked"} => iter = 0
  /\ status = "running" => iter < MaxSteps
  /\ iter = 0 => used = 0
  /\ iter > 0 => lastStep.Value = used
  /\ iter > 0 => lastStep.Rule # "none"
  /\ status # "violated" => invariant = "none" /\ used <= roles.ResourceCapacity
  /\ status = "violated" => used = roles.ResourceCapacity + 1
  /\ TriggerExact

IInv ==
  /\ TypeOK
  /\ PoolsFit
  /\ WaitingFit
  /\ DrawInOrder
  /\ UsedIsHeld
  /\ StepBudget
  /\ Reported
=============================================================================
