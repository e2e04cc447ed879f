--------------------------- MODULE FiniteResource ---------------------------
(***************************************************************************)
(* One simulation of the finite_resource pattern: the machine of           *)
(* internal/verify/finite_resource.go run by the loop of Simulator.        *)
(* Nothing is pooled: every request takes a unit when it arrives.          *)
(***************************************************************************)
EXTENDS Simulator, Counting

VARIABLE active_requests   \* requests being served by each instance

vars == <<roles, status, invariant, count, used, iter, lastStep, prevStep,
          active_requests>>

CanFire(rule, i) ==
  CASE rule = "RequestArrives" -> TRUE
    [] rule = "RequestCompletes" -> active_requests[i] > 0

Rules == <<"RequestArrives", "RequestCompletes">>

Fireable(i) == SelectSeq(Rules, LAMBDA rule : CanFire(rule, i))

(* Mutant: reaching the capacity is a violation already. *)
BrokenAtCapacity == IF used >= roles.ResourceCapacity THEN "Conservation" ELSE "none"

(* The only invariant of this machine. *)
Broken == IF used > roles.ResourceCapacity THEN "Conservation" ELSE "none"

Fires(rule, i) ==
  /\ Selects(rule, i, Fireable(i))
  /\ CanFire(rule, i)

Init == SimInit /\ active_requests = [i \in Instances |-> 0]

InitState ==
  /\ DrawInstanceCount
  /\ active_requests' = [i \in Instances' |-> 0]

Panic == DivideByZero /\ UNCHANGED active_requests

RequestArrives(i) ==
  /\ Fires("RequestArrives", i)
  /\ active_requests' = With(active_requests, i, active_requests[i] + 1)
  /\ used' = used + 1
  /\ RecordAndCheck("RequestArrives", i, Broken')

(* Mutant: the unit is never given back. *)
RequestCompletesLeaking(i) ==
  /\ Fires("RequestCompletes", i)
  /\ active_requests' = With(active_requests, i, active_requests[i] - 1)
  /\ UNCHANGED used
  /\ RecordAndCheck("RequestCompletes", i, Broken')

RequestCompletes(i) ==
  /\ Fires("RequestCompletes", i)
  /\ active_requests' = With(active_requests, i, active_requests[i] - 1)
  /\ used' = used - 1
  /\ RecordAndCheck("RequestCompletes", i, Broken')

Finished == Over /\ UNCHANGED vars

Next ==
  \/ InitState
  \/ Panic
  \/ \E i \in Instances : RequestArrives(i) \/ RequestCompletes(i)
  \/ Finished

Spec == Init /\ [][Next]_vars

-----------------------------------------------------------------------------
(* What the simulation guarantees. *)

(* Every variable stays in the values the source's type gives it, and no   *)
(* counter goes below zero.                                                *)
TypeOK ==
  /\ roles \in RoleMaps
  /\ status \in {"ready", "running", "passed", "violated", "panicked"}
  /\ invariant \in {"none", "Conservation"}
  /\ count \in Nat
  /\ used \in Nat
  /\ iter \in 0 .. MaxSteps
  /\ active_requests \in [Instances -> Nat]

(* The shared counter is the number of requests all instances are serving, *)
(* at every moment of every interleaving.                                  *)
UsedIsServed == used = Total(active_requests, count, MaxSteps)

(* The trigger of a failure: an arrival, from exactly the capacity to one  *)
(* more.                                                                   *)
TriggerExact ==
  status = "violated" =>
    /\ invariant = "Conservation"
    /\ lastStep.Rule = "RequestArrives"
    /\ lastStep.Value = roles.ResourceCapacity + 1
    /\ prevStep # NoStep
    /\ prevStep.Value = roles.ResourceCapacity

(* A failure takes one arrival more than the capacity, and two iterations  *)
(* for every request that completed before it; so a run no longer than the *)
(* capacity cannot fail, whatever the model.                               *)
FailureLength ==
  /\ status = "violated" =>
       \E completed \in 0 .. MaxSteps :
         iter = roles.ResourceCapacity + 1 + 2 * completed
  /\ MaxSteps <= roles.ResourceCapacity => status # "violated"

Outcome ==
  CASE status \in {"ready", "running"} -> "running"
    [] status = "violated" -> "violated"
    [] status \in {"passed", "panicked"} -> "stopped"

Counter == INSTANCE ResourceCounter WITH
  Capacities <- {r.ResourceCapacity : r \in RoleMaps},
  capacity <- roles.ResourceCapacity,
  outcome <- Outcome

(* This machine too implements the counter with an exact alarm. *)
ImplementsCounter == Counter!Spec

-----------------------------------------------------------------------------
(* The inductive invariant of the proofs in FiniteResourceProofs. *)

ServedFit == \A i \in Instances : active_requests[i] <= iter

(* Every iteration was an arrival, or the end of an arrived request. *)
Paired == \E completed \in 0 .. iter : iter = used + 2 * completed

(* The verdict and the last recorded step agree with the counter. *)
Reported ==
  /\ status \in {"ready", "panicked"} => iter = 0
  /\ status = "running" => iter < MaxSteps
  /\ iter > 0 => lastStep.Value = used
  /\ iter > 0 => lastStep.Rule # "none"
  /\ status # "violated" => invariant = "none" /\ used <= roles.ResourceCapacity
  /\ status = "violated" => used = roles.ResourceCapacity + 1
  /\ TriggerExact

IInv ==
  /\ TypeOK
  /\ ServedFit
  /\ UsedIsServed
  /\ Paired
  /\ Reported
=============================================================================
