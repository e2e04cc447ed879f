------------------------ MODULE FiniteResourceProofs ------------------------
(* The safety of one finite_resource simulation, for all constants. *)
EXTENDS FiniteResource, SimulatorProofs

LEMMA InitInv == Init => IInv
  <1>. SUFFICES ASSUME Init PROVE IInv
    OBVIOUS
  <1>. USE DEF Init, SimInit
  <1>0. Instances = {} /\ 0 \in 0 .. MaxSteps /\ MaxSteps \in Nat
        /\ roles.ResourceCapacity \in Nat
    BY MaxStepsAssumption, RoleNumbers DEF Instances
  <1>1. TypeOK
    BY <1>0 DEF TypeOK
  <1>2. ServedFit /\ Paired
    BY <1>0 DEF ServedFit, Paired
  <1>3. UsedIsServed
    <2>1. active_requests = [i \in 0 .. 0-1 |-> 0]
      BY DEF Instances
    <2>2. Total(active_requests, 0, MaxSteps) = 0
      BY <2>1, <1>0, TotalZero
    <2>. QED  BY <2>2 DEF UsedIsServed
  <1>4. Reported
    BY <1>0 DEF Reported, TriggerExact
  <1>. QED  BY <1>1, <1>2, <1>3, <1>4 DEF IInv

LEMMA DrawInv ==
  ASSUME IInv, InitState
  PROVE  IInv'
  <1>. USE DEF InitState, DrawInstanceCount
  <1>0. /\ roles \in RoleMaps /\ roles' = roles /\ roles.ResourceCapacity \in Nat
        /\ iter = 0 /\ iter' = 0 /\ used' = used /\ used = 0
        /\ status' = "running" /\ invariant' = "none" /\ MaxSteps \in Nat \ {0}
    BY RoleNumbers, MaxStepsAssumption DEF IInv, TypeOK, Reported, Paired
  <1>a. count' \in Nat
    BY <1>0, DrawnCount
  <1>1. TypeOK'
    BY <1>0, <1>a DEF TypeOK
  <1>2. ServedFit' /\ Paired'
    BY <1>0 DEF ServedFit, Paired
  <1>3. UsedIsServed'
    <2>1. active_requests' = [i \in 0 .. count'-1 |-> 0]
      BY DEF Instances
    <2>. QED  BY <1>0, <1>a, <2>1, TotalZero DEF UsedIsServed
  <1>4. Reported'
    BY <1>0 DEF Reported, TriggerExact
  <1>. QED  BY <1>1, <1>2, <1>3, <1>4 DEF IInv

(* Recording a step and checking the invariant after it: when only an      *)
(* arrival raises the counter, the verdict is exact.                       *)
LEMMA Recorded ==
  ASSUME IInv, status = "running",
         NEW rule, rule # "none", NEW i, RecordAndCheck(rule, i, Broken'),
         used' \in Nat,
         used' <= used \/ (used' = used + 1 /\ rule = "RequestArrives")
  PROVE  /\ iter' \in 0 .. MaxSteps
         /\ status' \in {"running", "passed", "violated"}
         /\ invariant' \in {"none", "Conservation"}
         /\ Reported'
  <1>. USE DEF RecordAndCheck
  <1>1. /\ roles' = roles /\ iter' = iter + 1
        /\ roles.ResourceCapacity \in Nat \ {0}
        /\ iter \in Nat /\ iter < MaxSteps /\ used \in Nat
        /\ used <= roles.ResourceCapacity
    BY RoleNumbers DEF IInv, TypeOK, Reported
  <1>2. iter' \in 0 .. MaxSteps
    BY <1>1, MaxStepsAssumption
  <1>3. Broken' = IF used' > roles.ResourceCapacity THEN "Conservation" ELSE "none"
    BY <1>1 DEF Broken
  <1>4. lastStep' = [Rule |-> rule, Instance |-> i, Value |-> used'] /\ prevStep' = lastStep
    OBVIOUS
  <1>5. CASE used' > roles.ResourceCapacity
    <2>1. status' = "violated" /\ invariant' = "Conservation"
      BY <1>3, <1>5
    <2>2. used = roles.ResourceCapacity /\ used' = used + 1 /\ rule = "RequestArrives"
      BY <1>1, <1>5
    <2>3. iter > 0 /\ lastStep.Value = used /\ lastStep # NoStep
      BY <1>1, <2>2 DEF IInv, Reported, Paired, NoStep
    <2>4. TriggerExact'
      BY <1>1, <1>4, <2>1, <2>2, <2>3 DEF TriggerExact, NoStep
    <2>. QED  BY <1>1, <1>2, <1>4, <2>1, <2>2, <2>4 DEF Reported
  <1>6. CASE ~(used' > roles.ResourceCapacity)
    <2>1. invariant' = "none" /\ status' = IF iter' = MaxSteps THEN "passed" ELSE "running"
      BY <1>3, <1>6
    <2>2. status' \in {"running", "passed"}
      BY <2>1
    <2>3. status' = "running" => iter' < MaxSteps
      BY <1>2, <2>1, MaxStepsAssumption
    <2>4. iter' > 0 /\ lastStep'.Value = used' /\ lastStep'.Rule # "none"
      BY <1>1, <1>4
    <2>5. used' <= roles'.ResourceCapacity
      BY <1>1, <1>6
    <2>. QED  BY <1>2, <2>1, <2>2, <2>3, <2>4, <2>5 DEF Reported, TriggerExact
  <1>. QED  BY <1>5, <1>6

(* What every rule starts from, at the instance it was drawn for. *)
RunningAt(i) ==
  /\ status = "running"
  /\ count \in Nat /\ MaxSteps \in Nat
  /\ iter \in Nat /\ iter < MaxSteps /\ used \in Nat
  /\ active_requests \in [Instances -> Nat]
  /\ active_requests[i] <= iter
  /\ used = Total(active_requests, count, MaxSteps)

LEMMA Running ==
  ASSUME IInv, NEW i \in Instances, NEW rule, Fires(rule, i)
  PROVE  CanFire(rule, i) /\ RunningAt(i)
  BY MaxStepsAssumption
     DEF Fires, Selects, IInv, TypeOK, ServedFit, UsedIsServed, Reported, RunningAt

LEMMA RequestArrivesInv ==
  ASSUME IInv, NEW i \in Instances, RequestArrives(i)
  PROVE  IInv'
  <1>0. Fires("RequestArrives", i) /\ RecordAndCheck("RequestArrives", i, Broken')
    BY DEF RequestArrives
  <1>r. RunningAt(i)
    BY <1>0, Running
  <1>1. /\ active_requests' = With(active_requests, i, active_requests[i] + 1)
        /\ used' = used + 1 /\ iter' = iter + 1
        /\ roles' = roles /\ count' = count /\ Instances' = Instances
    BY DEF RequestArrives, RecordAndCheck, Instances
  <1>2. active_requests' \in [Instances -> Nat] /\ used' \in Nat
    BY <1>1, <1>r DEF With, RunningAt
  <1>3. ServedFit'
    BY <1>1, <1>r DEF ServedFit, IInv, With, RunningAt
  <1>4. UsedIsServed'
    <2>1. active_requests[i] < MaxSteps
      BY <1>r DEF RunningAt
    <2>2. /\ count \in Nat /\ MaxSteps \in Nat /\ i \in 0 .. count-1
          /\ active_requests \in [0 .. count-1 -> Nat]
      BY <1>r DEF RunningAt, Instances
    <2>3. Total(active_requests', count, MaxSteps) = Total(active_requests, count, MaxSteps) + 1
      BY <1>1, <2>1, <2>2, TotalUp
    <2>. QED  BY <1>1, <1>r, <2>3 DEF UsedIsServed, RunningAt
  <1>5. Paired'
    BY <1>1, <1>r DEF Paired, IInv, RunningAt
  <1>6. /\ iter' \in 0 .. MaxSteps /\ Reported'
        /\ status' \in {"running", "passed", "violated"}
        /\ invariant' \in {"none", "Conservation"}
    BY <1>0, <1>1, <1>2, <1>r, Recorded DEF RunningAt
  <1>7. TypeOK'
    BY <1>1, <1>2, <1>6 DEF TypeOK, IInv
  <1>. QED  BY <1>3, <1>4, <1>5, <1>6, <1>7 DEF IInv

LEMMA RequestCompletesInv ==
  ASSUME IInv, NEW i \in Instances, RequestCompletes(i)
  PROVE  IInv'
  <1>0. Fires("RequestCompletes", i) /\ RecordAndCheck("RequestCompletes", i, Broken')
    BY DEF RequestCompletes
  <1>r. RunningAt(i) /\ active_requests[i] > 0
    BY <1>0, Running DEF CanFire
  <1>1. /\ active_requests' = With(active_requests, i, active_requests[i] - 1)
        /\ used' = used - 1 /\ iter' = iter + 1
        /\ roles' = roles /\ count' = count /\ Instances' = Instances
    BY DEF RequestCompletes, RecordAndCheck, Instances
  <1>2. active_requests' \in [Instances -> Nat]
    BY <1>1, <1>r DEF With, RunningAt
  <1>3. ServedFit'
    BY <1>1, <1>r DEF ServedFit, IInv, With, RunningAt
  <1>4. UsedIsServed' /\ used' \in Nat
    <2>1. active_requests[i] > 0 /\ active_requests[i] <= MaxSteps
      BY <1>r DEF RunningAt
    <2>2. /\ count \in Nat /\ MaxSteps \in Nat /\ i \in 0 .. count-1 /\ count <= count
          /\ active_requests \in [0 .. count-1 -> Nat]
      BY <1>r DEF RunningAt, Instances
    <2>3. Total(active_requests', count, MaxSteps) = Total(active_requests, count, MaxSteps) - 1
      BY <1>1, <2>1, <2>2, TotalDown
    <2>4. Total(active_requests', count, MaxSteps) \in Nat
      BY <2>2, TotalBound
    <2>. QED  BY <1>1, <1>r, <2>3, <2>4 DEF UsedIsServed, RunningAt
  <1>5. Paired'
    <2>1. PICK completed \in 0 .. iter : iter = used + 2 * completed
      BY DEF IInv, Paired
    <2>2. iter' = used' + 2 * (completed + 1) /\ completed + 1 \in 0 .. iter'
      BY <1>1, <1>r, <1>4, <2>1 DEF RunningAt
    <2>. QED  BY <2>2 DEF Paired
  <1>6. /\ iter' \in 0 .. MaxSteps /\ Reported'
        /\ status' \in {"running", "passed", "violated"}
        /\ invariant' \in {"none", "Conservation"}
    BY <1>0, <1>1, <1>4, <1>r, Recorded DEF RunningAt
  <1>7. TypeOK'
    BY <1>1, <1>2, <1>4, <1>6 DEF TypeOK, IInv
  <1>. QED  BY <1>3, <1>4, <1>5, <1>6, <1>7 DEF IInv

LEMMA NextInv == IInv /\ [Next]_vars => IInv'
  <1>. SUFFICES ASSUME IInv, [Next]_vars PROVE IInv'
    OBVIOUS
  <1>. USE DEF IInv, TypeOK, ServedFit, UsedIsServed, Paired, Reported, TriggerExact
  <1>1. CASE InitState
    BY <1>1, DrawInv DEF IInv
  <1>2. CASE Panic
    BY <1>2 DEF Panic, DivideByZero, Instances
  <1>3. ASSUME NEW i \in Instances, RequestArrives(i) \/ RequestCompletes(i) PROVE IInv'
    <2>. HIDE DEF IInv
    <2>. QED  BY <1>3, RequestArrivesInv, RequestCompletesInv
  <1>4. CASE UNCHANGED vars
    BY <1>4 DEF vars, Instances
  <1>. HIDE DEF IInv
  <1>. QED  BY <1>1, <1>2, <1>3, <1>4 DEF Next, Finished

-----------------------------------------------------------------------------
(* The inductive invariant holds in every state of every simulation. *)
THEOREM Inductive == Spec => []IInv
  BY InitInv, NextInv, PTL DEF Spec

(* Every reachable state is of its type, and used_resources is the number  *)
(* of requests the instances are serving.                                  *)
THEOREM CounterAgrees == Spec => [](TypeOK /\ UsedIsServed)
  <1>1. IInv => TypeOK /\ UsedIsServed
    BY DEF IInv
  <1>. QED  BY <1>1, Inductive, PTL

(* The trigger verifyMachine reports is the request one too many. *)
THEOREM TriggerCorrect == Spec => []TriggerExact
  <1>1. IInv => TriggerExact
    BY DEF IInv, Reported
  <1>. QED  BY <1>1, Inductive, PTL

(* A failure is as long as the capacity says: one arrival more than the    *)
(* capacity and two steps for every request completed before it.           *)
THEOREM FailureLengthHolds == Spec => []FailureLength
  <1>1. IInv => FailureLength
    <2>. SUFFICES ASSUME IInv, status = "violated"
                  PROVE  /\ \E completed \in 0 .. MaxSteps :
                              iter = roles.ResourceCapacity + 1 + 2 * completed
                         /\ ~(MaxSteps <= roles.ResourceCapacity)
      BY DEF FailureLength
    <2>1. /\ used = roles.ResourceCapacity + 1 /\ iter <= MaxSteps /\ iter \in Nat
          /\ roles.ResourceCapacity \in Nat /\ MaxSteps \in Nat
      BY RoleNumbers, MaxStepsAssumption DEF IInv, Reported, TypeOK
    <2>2. PICK completed \in 0 .. iter : iter = used + 2 * completed
      BY DEF IInv, Paired
    <2>. QED  BY <2>1, <2>2
  <1>. QED  BY <1>1, Inductive, PTL

(* Every step of the simulation is a step of the exact-alarm counter. *)
LEMMA CounterStep ==
  ASSUME IInv, IInv', [Next]_vars
  PROVE  [Counter!Next]_(Counter!vars)
  <1>. USE DEF Counter!Next, Counter!vars, Outcome
  <1>1. CASE InitState
    BY <1>1 DEF InitState, DrawInstanceCount
  <1>2. CASE Panic
    BY <1>2 DEF Panic, DivideByZero, Counter!Stop
  <1>3. ASSUME NEW i \in Instances, RequestArrives(i) \/ RequestCompletes(i)
        PROVE  [Counter!Next]_(Counter!vars)
    <2>0. status = "running"
      BY <1>3 DEF RequestArrives, RequestCompletes, Fires, Selects
    <2>1. /\ used \in Nat /\ used' \in Nat /\ roles.ResourceCapacity \in Nat
          /\ used <= roles.ResourceCapacity
          /\ status' = "violated" => used' = roles'.ResourceCapacity + 1
          /\ status' # "violated" => used' <= roles'.ResourceCapacity
      BY <2>0, RoleNumbers DEF IInv, TypeOK, Reported
    <2>2. roles' = roles /\ status' \in {"running", "passed", "violated"}
      BY <1>3 DEF RequestArrives, RequestCompletes, RecordAndCheck
    <2>3. CASE RequestArrives(i)
      BY <2>0, <2>1, <2>2, <2>3 DEF RequestArrives, Counter!Acquire
    <2>4. CASE RequestCompletes(i)
      BY <2>0, <2>1, <2>2, <2>4 DEF RequestCompletes, Counter!Release
    <2>. QED  BY <1>3, <2>3, <2>4
  <1>4. CASE UNCHANGED vars
    BY <1>4 DEF vars
  <1>. QED  BY <1>1, <1>2, <1>3, <1>4 DEF Next, Finished

(* A direct simulation implements the counter with an exact alarm. *)
THEOREM ResourceImplementsCounter == Spec => ImplementsCounter
  <1>1. Init => Counter!Init
    BY DEF Init, SimInit, Counter!Init, Outcome
  <1>. QED
    BY <1>1, CounterStep, Inductive, PTL DEF Spec, ImplementsCounter, Counter!Spec
=============================================================================
