------------------------ MODULE FailureReportProofs ------------------------
(***************************************************************************)
(* The finite_pooled_resource simulation and what is made of its failure,  *)
(* for every set of role maps and every number of byte values, steps and   *)
(* attempts.                                                               *)
(*                                                                         *)
(* First the simulation alone.  Its inductive invariant is IInv of         *)
(* FinitePooled: the counter is the number of cells of the board of held   *)
(* connections, a rule adds or removes one cell, and no column outgrows    *)
(* the pool.                                                               *)
(*                                                                         *)
(* Then the simulation with its recorded bytes, the search and the report. *)
(* A replay is a recursive function of the number of iterations; what it   *)
(* computes is proved by looking at the least iteration where a claim      *)
(* fails.  RecordInv says that a replay of any bytes that begin with those *)
(* drawn so far is where the run is; ShrinkInv, that the bytes kept fail   *)
(* and are whole steps; Replayed, what a replay of any bytes finds.        *)
(***************************************************************************)
EXTENDS FailureReport, SimulatorProofs, WellFoundedInduction, SequenceTheorems

-----------------------------------------------------------------------------
(* One simulation. *)

LEMMA PoolNumbers ==
  ASSUME roles \in RoleMaps
  PROVE  /\ roles.PoolCapacity \in Nat \ {0}
         /\ roles.ResourceCapacity \in Nat \ {0}
         /\ roles.MaxInstances \in Nat \ {0}
  BY RoleNumbers, PooledRoleMaps

(* The invariant holds before the first draw. *)
LEMMA InitInv == Init => IInv
  <1>. SUFFICES ASSUME Init PROVE IInv
    OBVIOUS
  <1>. USE DEF Init, SimInit
  <1>0. Instances = {} /\ 0 \in 0 .. MaxSteps
    BY MaxStepsAssumption DEF Instances
  <1>1. TypeOK
    BY <1>0 DEF TypeOK
  <1>2. PoolsFit /\ WaitingFit
    BY <1>0 DEF PoolsFit, WaitingFit
  <1>3. DrawInOrder
    BY PoolNumbers DEF DrawInOrder
  <1>4. UsedIsHeld
    <2>1. Held = [i \in 0 .. 0-1 |-> 0]
      BY DEF Held, Instances
    <2>. QED  BY <2>1, TotalZero, PoolNumbers DEF UsedIsHeld
  <1>5. StepBudget
    <2>1. pending = [i \in 0 .. 0-1 |-> 0]
      BY DEF Instances
    <2>2. Total(pending, 0, MaxSteps) = 0
      BY <2>1, TotalZero, MaxStepsAssumption
    <2>. QED  BY <2>2 DEF StepBudget
  <1>6. Reported
    BY PoolNumbers, MaxStepsAssumption DEF Reported, TriggerExact
  <1>. QED  BY <1>1, <1>2, <1>3, <1>4, <1>5, <1>6 DEF IInv

(* Making the state for the drawn number of instances. *)
LEMMA DrawInv ==
  ASSUME IInv, InitState
  PROVE  IInv'
  <1>. USE DEF InitState, DrawInstanceCount
  <1>0. /\ roles \in RoleMaps /\ roles' = roles
        /\ used = 0 /\ used' = 0 /\ iter = 0 /\ iter' = 0
        /\ status = "ready" /\ status' = "running" /\ invariant' = "none"
    BY DEF IInv, TypeOK, Reported
  <1>a. PICK b \in Byte : count' = InstanceCount(roles, b)
    OBVIOUS
  <1>b. count' \in Nat /\ DrawInOrder'
    BY <1>0, <1>a, DrawnCount DEF DrawInOrder
  <1>1. TypeOK'
    BY <1>0, <1>b, MaxStepsAssumption DEF TypeOK
  <1>2. PoolsFit' /\ WaitingFit'
    BY <1>0, PoolNumbers DEF PoolsFit, WaitingFit
  <1>4. UsedIsHeld'
    <2>1. Held' = [i \in 0 .. count'-1 |-> 0]
      BY DEF Held, Instances
    <2>. QED  BY <1>0, <1>b, <2>1, TotalZero, PoolNumbers DEF UsedIsHeld
  <1>5. StepBudget'
    <2>1. pending' = [i \in 0 .. count'-1 |-> 0]
      BY DEF Instances
    <2>. QED  BY <1>0, <1>b, <2>1, TotalZero, MaxStepsAssumption DEF StepBudget
  <1>6. Reported'
    BY <1>0, PoolNumbers, MaxStepsAssumption DEF Reported, TriggerExact
  <1>. QED  BY <1>1, <1>2, <1>b, <1>4, <1>5, <1>6 DEF IInv

(* Recording a step and checking the invariants after it: when the pools   *)
(* fit and only a growth raises the counter, the verdict is exact.         *)
LEMMA Recorded ==
  ASSUME IInv, status = "running",
         NEW rule, rule # "none", NEW i, RecordAndCheck(rule, i, Broken'),
         used' \in Nat, pool' \in [Instances -> Nat],
         in_flight' \in [Instances -> Nat], PoolsFit',
         used' <= used \/ (used' = used + 1 /\ rule = "StartGrowth")
  PROVE  /\ roles' = roles /\ count' = count
         /\ iter' = iter + 1 /\ iter' \in 0 .. MaxSteps
         /\ status' \in {"running", "passed", "violated"}
         /\ invariant' \in {"none", "Conservation"}
         /\ DrawInOrder'
         /\ Reported'
  <1>. USE DEF RecordAndCheck
  <1>1. /\ roles' = roles /\ count' = count /\ iter' = iter + 1
        /\ roles.ResourceCapacity \in Nat \ {0}
        /\ iter \in Nat /\ iter < MaxSteps /\ used \in Nat
        /\ used <= roles.ResourceCapacity
    BY PoolNumbers DEF IInv, TypeOK, Reported
  <1>2. iter' \in 0 .. MaxSteps
    BY <1>1, MaxStepsAssumption
  <1>3. ~ \E j \in Instances' : pool'[j] + in_flight'[j] > roles'.PoolCapacity
    <2>1. \A j \in Instances' : pool'[j] + in_flight'[j] <= roles'.PoolCapacity
      BY DEF PoolsFit
    <2>2. \A j \in Instances' : pool'[j] \in Int /\ in_flight'[j] \in Int
      BY <1>1 DEF Instances
    <2>. QED  BY <2>1, <2>2, <1>1, PoolNumbers DEF IInv, TypeOK
  <1>4. Broken' = IF used' > roles.ResourceCapacity THEN "Conservation" ELSE "none"
    BY <1>1, <1>3 DEF Broken
  <1>5. lastStep' = [Rule |-> rule, Instance |-> i, Value |-> used'] /\ prevStep' = lastStep
    OBVIOUS
  <1>6. CASE used' > roles.ResourceCapacity
    <2>1. status' = "violated" /\ invariant' = "Conservation"
      BY <1>4, <1>6
    <2>2. used = roles.ResourceCapacity /\ used' = used + 1 /\ rule = "StartGrowth"
      BY <1>1, <1>6
    <2>3. iter > 0 /\ lastStep.Value = used /\ lastStep # NoStep
      BY <1>1, <2>2 DEF IInv, Reported, NoStep
    <2>4. TriggerExact'
      BY <1>1, <1>5, <2>1, <2>2, <2>3 DEF TriggerExact, NoStep
    <2>. QED
      BY <1>1, <1>2, <1>5, <2>1, <2>2, <2>4 DEF Reported, IInv, DrawInOrder
  <1>7. CASE ~(used' > roles.ResourceCapacity)
    <2>1. invariant' = "none" /\ status' = IF iter' = MaxSteps THEN "passed" ELSE "running"
      BY <1>4, <1>7
    <2>2. status' \in {"running", "passed"}
      BY <2>1
    <2>3. Reported'
      <3>1. status' = "running" => iter' < MaxSteps
        BY <1>2, <2>1, MaxStepsAssumption
      <3>2. iter' > 0 /\ lastStep'.Value = used' /\ lastStep'.Rule # "none"
        BY <1>1, <1>5
      <3>3. used' <= roles'.ResourceCapacity
        BY <1>1, <1>7
      <3>. QED  BY <1>2, <2>1, <2>2, <3>1, <3>2, <3>3 DEF Reported, TriggerExact
    <2>. QED  BY <1>1, <1>2, <2>1, <2>2, <2>3 DEF IInv, DrawInOrder
  <1>. QED  BY <1>6, <1>7

(* What every rule starts from, at the instance it was drawn for. *)
RunningAt(i) ==
  /\ count \in Nat
  /\ roles.PoolCapacity \in Nat \ {0} /\ roles.ResourceCapacity \in Nat \ {0}
  /\ iter \in Nat /\ iter < MaxSteps /\ MaxSteps \in Nat
  /\ pool \in [Instances -> Nat] /\ in_flight \in [Instances -> Nat]
  /\ pending \in [Instances -> Nat] /\ used \in Nat
  /\ pool[i] + in_flight[i] <= roles.PoolCapacity
  /\ pending[i] <= iter
  /\ Held \in [Instances -> Nat]
  /\ used = Total(Held, count, roles.PoolCapacity)
  /\ 2 * used + Total(pending, count, MaxSteps) <= iter
  /\ Total(pending, count, MaxSteps) \in Nat

LEMMA Running ==
  ASSUME IInv, NEW i \in Instances, NEW rule, Fires(rule, i)
  PROVE  /\ status = "running" /\ CanFire(rule, i)
         /\ RunningAt(i)
  <1>1. /\ status = "running" /\ CanFire(rule, i)
        /\ count \in Nat /\ iter \in Nat /\ iter < MaxSteps /\ MaxSteps \in Nat
    BY MaxStepsAssumption DEF Fires, Selects, IInv, TypeOK, Reported
  <1>2. /\ roles.PoolCapacity \in Nat \ {0} /\ roles.ResourceCapacity \in Nat \ {0}
    BY PoolNumbers DEF IInv, TypeOK
  <1>3. /\ pool \in [Instances -> Nat] /\ in_flight \in [Instances -> Nat]
        /\ pending \in [Instances -> Nat] /\ used \in Nat
        /\ pool[i] + in_flight[i] <= roles.PoolCapacity
        /\ pending[i] <= iter
        /\ used = Total(Held, count, roles.PoolCapacity)
        /\ 2 * used + Total(pending, count, MaxSteps) <= iter
    BY DEF IInv, TypeOK, PoolsFit, WaitingFit, UsedIsHeld, StepBudget
  <1>4. Held \in [Instances -> Nat]
    BY <1>3 DEF Held
  <1>5. count <= count
    BY <1>1
  <1>6. Total(pending, count, MaxSteps) \in Nat
    BY <1>1, <1>5, TotalBound
  <1>. QED  BY <1>1, <1>2, <1>3, <1>4, <1>6 DEF RunningAt

(* An arrival: one more waiting, one more iteration. *)
LEMMA RequestArrivesInv ==
  ASSUME IInv, NEW i \in Instances, RequestArrives(i)
  PROVE  IInv'
  <1>0. Fires("RequestArrives", i) /\ RecordAndCheck("RequestArrives", i, Broken')
    BY DEF RequestArrives
  <1>r. status = "running" /\ RunningAt(i)
    BY <1>0, Running
  <1>1. /\ pending' = With(pending, i, pending[i] + 1)
        /\ pool' = pool /\ in_flight' = in_flight /\ used' = used
        /\ roles' = roles /\ count' = count /\ iter' = iter + 1
        /\ Instances' = Instances
    BY DEF RequestArrives, RecordAndCheck, Instances
  <1>2. pending' \in [Instances -> Nat]
    BY <1>1, <1>r DEF With, RunningAt
  <1>3. PoolsFit'
    BY <1>1 DEF PoolsFit, IInv
  <1>4. WaitingFit'
    BY <1>1, <1>r DEF WaitingFit, IInv, With, RunningAt
  <1>5. UsedIsHeld'
    <2>1. Held' = Held
      BY <1>1 DEF Held
    <2>. QED  BY <1>1, <2>1 DEF UsedIsHeld, IInv
  <1>6. StepBudget'
    <2>0. pending[i] < MaxSteps
      BY <1>r DEF RunningAt
    <2>a. /\ count \in Nat /\ MaxSteps \in Nat /\ i \in 0 .. count-1
          /\ pending \in [0 .. count-1 -> Nat]
      BY <1>r DEF RunningAt, Instances
    <2>1. Total(pending', count, MaxSteps) = Total(pending, count, MaxSteps) + 1
      BY <1>1, <2>0, <2>a, TotalUp
    <2>. QED  BY <1>1, <1>r, <2>1 DEF StepBudget, RunningAt
  <1>7. /\ iter' \in 0 .. MaxSteps /\ DrawInOrder' /\ Reported'
        /\ status' \in {"running", "passed", "violated"}
        /\ invariant' \in {"none", "Conservation"}
    BY <1>0, <1>1, <1>3, <1>r, Recorded DEF RunningAt
  <1>8. TypeOK'
    BY <1>1, <1>2, <1>7, <1>r DEF TypeOK, IInv, RunningAt
  <1>. QED  BY <1>3, <1>4, <1>5, <1>6, <1>7, <1>8 DEF IInv

(* A growth: a waiting request becomes a connection, for which the guard   *)
(* found room in the pool of its instance.                                 *)
LEMMA StartGrowthInv ==
  ASSUME IInv, NEW i \in Instances, StartGrowth(i)
  PROVE  IInv'
  <1>0. Fires("StartGrowth", i) /\ RecordAndCheck("StartGrowth", i, Broken')
    BY DEF StartGrowth
  <1>r. status = "running" /\ RunningAt(i)
    BY <1>0, Running
  <1>1. /\ pending' = With(pending, i, pending[i] - 1)
        /\ in_flight' = With(in_flight, i, in_flight[i] + 1)
        /\ pool' = pool /\ used' = used + 1
        /\ roles' = roles /\ count' = count /\ iter' = iter + 1
        /\ Instances' = Instances
    BY DEF StartGrowth, RecordAndCheck, Instances
  <1>2. pending[i] > 0 /\ pool[i] + in_flight[i] < roles.PoolCapacity
    BY <1>0, Running DEF CanFire
  <1>3. pending' \in [Instances -> Nat] /\ in_flight' \in [Instances -> Nat]
    BY <1>1, <1>2, <1>r DEF With, RunningAt
  <1>4. PoolsFit'
    BY <1>1, <1>2, <1>r DEF PoolsFit, IInv, With, RunningAt
  <1>5. WaitingFit'
    BY <1>1, <1>2, <1>r DEF WaitingFit, IInv, With, RunningAt
  <1>6. UsedIsHeld'
    <2>1. Held' = With(Held, i, Held[i] + 1) /\ Held[i] < roles.PoolCapacity
      <3>1. Held[i] = pool[i] + in_flight[i]
        BY DEF Held
      <3>2. ASSUME NEW j \in Instances
            PROVE  pool'[j] + in_flight'[j] = IF j = i THEN Held[i] + 1 ELSE Held[j]
        BY <1>1, <3>1, <1>r DEF Held, With, RunningAt
      <3>. QED  BY <1>1, <1>2, <3>1, <3>2 DEF Held, With
    <2>2. Total(Held', count, roles.PoolCapacity) = Total(Held, count, roles.PoolCapacity) + 1
      BY <2>1, <1>r, TotalUp DEF RunningAt, Instances
    <2>. QED  BY <1>1, <2>2, <1>r DEF UsedIsHeld, RunningAt
  <1>7. StepBudget'
    <2>0. 0 < pending[i] /\ pending[i] <= MaxSteps
      BY <1>2, <1>r DEF RunningAt
    <2>a. /\ count \in Nat /\ MaxSteps \in Nat /\ i \in 0 .. count-1
          /\ pending \in [0 .. count-1 -> Nat]
      BY <1>r DEF RunningAt, Instances
    <2>1. Total(pending', count, MaxSteps) = Total(pending, count, MaxSteps) - 1
      BY <1>1, <2>0, <2>a, TotalDown
    <2>. QED  BY <1>1, <1>r, <2>1 DEF StepBudget, RunningAt
  <1>8. /\ iter' \in 0 .. MaxSteps /\ DrawInOrder' /\ Reported'
        /\ status' \in {"running", "passed", "violated"}
        /\ invariant' \in {"none", "Conservation"}
    BY <1>0, <1>1, <1>3, <1>4, <1>r, Recorded DEF RunningAt
  <1>9. TypeOK'
    BY <1>1, <1>3, <1>8, <1>r DEF TypeOK, IInv, RunningAt
  <1>. QED  BY <1>4, <1>5, <1>6, <1>7, <1>8, <1>9 DEF IInv

(* A connection established: it stays the same instance's. *)
LEMMA GrowCompleteInv ==
  ASSUME IInv, NEW i \in Instances, GrowComplete(i)
  PROVE  IInv'
  <1>0. Fires("GrowComplete", i) /\ RecordAndCheck("GrowComplete", i, Broken')
    BY DEF GrowComplete
  <1>r. status = "running" /\ RunningAt(i)
    BY <1>0, Running
  <1>1. /\ in_flight' = With(in_flight, i, in_flight[i] - 1)
        /\ pool' = With(pool, i, pool[i] + 1)
        /\ pending' = pending /\ used' = used
        /\ roles' = roles /\ count' = count /\ iter' = iter + 1
        /\ Instances' = Instances
    BY DEF GrowComplete, RecordAndCheck, Instances
  <1>2. in_flight[i] > 0
    BY <1>0, Running DEF CanFire
  <1>3. pool' \in [Instances -> Nat] /\ in_flight' \in [Instances -> Nat]
    BY <1>1, <1>2, <1>r DEF With, RunningAt
  <1>4. \A j \in Instances : pool'[j] + in_flight'[j] = pool[j] + in_flight[j]
    BY <1>1, <1>2, <1>r DEF With, RunningAt
  <1>5. PoolsFit'
    BY <1>1, <1>4 DEF PoolsFit, IInv
  <1>6. WaitingFit'
    BY <1>1, <1>r DEF WaitingFit, IInv, RunningAt
  <1>7. UsedIsHeld'
    <2>1. Held' = Held
      BY <1>1, <1>4 DEF Held
    <2>. QED  BY <1>1, <2>1 DEF UsedIsHeld, IInv
  <1>8. StepBudget'
    BY <1>1, <1>r DEF StepBudget, RunningAt
  <1>9. /\ iter' \in 0 .. MaxSteps /\ DrawInOrder' /\ Reported'
        /\ status' \in {"running", "passed", "violated"}
        /\ invariant' \in {"none", "Conservation"}
    BY <1>0, <1>1, <1>3, <1>5, <1>r, Recorded DEF RunningAt
  <1>10. TypeOK'
    BY <1>1, <1>3, <1>9, <1>r DEF TypeOK, IInv, RunningAt
  <1>. QED  BY <1>5, <1>6, <1>7, <1>8, <1>9, <1>10 DEF IInv

(* A request done: its instance gives the connection back. *)
LEMMA RequestCompletesInv ==
  ASSUME IInv, NEW i \in Instances, RequestCompletes(i)
  PROVE  IInv'
  <1>0. Fires("RequestCompletes", i) /\ RecordAndCheck("RequestCompletes", i, Broken')
    BY DEF RequestCompletes
  <1>r. status = "running" /\ RunningAt(i)
    BY <1>0, Running
  <1>1. /\ pool' = With(pool, i, pool[i] - 1)
        /\ in_flight' = in_flight /\ pending' = pending /\ used' = used - 1
        /\ roles' = roles /\ count' = count /\ iter' = iter + 1
        /\ Instances' = Instances
    BY DEF RequestCompletes, RecordAndCheck, Instances
  <1>2. pool[i] > 0
    BY <1>0, Running DEF CanFire
  <1>3. pool' \in [Instances -> Nat]
    BY <1>1, <1>2, <1>r DEF With, RunningAt
  <1>4. PoolsFit'
    BY <1>1, <1>2, <1>r DEF PoolsFit, IInv, With, RunningAt
  <1>5. WaitingFit'
    BY <1>1, <1>r DEF WaitingFit, IInv, RunningAt
  <1>6. UsedIsHeld' /\ used' \in Nat
    <2>1. Held[i] = pool[i] + in_flight[i]
      BY DEF Held
    <2>2. Held[i] > 0 /\ Held[i] <= roles.PoolCapacity
      BY <1>2, <1>r, <2>1 DEF RunningAt
    <2>3. Held' = With(Held, i, Held[i] - 1)
      <3>1. ASSUME NEW j \in Instances
            PROVE  pool'[j] + in_flight'[j] = IF j = i THEN Held[i] - 1 ELSE Held[j]
        BY <1>1, <2>1, <1>r DEF Held, With, RunningAt
      <3>. QED  BY <1>1, <3>1 DEF Held, With
    <2>4. Total(Held', count, roles.PoolCapacity) = Total(Held, count, roles.PoolCapacity) - 1
      BY <2>2, <2>3, <1>r, TotalDown DEF RunningAt, Instances
    <2>5. Held' \in [Instances -> Nat] /\ count <= count
      BY <2>2, <2>3, <1>r DEF With, RunningAt
    <2>6. Total(Held', count, roles.PoolCapacity) \in Nat
      BY <2>5, <1>r, TotalBound DEF RunningAt
    <2>. QED  BY <1>1, <2>4, <2>6, <1>r DEF UsedIsHeld, RunningAt
  <1>7. StepBudget'
    BY <1>1, <1>r DEF StepBudget, RunningAt
  <1>8. /\ iter' \in 0 .. MaxSteps /\ DrawInOrder' /\ Reported'
        /\ status' \in {"running", "passed", "violated"}
        /\ invariant' \in {"none", "Conservation"}
    BY <1>0, <1>1, <1>3, <1>4, <1>6, <1>r, Recorded DEF RunningAt
  <1>9. TypeOK'
    BY <1>1, <1>3, <1>6, <1>8, <1>r DEF TypeOK, IInv, RunningAt
  <1>. QED  BY <1>4, <1>5, <1>6, <1>7, <1>8, <1>9 DEF IInv

(* A state that only changes its status to "panicked", or not at all. *)
LEMMA PanicInv ==
  ASSUME IInv, Panic
  PROVE  IInv'
  <1>1. /\ UNCHANGED <<roles, invariant, count, used, iter, lastStep, prevStep,
                       pool, in_flight, pending>>
        /\ status = "ready" /\ status' = "panicked"
        /\ Instances' = Instances /\ Held' = Held
    BY DEF Panic, DivideByZero, Instances, Held
  <1>. QED
    BY <1>1 DEF IInv, TypeOK, PoolsFit, WaitingFit, DrawInOrder, UsedIsHeld,
                StepBudget, Reported, TriggerExact

LEMMA StutterInv ==
  ASSUME IInv, UNCHANGED vars
  PROVE  IInv'
  <1>1. Instances' = Instances /\ Held' = Held
    BY DEF vars, Instances, Held
  <1>. QED
    BY <1>1 DEF vars, IInv, TypeOK, PoolsFit, WaitingFit, DrawInOrder, UsedIsHeld,
                StepBudget, Reported, TriggerExact

LEMMA NextInv == IInv /\ [Next]_vars => IInv'
  <1>. SUFFICES ASSUME IInv, [Next]_vars PROVE IInv'
    OBVIOUS
  <1>1. CASE InitState
    BY <1>1, DrawInv
  <1>2. CASE Panic
    BY <1>2, PanicInv
  <1>3. ASSUME NEW i \in Instances, Step(i) PROVE IInv'
    BY <1>3, RequestArrivesInv, StartGrowthInv, GrowCompleteInv, RequestCompletesInv
       DEF Step
  <1>4. CASE Finished
    BY <1>4, StutterInv DEF Finished
  <1>5. CASE UNCHANGED vars
    BY <1>5, StutterInv
  <1>. QED  BY <1>1, <1>2, <1>3, <1>4, <1>5 DEF Next

-----------------------------------------------------------------------------
(* The inductive invariant holds in every state of every simulation. *)
THEOREM Inductive == Spec => []IInv
  BY InitInv, NextInv, PTL DEF Spec

(* Every reachable state is of its type: no counter of finite_pooled.go    *)
(* ever goes below zero.                                                   *)
THEOREM TypeCorrect == Spec => []TypeOK
  <1>1. IInv => TypeOK
    BY DEF IInv
  <1>. QED  BY <1>1, Inductive, PTL

(* used_connections is the sum of what the instances hold. *)
THEOREM CounterAgrees == Spec => []UsedIsHeld
  <1>1. IInv => UsedIsHeld
    BY DEF IInv
  <1>. QED  BY <1>1, Inductive, PTL

(* The PoolBounded invariant of the machine is never the one reported. *)
THEOREM PoolBoundedHolds == Spec => []PoolBoundedNeverReported
  <1>1. IInv => PoolBoundedNeverReported
    BY DEF IInv, Reported, TriggerExact, PoolBoundedNeverReported
  <1>. QED  BY <1>1, Inductive, PTL

(* The trigger verifyMachine reports is the connection one too many. *)
THEOREM TriggerCorrect == Spec => []TriggerExact
  <1>1. IInv => TriggerExact
    BY DEF IInv, Reported
  <1>. QED  BY <1>1, Inductive, PTL

(* Connections and waiting requests cost iterations, and a run too short   *)
(* for the capacity cannot fail: at 1000 steps, none of 500 connections.   *)
THEOREM BudgetHolds == Spec => [](StepBudget /\ ShortRunsCannotFail)
  <1>1. IInv => StepBudget
    BY DEF IInv
  <1>2. IInv => ShortRunsCannotFail
    <2>. SUFFICES ASSUME IInv, status = "violated"
                  PROVE  2 * (roles.ResourceCapacity + 1) <= MaxSteps
      BY PoolNumbers, MaxStepsAssumption DEF ShortRunsCannotFail, IInv, TypeOK
    <2>1. /\ used = roles.ResourceCapacity + 1 /\ iter <= MaxSteps
          /\ iter \in Nat /\ count \in Nat /\ MaxSteps \in Nat
          /\ 2 * used + Total(pending, count, MaxSteps) <= iter
      BY MaxStepsAssumption DEF IInv, Reported, TypeOK, StepBudget
    <2>2. Total(pending, count, MaxSteps) \in Nat /\ roles.ResourceCapacity \in Nat
      <3>1. count <= count
        BY <2>1
      <3>. QED  BY <2>1, <3>1, TotalBound, PoolNumbers DEF IInv, TypeOK
    <2>. QED  BY <2>1, <2>2
  <1>. QED  BY <1>1, <1>2, Inductive, PTL

(* When instances times pool size is within the capacity, no interleaving  *)
(* of any number of steps violates Conservation.                           *)
THEOREM ArithmeticIsSound == Spec => []ArithmeticSound
  <1>1. IInv => ArithmeticSound
    <2>. SUFFICES ASSUME IInv, status = "violated",
                         EffectiveMinInstances(roles) <= roles.MaxInstances,
                         roles.MaxInstances * roles.PoolCapacity <= roles.ResourceCapacity
                  PROVE  FALSE
      BY DEF ArithmeticSound
    <2>1. /\ used = roles.ResourceCapacity + 1 /\ count \in Nat
          /\ count <= roles.MaxInstances
          /\ used = Total(Held, count, roles.PoolCapacity)
      BY DEF IInv, Reported, TypeOK, DrawInOrder, UsedIsHeld
    <2>2. roles.PoolCapacity \in Nat /\ roles.MaxInstances \in Nat
          /\ roles.ResourceCapacity \in Nat
      BY PoolNumbers DEF IInv, TypeOK
    <2>3. Total(Held, count, roles.PoolCapacity) <= roles.MaxInstances * roles.PoolCapacity
      BY <2>1, <2>2, TotalBound
    <2>. DEFINE board == roles.MaxInstances * roles.PoolCapacity
    <2>4. board \in Nat
      BY <2>2
    <2>. HIDE DEF board
    <2>. QED  BY <2>1, <2>2, <2>3, <2>4 DEF board
  <1>. QED  BY <1>1, Inductive, PTL

(* Every step of the simulation is a step of the exact-alarm counter. *)
LEMMA CounterStep ==
  ASSUME IInv, IInv', [Next]_vars
  PROVE  [Counter!Next]_(Counter!vars)
  <1>. USE DEF Counter!Next, Counter!vars, Outcome
  <1>1. CASE InitState
    BY <1>1 DEF InitState, DrawInstanceCount
  <1>2. CASE Panic
    BY <1>2 DEF Panic, DivideByZero, Counter!Stop
  <1>3. ASSUME NEW i \in Instances, Step(i)
        PROVE  [Counter!Next]_(Counter!vars)
    <2>0. status = "running"
      BY <1>3 DEF Step, RequestArrives, StartGrowth, GrowComplete, RequestCompletes,
                  Fires, Selects
    <2>1. /\ used \in Nat /\ used' \in Nat /\ roles.ResourceCapacity \in Nat
          /\ used <= roles.ResourceCapacity
          /\ status' = "violated" => used' = roles'.ResourceCapacity + 1
          /\ status' # "violated" => used' <= roles'.ResourceCapacity
      BY <2>0, PoolNumbers DEF IInv, TypeOK, Reported
    <2>2. roles' = roles /\ status' \in {"running", "passed", "violated"}
      BY <1>3 DEF Step, RequestArrives, StartGrowth, GrowComplete, RequestCompletes,
                  RecordAndCheck
    <2>3. used' = used \/ used' = used + 1 \/ used' = used - 1
      BY <1>3 DEF Step, RequestArrives, StartGrowth, GrowComplete, RequestCompletes
    <2>4. CASE used' = used
      BY <2>0, <2>1, <2>2, <2>4 DEF Counter!Stop
    <2>5. CASE used' = used + 1
      BY <2>0, <2>1, <2>2, <2>5 DEF Counter!Acquire
    <2>6. CASE used' = used - 1
      BY <2>0, <2>1, <2>2, <2>6 DEF Counter!Release
    <2>. QED  BY <2>3, <2>4, <2>5, <2>6
  <1>4. CASE Finished
    BY <1>4 DEF Finished, vars
  <1>5. CASE UNCHANGED vars
    BY <1>5 DEF vars
  <1>. QED  BY <1>1, <1>2, <1>3, <1>4, <1>5 DEF Next

(* A pooled simulation implements the counter with an exact alarm. *)
THEOREM PooledImplementsCounter == Spec => ImplementsCounter
  <1>1. Init => Counter!Init
    BY DEF Init, SimInit, Counter!Init, Outcome
  <1>. QED
    BY <1>1, CounterStep, Inductive, PTL DEF Spec, ImplementsCounter, Counter!Spec

-----------------------------------------------------------------------------
(* Simulate as a function of its bytes is what its loop computes. *)

(* A set of natural numbers has a least one. *)
LEMMA Least ==
  ASSUME NEW T, T \subseteq Nat, T # {}
  PROVE  \E m \in T : \A k \in T : m <= k
<1> DEFINE L == {p \in Nat \X Nat : p[1] < p[2]}
<1>1. IsWellFoundedOn(L, Nat)
  BY NatLessThanWellFounded DEF OpToRel
<1>. HIDE DEF L
<1>2. PICK m \in T : \A k \in T : <<k, m>> \notin L
  BY <1>1, WFMin
<1>3. ASSUME NEW k \in T PROVE m <= k
  <2>1. k \in Nat /\ m \in Nat
    OBVIOUS
  <2>2. <<k, m>> \notin L
    BY <1>2
  <2>3. QED
    BY <2>1, <2>2 DEF L
<1>4. QED
  BY <1>3

(* f gives the state after each of m iterations. *)
Unrolled(f, r, data, n, m) ==
  f = [k \in 0 .. m |->
        IF k = 0 THEN R!Start(n) ELSE R!Iterate(r, data, n, f[k - 1], k - 1)]

(* There is such a function, so After, which chooses one, is one. *)
LEMMA UnrolledExists ==
  ASSUME NEW r, NEW data, NEW n, NEW m \in Nat
  PROVE  \E f : Unrolled(f, r, data, n, m)
<1> DEFINE T == {k \in Nat : ~\E f : Unrolled(f, r, data, n, k)}
           It(s, k) == R!Iterate(r, data, n, s, k)
<1>1. SUFFICES ASSUME T # {} PROVE FALSE
  OBVIOUS
<1>2. PICK k \in T : \A j \in T : k <= j
  BY <1>1, Least
<1>. HIDE DEF It
<1>3. CASE k = 0
  <2>1. Unrolled([j \in 0 .. 0 |-> R!Start(n)], r, data, n, 0)
    BY DEF Unrolled
  <2>2. QED
    BY <1>2, <1>3, <2>1
<1>4. CASE k > 0
  <2>1. k - 1 \in Nat /\ k - 1 \notin T
    BY <1>2, <1>4
  <2>2. PICK f : Unrolled(f, r, data, n, k - 1)
    BY <2>1
  <2>3. \A j \in 0 .. k - 1 : f[j] = IF j = 0 THEN R!Start(n) ELSE It(f[j - 1], j - 1)
    BY <2>1, <2>2 DEF Unrolled, It
  <2> DEFINE g == [j \in 0 .. k |-> IF j = k THEN It(f[k - 1], k - 1) ELSE f[j]]
  <2>4. g[k] = It(f[k - 1], k - 1) /\ \A j \in 0 .. k - 1 : g[j] = f[j]
    BY <2>1
  <2>5. DOMAIN g = 0 .. k /\ g = [j \in 0 .. k |-> g[j]]
    OBVIOUS
  <2>. HIDE DEF g
  <2>6. ASSUME NEW j \in 0 .. k
        PROVE  g[j] = IF j = 0 THEN R!Start(n) ELSE It(g[j - 1], j - 1)
    <3>1. CASE j = k
      <4>1. g[k - 1] = f[k - 1]
        BY <2>1, <2>4
      <4>2. QED
        BY <1>4, <2>4, <3>1, <4>1
    <3>2. CASE j < k /\ j = 0
      BY <2>1, <2>3, <2>4, <3>2
    <3>3. CASE j < k /\ j > 0
      <4>1. j \in 0 .. k - 1 /\ j - 1 \in 0 .. k - 1
        BY <3>3
      <4>2. f[j] = It(f[j - 1], j - 1)
        BY <2>3, <3>3, <4>1
      <4>3. QED
        BY <2>4, <3>3, <4>1, <4>2
    <3>4. QED
      BY <3>1, <3>2, <3>3
  <2>7. g = [j \in 0 .. k |-> IF j = 0 THEN R!Start(n) ELSE It(g[j - 1], j - 1)]
    BY <2>5, <2>6
  <2>8. Unrolled(g, r, data, n, k)
    BY <2>7 DEF Unrolled, It
  <2>9. QED
    BY <2>8
<1>5. QED
  BY <1>2, <1>3, <1>4

LEMMA AfterUnrolled ==
  ASSUME NEW r, NEW data, NEW n, NEW m \in Nat
  PROVE  Unrolled(R!After(r, data, n, m), r, data, n, m)
<1>1. R!After(r, data, n, m) = CHOOSE f : Unrolled(f, r, data, n, m)
  BY DEF R!After, Unrolled
<1>2. QED
  BY <1>1, UnrolledExists

(* What the loop of simulator.go does: it starts, and iterates. *)
LEMMA AfterStep ==
  ASSUME NEW r, NEW data, NEW n, NEW m \in Nat
  PROVE  /\ R!After(r, data, n, m)[0] = R!Start(n)
         /\ \A k \in 0 .. m - 1 :
              R!After(r, data, n, m)[k + 1] = R!Iterate(r, data, n, R!After(r, data, n, m)[k], k)
<1> DEFINE f == R!After(r, data, n, m)
<1>1. Unrolled(f, r, data, n, m)
  BY AfterUnrolled
<1>. HIDE DEF f
<1>2. \A k \in 0 .. m : f[k] = IF k = 0 THEN R!Start(n) ELSE R!Iterate(r, data, n, f[k - 1], k - 1)
  BY <1>1 DEF Unrolled
<1>3. f[0] = R!Start(n)
  BY <1>2
<1>4. ASSUME NEW k \in 0 .. m - 1 PROVE f[k + 1] = R!Iterate(r, data, n, f[k], k)
  <2>1. k + 1 \in 0 .. m /\ k + 1 # 0 /\ (k + 1) - 1 = k
    OBVIOUS
  <2>2. QED
    BY <1>2, <2>1
<1>5. QED
  BY <1>3, <1>4 DEF f

(* After the violation nothing is done. *)
LEMMA Settled ==
  ASSUME NEW r, NEW data, NEW n, NEW m \in Nat, NEW k \in 0 .. m,
         R!After(r, data, n, m)[k].FailedAt >= 0
  PROVE  R!After(r, data, n, m)[m] = R!After(r, data, n, m)[k]
<1> DEFINE f == R!After(r, data, n, m)
           T == {j \in Nat : j >= k /\ j <= m /\ f[j] # f[k]}
<1>1. \A j \in 0 .. m - 1 : f[j + 1] = R!Iterate(r, data, n, f[j], j)
  BY AfterStep
<1>2. f[k].FailedAt >= 0
  OBVIOUS
<1>. HIDE DEF f
<1>3. ASSUME T # {} PROVE FALSE
  <2>1. PICK j \in T : \A l \in T : j <= l
    BY <1>3, Least
  <2>2. j > k /\ j - 1 \in 0 .. m - 1 /\ f[j - 1] = f[k]
    BY <2>1
  <2>3. f[j] = R!Iterate(r, data, n, f[k], j - 1)
    <3>1. (j - 1) + 1 = j
      BY <2>1
    <3>2. QED
      BY <1>1, <2>2, <3>1
  <2>4. f[j] = f[k]
    BY <1>2, <2>3 DEF R!Iterate
  <2>5. QED
    BY <2>1, <2>4
<1>4. m \notin T
  BY <1>3
<1>5. QED
  BY <1>4 DEF f

-----------------------------------------------------------------------------
(* A run and the replay of what it has drawn are step by step the same. *)

Snapshot ==
  [pool |-> pool, in_flight |-> in_flight, pending |-> pending, used |-> used,
   FailedAt |-> IF status = "violated" THEN iter - 1 ELSE -1,
   Invariant |-> invariant, Last |-> lastStep, Prev |-> prevStep]

(* A replay sees the rules the machine does. *)
LEMMA SameCanFire ==
  ASSUME NEW rule \in {"RequestArrives", "StartGrowth", "GrowComplete", "RequestCompletes"},
         NEW inst
  PROVE  R!PooledCanFire(roles, Snapshot, rule, inst) = CanFire(rule, inst)
<1>1. /\ Snapshot.pool = pool /\ Snapshot.in_flight = in_flight /\ Snapshot.pending = pending
  BY DEF Snapshot
<1>2. CASE rule = "RequestArrives"
  BY <1>2 DEF R!PooledCanFire, CanFire
<1>3. CASE rule = "StartGrowth"
  BY <1>1, <1>3 DEF R!PooledCanFire, CanFire
<1>4. CASE rule = "GrowComplete"
  BY <1>1, <1>4 DEF R!PooledCanFire, CanFire
<1>5. CASE rule = "RequestCompletes"
  BY <1>1, <1>5 DEF R!PooledCanFire, CanFire
<1>6. QED
  BY <1>2, <1>3, <1>4, <1>5

LEMMA SameFireable ==
  ASSUME NEW inst
  PROVE  R!PooledFireable(roles, Snapshot, inst) = Fireable(inst)
<1>1. \A rule \in {"RequestArrives", "StartGrowth", "GrowComplete", "RequestCompletes"} :
        R!Listed(roles, Snapshot, rule, inst) = Listed(rule, inst)
  BY SameCanFire DEF R!Listed, Listed
<1>2. QED
  BY <1>1 DEF R!PooledFireable, Fireable

(* The four rules do to a snapshot what they do to the machine. *)
LEMMA SameApply ==
  ASSUME IInv, NEW inst \in Instances, Step(inst)
  PROVE  /\ lastStep'.Rule \in {"RequestArrives", "StartGrowth", "GrowComplete",
                                "RequestCompletes"}
         /\ R!PooledApply(Snapshot, lastStep'.Rule, inst) =
              [pool |-> pool', in_flight |-> in_flight', pending |-> pending', used |-> used',
               FailedAt |-> -1, Invariant |-> invariant, Last |-> lastStep, Prev |-> prevStep]
         /\ lastStep' = [Rule |-> lastStep'.Rule, Instance |-> inst, Value |-> used']
         /\ prevStep' = lastStep /\ iter' = iter + 1 /\ invariant' = Broken'
         /\ status' = "violated" <=> Broken' # "none"
         /\ status = "running" /\ UNCHANGED <<roles, count>>
<1>1. /\ pool \in [Instances -> Nat] /\ in_flight \in [Instances -> Nat]
      /\ pending \in [Instances -> Nat]
  BY DEF IInv, TypeOK
<1>2. PICK rule \in {"RequestArrives", "StartGrowth", "GrowComplete", "RequestCompletes"} :
        Fires(rule, inst) /\ RecordAndCheck(rule, inst, Broken')
  BY DEF Step, RequestArrives, StartGrowth, GrowComplete, RequestCompletes
<1>3. /\ lastStep' = [Rule |-> rule, Instance |-> inst, Value |-> used']
      /\ prevStep' = lastStep /\ iter' = iter + 1 /\ invariant' = Broken'
      /\ status = "running" /\ UNCHANGED <<roles, count>>
  BY <1>2 DEF RecordAndCheck, Fires, Selects
<1>4. status' = "violated" <=> Broken' # "none"
  BY <1>2 DEF RecordAndCheck
<1>5. lastStep'.Rule = rule
  BY <1>3
<1>6. Snapshot =
        [pool |-> pool, in_flight |-> in_flight, pending |-> pending, used |-> used,
         FailedAt |-> -1, Invariant |-> invariant, Last |-> lastStep, Prev |-> prevStep]
  BY <1>3 DEF Snapshot
<1>7. R!PooledApply(Snapshot, rule, inst) =
        [pool |-> pool', in_flight |-> in_flight', pending |-> pending', used |-> used',
         FailedAt |-> -1, Invariant |-> invariant, Last |-> lastStep, Prev |-> prevStep]
  <2>1. CASE RequestArrives(inst)
    <3>1. rule = "RequestArrives"
      BY <1>5, <2>1 DEF RequestArrives, RecordAndCheck
    <3>2. /\ pending' = [pending EXCEPT ![inst] = pending[inst] + 1]
          /\ UNCHANGED <<pool, in_flight, used>>
      BY <2>1 DEF RequestArrives, With
    <3>3. QED
      BY <1>6, <3>1, <3>2 DEF R!PooledApply
  <2>2. CASE StartGrowth(inst)
    <3>1. rule = "StartGrowth"
      BY <1>5, <2>2 DEF StartGrowth, RecordAndCheck
    <3>2. /\ pending' = [pending EXCEPT ![inst] = pending[inst] - 1]
          /\ in_flight' = [in_flight EXCEPT ![inst] = in_flight[inst] + 1]
          /\ used' = used + 1 /\ UNCHANGED pool
      BY <2>2 DEF StartGrowth, With
    <3>3. QED
      BY <1>6, <3>1, <3>2 DEF R!PooledApply
  <2>3. CASE GrowComplete(inst)
    <3>1. rule = "GrowComplete"
      BY <1>5, <2>3 DEF GrowComplete, RecordAndCheck
    <3>2. /\ in_flight' = [in_flight EXCEPT ![inst] = in_flight[inst] - 1]
          /\ pool' = [pool EXCEPT ![inst] = pool[inst] + 1]
          /\ UNCHANGED <<pending, used>>
      BY <2>3 DEF GrowComplete, With
    <3>3. QED
      BY <1>6, <3>1, <3>2 DEF R!PooledApply
  <2>4. CASE RequestCompletes(inst)
    <3>1. rule = "RequestCompletes"
      BY <1>5, <2>4 DEF RequestCompletes, RecordAndCheck
    <3>2. /\ pool' = [pool EXCEPT ![inst] = pool[inst] - 1]
          /\ used' = used - 1 /\ UNCHANGED <<in_flight, pending>>
      BY <2>4 DEF RequestCompletes, With
    <3>3. QED
      BY <1>6, <3>1, <3>2 DEF R!PooledApply
  <2>5. QED
    BY <2>1, <2>2, <2>3, <2>4 DEF Step
<1>8. QED
  BY <1>3, <1>4, <1>5, <1>7

(* An iteration of the replay that draws the same bytes is the step.       *)
LEMMA SameIteration ==
  ASSUME IInv, NEW data, NEW inst \in Instances, Step(inst),
         inst = R!ByteAt(data, R!PrefixWidth + R!StepWidth * iter) % count,
         lastStep'.Rule =
           LET fireable == Fireable(inst)
               b1 == R!ByteAt(data, R!PrefixWidth + R!StepWidth * iter + 1)
           IN  fireable[(b1 % Len(fireable)) + 1]
  PROVE  R!Iterate(roles, data, count, Snapshot, iter) = Snapshot'
<1> DEFINE next == [pool |-> pool', in_flight |-> in_flight', pending |-> pending',
                    used |-> used', FailedAt |-> -1, Invariant |-> invariant,
                    Last |-> lastStep, Prev |-> prevStep]
<1>1. /\ R!PooledApply(Snapshot, lastStep'.Rule, inst) = next
      /\ lastStep' = [Rule |-> lastStep'.Rule, Instance |-> inst, Value |-> used']
      /\ prevStep' = lastStep /\ iter' = iter + 1 /\ invariant' = Broken'
      /\ status' = "violated" <=> Broken' # "none"
      /\ status = "running" /\ UNCHANGED <<roles, count>>
  BY SameApply
<1>2. Snapshot.FailedAt = -1 /\ iter \in Nat
  BY <1>1 DEF Snapshot, IInv, TypeOK
<1>3. R!PooledBroken(roles, next) = Broken'
  <2>1. /\ next.used = used' /\ next.pool = pool' /\ next.in_flight = in_flight'
        /\ DOMAIN next.pool = Instances'
    <3>1. IInv'
      BY RequestArrivesInv, StartGrowthInv, GrowCompleteInv, RequestCompletesInv DEF Step
    <3>2. DOMAIN pool' = Instances'
      BY <3>1 DEF IInv, TypeOK
    <3>3. QED
      BY <3>2
  <2>2. QED
    BY <1>1, <2>1 DEF R!PooledBroken, Broken
<1>4. R!Iterate(roles, data, count, Snapshot, iter) =
        [next EXCEPT !.Prev = Snapshot.Last,
                     !.Last = [Rule |-> lastStep'.Rule, Instance |-> inst, Value |-> next.used],
                     !.Invariant = Broken',
                     !.FailedAt = IF Broken' = "none" THEN -1 ELSE iter]
  <2>1. ~(Snapshot.FailedAt >= 0) /\ R!PooledFireable(roles, Snapshot, inst) = Fireable(inst)
    BY <1>2, SameFireable
  <2>. HIDE DEF next
  <2>2. QED
    BY <1>1, <1>3, <2>1 DEF R!Iterate, R!DrawnInstance, R!DrawnRule, R!Fire
<1>5. Snapshot.Last = lastStep
  BY DEF Snapshot
<1>6. Snapshot' =
        [pool |-> pool', in_flight |-> in_flight', pending |-> pending', used |-> used',
         FailedAt |-> IF Broken' = "none" THEN -1 ELSE iter,
         Invariant |-> Broken', Last |-> lastStep', Prev |-> lastStep]
  <2>1. (IF status' = "violated" THEN iter' - 1 ELSE -1)
          = IF Broken' = "none" THEN -1 ELSE iter
    BY <1>1, <1>2
  <2>2. QED
    BY <1>1, <2>1 DEF Snapshot
<1>7. QED
  BY <1>1, <1>4, <1>5, <1>6

(* data begins with d. *)
Extends(data, d) ==
  Len(data) \in Nat /\ Len(d) <= Len(data) /\ \A k \in 1 .. Len(d) : data[k] = d[k]

(* Whatever comes after the bytes drawn so far, a replay is where the run  *)
(* is after as many iterations.                                            *)
RecordInv ==
  /\ status = "ready" => lastStep = NoStep /\ prevStep = NoStep
  /\ status = "passed" => iter = MaxSteps
  /\ status \in {"running", "passed", "violated"} =>
       /\ drawn \in Seq(Byte) /\ Len(drawn) = 2 + 2 * iter
       /\ count = InstanceCount(roles, drawn[1]) /\ Spread(roles) # 0
       /\ \A data : Extends(data, drawn) =>
            R!After(roles, data, count, MaxSteps)[iter] = Snapshot

(* The prefix of the stream makes the replay start where the run does. *)
LEMMA PrefixInv ==
  ASSUME IInv, RecordInv, DrawPrefix
  PROVE  RecordInv'
<1>1. PICK b \in PrefixBytes : count' = InstanceCount(roles, b[1]) /\ drawn' = b
  BY DEF DrawPrefix
<1>2. PICK c \in Byte, d \in Byte : b = <<c, d>>
  BY PrefixBytesAssumption
<1>3. drawn' \in Seq(Byte) /\ Len(drawn') = 2 /\ drawn'[1] = b[1]
  BY <1>1, <1>2
<1>4. /\ status = "ready" /\ status' = "running" /\ Spread(roles) # 0
      /\ UNCHANGED <<roles, invariant, used, iter, lastStep, prevStep>>
      /\ pool' = [k \in Instances' |-> 0] /\ in_flight' = [k \in Instances' |-> 0]
      /\ pending' = [k \in Instances' |-> 0]
  BY DEF DrawPrefix, InitState, DrawInstanceCount
<1>5. iter = 0 /\ used = 0 /\ invariant = "none" /\ lastStep = NoStep /\ prevStep = NoStep
  BY <1>4 DEF IInv, Reported, RecordInv
<1>6. Snapshot' = R!Start(count')
  BY <1>4, <1>5 DEF Snapshot, R!Start, NoStep, R!NoStep, Instances
<1>7. \A data : R!After(roles, data, count', MaxSteps)[0] = R!Start(count')
  BY AfterStep, MaxStepsAssumption
<1>8. QED
  BY <1>1, <1>3, <1>4, <1>5, <1>6, <1>7 DEF RecordInv

(* An iteration of the run is the next iteration of every replay. *)
LEMMA StepInv ==
  ASSUME IInv, RecordInv, DrawStep
  PROVE  IInv' /\ RecordInv'
<1>1. PICK b \in StepBytes :
        /\ status = "running" /\ Step(b[1] % count) /\ drawn' = drawn \o b
        /\ lastStep'.Rule = LET fireable == Fireable(b[1] % count)
                            IN  fireable[(b[2] % Len(fireable)) + 1]
  BY DEF DrawStep
<1>2. b[1] \in Nat /\ b \in Seq(Byte) /\ Len(b) = 2
  <2>1. PICK c \in Byte, d \in Byte : b = <<c, d>>
    BY StepBytesAssumption
  <2>2. Byte \subseteq Nat
    BY ByteValuesAssumption DEF Byte
  <2>3. <<c, d>> \in Seq(Byte) /\ Len(<<c, d>>) = 2 /\ <<c, d>>[1] = c
    OBVIOUS
  <2>4. QED
    BY <2>1, <2>2, <2>3
<1>3. /\ drawn \in Seq(Byte) /\ Len(drawn) = 2 + 2 * iter
      /\ count = InstanceCount(roles, drawn[1]) /\ Spread(roles) # 0
      /\ iter \in Nat /\ iter < MaxSteps /\ roles \in RoleMaps
  BY <1>1 DEF RecordInv, IInv, TypeOK, Reported
<1>4. b[1] % count \in Instances
  <2>1. drawn[1] \in Byte
    BY <1>3
  <2>2. count \in Nat \ {0}
    BY <1>3, <2>1, DrawnCount
  <2>3. QED
    BY <1>2, <2>2, Remainder DEF Instances
<1>5. IInv'
  BY <1>1, <1>4, RequestArrivesInv, StartGrowthInv, GrowCompleteInv, RequestCompletesInv DEF Step
<1>6. /\ drawn' \in Seq(Byte) /\ Len(drawn') = Len(drawn) + 2
      /\ \A k \in 1 .. Len(drawn) : drawn'[k] = drawn[k]
      /\ drawn'[Len(drawn) + 1] = b[1] /\ drawn'[Len(drawn) + 2] = b[2]
  <2>0. drawn \in Seq(Byte) /\ b \in Seq(Byte)
    BY <1>2, <1>3
  <2>1. /\ drawn \o b \in Seq(Byte) /\ Len(drawn \o b) = Len(drawn) + Len(b)
        /\ \A k \in 1 .. Len(drawn) + Len(b) :
             (drawn \o b)[k] = IF k <= Len(drawn) THEN drawn[k] ELSE b[k - Len(drawn)]
    BY <2>0, ConcatProperties, Zenon
  <2>2. Len(drawn) \in Nat
    BY <1>3
  <2>3. /\ (drawn \o b)[Len(drawn) + 1] = b[1] /\ (drawn \o b)[Len(drawn) + 2] = b[2]
        /\ \A k \in 1 .. Len(drawn) : (drawn \o b)[k] = drawn[k]
    BY <1>2, <2>1, <2>2
  <2>4. QED
    BY <1>1, <1>2, <2>1, <2>3
<1>7. iter' = iter + 1 /\ UNCHANGED <<roles, count>>
  BY <1>1, <1>4, SameApply
<1>8. ASSUME NEW data, Extends(data, drawn')
      PROVE  R!After(roles, data, count, MaxSteps)[iter + 1] = Snapshot'
  <2>1. Extends(data, drawn)
    BY <1>3, <1>6, <1>8 DEF Extends
  <2>2. data[2 * iter + 3] = b[1] /\ data[2 * iter + 4] = b[2] /\ Len(data) >= 2 * iter + 4
    <3>1. Len(drawn') = 2 * iter + 4
      BY <1>3, <1>6
    <3>2. 2 * iter + 3 \in 1 .. Len(drawn') /\ 2 * iter + 4 \in 1 .. Len(drawn')
      BY <1>3, <3>1
    <3>3. Len(drawn) + 1 = 2 * iter + 3 /\ Len(drawn) + 2 = 2 * iter + 4
      BY <1>3
    <3>4. QED
      BY <1>6, <1>8, <3>1, <3>2, <3>3 DEF Extends
  <2>3. /\ R!PrefixWidth + R!StepWidth * iter = 2 + 2 * iter
        /\ R!ByteAt(data, 2 + 2 * iter) = b[1] /\ R!ByteAt(data, 2 + 2 * iter + 1) = b[2]
    <3>1. 2 + 2 * iter < Len(data) /\ 2 + 2 * iter + 1 < Len(data)
      BY <1>3, <1>8, <2>2 DEF Extends
    <3>2. (2 + 2 * iter) + 1 = 2 * iter + 3 /\ (2 + 2 * iter + 1) + 1 = 2 * iter + 4
      BY <1>3
    <3>3. QED
      BY <2>2, <3>1, <3>2 DEF R!PrefixWidth, R!StepWidth, R!ByteAt
  <2>4. R!Iterate(roles, data, count, Snapshot, iter) = Snapshot'
    BY <1>1, <1>4, <2>3, SameIteration
  <2>5. R!After(roles, data, count, MaxSteps)[iter] = Snapshot
    BY <1>1, <2>1 DEF RecordInv
  <2>6. MaxSteps \in Nat /\ iter \in 0 .. MaxSteps - 1
    BY <1>3, MaxStepsAssumption
  <2>7. QED
    BY <2>4, <2>5, <2>6, AfterStep
<1>9. status' = "passed" => iter' = MaxSteps
  BY <1>1 DEF Step, RequestArrives, StartGrowth, GrowComplete, RequestCompletes, RecordAndCheck
<1>10. status' # "ready"
  BY <1>1 DEF Step, RequestArrives, StartGrowth, GrowComplete, RequestCompletes, RecordAndCheck
<1>11. drawn'[1] = drawn[1] /\ Len(drawn') = 2 + 2 * iter'
  BY <1>3, <1>6, <1>7
<1>12. QED
  BY <1>3, <1>5, <1>6, <1>7, <1>8, <1>9, <1>10, <1>11 DEF RecordInv

LEMMA SameCount ==
  ASSUME NEW r, NEW b
  PROVE  R!InstanceCount(r, b) = InstanceCount(r, b)
BY DEF R!InstanceCount, InstanceCount, R!Spread, Spread, R!EffectiveMinInstances,
       EffectiveMinInstances

(* What the replay of the bytes of a run ends with. *)
LEMMA ReplayOf ==
  ASSUME IInv, RecordInv
  PROVE  ReplayIsExact
<1>1. SUFFICES ASSUME status \in {"passed", "violated"} PROVE ReplayIsExact
  BY DEF ReplayIsExact
<1>2. /\ drawn \in Seq(Byte) /\ Len(drawn) = 2 + 2 * iter /\ iter \in 0 .. MaxSteps
      /\ count = InstanceCount(roles, drawn[1]) /\ MaxSteps \in Nat
  BY <1>1, MaxStepsAssumption DEF RecordInv, IInv, TypeOK
<1>3. R!After(roles, drawn, count, MaxSteps)[iter] = Snapshot
  BY <1>1, <1>2 DEF RecordInv, Extends
<1>4. R!InstanceCount(roles, R!ByteAt(drawn, 0)) = count
  BY <1>2, SameCount DEF R!ByteAt
<1>5. R!After(roles, drawn, count, MaxSteps)[MaxSteps] = Snapshot
  <2>1. CASE status = "passed"
    BY <1>3, <2>1 DEF RecordInv
  <2>2. CASE status = "violated"
    <3>1. iter >= 1
      <4>1. /\ iter = 0 => used = 0
            /\ used = roles.ResourceCapacity + 1 /\ roles.ResourceCapacity \in Nat
        BY <2>2, PoolNumbers DEF IInv, TypeOK, Reported
      <4>2. QED
        BY <1>2, <4>1
    <3>2. Snapshot.FailedAt >= 0
      BY <1>2, <2>2, <3>1 DEF Snapshot
    <3>3. QED
      BY <1>2, <1>3, <3>2, Settled
  <2>3. QED
    BY <1>1, <2>1, <2>2
<1>6. /\ Snapshot.FailedAt = IF status = "violated" THEN iter - 1 ELSE -1
      /\ Snapshot.FailedAt >= 0 <=> status = "violated"
      /\ Snapshot.Invariant = invariant /\ Snapshot.Last = lastStep /\ Snapshot.Prev = prevStep
  <2>1. status = "violated" => iter >= 1
    BY <1>2, PoolNumbers DEF IInv, TypeOK, Reported
  <2>2. QED
    BY <1>2, <2>1 DEF Snapshot
<1>7. R!Simulate(roles, drawn, MaxSteps) =
        [Violated |-> Snapshot.FailedAt >= 0, FailedAt |-> Snapshot.FailedAt,
         Invariant |-> Snapshot.Invariant, InstanceCount |-> count, Last |-> Snapshot.Last,
         Prev |-> Snapshot.Prev]
  BY <1>4, <1>5 DEF R!Simulate
<1>8. (Snapshot.FailedAt >= 0) = (status = "violated")
  BY <1>6
<1>9. QED
  BY <1>6, <1>7, <1>8 DEF ReplayIsExact

LEMMA RunInit == ReportInit => IInv /\ RecordInv
<1>1. SUFFICES ASSUME ReportInit PROVE IInv /\ RecordInv
  OBVIOUS
<1>2. Init /\ drawn = << >>
  BY <1>1 DEF ReportInit, RecordInit
<1>3. QED
  BY <1>2, InitInv DEF RecordInv, Init, SimInit

LEMMA RunNext == IInv /\ RecordInv /\ [ReportNext]_reportVars => IInv' /\ RecordInv'
<1>1. SUFFICES ASSUME IInv, RecordInv, [ReportNext]_reportVars PROVE IInv' /\ RecordInv'
  OBVIOUS
<1>2. CASE DrawPrefix
  BY <1>1, <1>2, PrefixInv, DrawInv DEF DrawPrefix
<1>3. CASE Panic /\ UNCHANGED drawn
  BY <1>1, <1>3, PanicInv DEF Panic, DivideByZero, RecordInv
<1>4. CASE DrawStep
  BY <1>1, <1>4, StepInv
<1>5. CASE UNCHANGED recordedVars
  <2>1. UNCHANGED vars
    BY <1>5 DEF recordedVars, vars
  <2>2. /\ UNCHANGED <<roles, status, invariant, count, iter, lastStep, prevStep, drawn>>
        /\ Snapshot' = Snapshot
    BY <1>5 DEF recordedVars, Snapshot
  <2>3. QED
    BY <1>1, <2>1, <2>2, StutterInv DEF RecordInv
<1>6. QED
  BY <1>1, <1>2, <1>3, <1>4, <1>5 DEF ReportNext, Simulation, RecordNext, CallShrink, Shrinking,
     ReportFailure, ReportPass, ReportFinished, reportVars, recordedVars

(* docs/spec.md, section 8.5, for any role maps, bytes and numbers of      *)
(* steps: the bytes that bytestream.go recorded of a run, replayed, give   *)
(* its verdict, failing step, last steps and instances.                    *)
THEOREM RecordedRunsReplay == ReportSpec => []ReplayIsExact
  BY RunInit, RunNext, ReplayOf, PTL DEF ReportSpec

-----------------------------------------------------------------------------
(* The search. *)

(* The shrinker's Replay is that of the recorded run. *)
LEMMA SameRules ==
  ASSUME NEW r, NEW st, NEW rule, NEW inst
  PROVE  /\ S!R!PooledCanFire(r, st, rule, inst) = R!PooledCanFire(r, st, rule, inst)
         /\ S!R!Listed(r, st, rule, inst) = R!Listed(r, st, rule, inst)
         /\ S!R!PooledApply(st, rule, inst) = R!PooledApply(st, rule, inst)
         /\ S!R!PooledBroken(r, st) = R!PooledBroken(r, st)
<1>1. S!R!PooledCanFire(r, st, rule, inst) = R!PooledCanFire(r, st, rule, inst)
  BY DEF S!R!PooledCanFire, R!PooledCanFire
<1>2. S!R!Listed(r, st, rule, inst) = R!Listed(r, st, rule, inst)
  BY <1>1 DEF S!R!Listed, R!Listed
<1>3. S!R!PooledApply(st, rule, inst) = R!PooledApply(st, rule, inst)
  BY DEF S!R!PooledApply, R!PooledApply
<1>4. S!R!PooledBroken(r, st) = R!PooledBroken(r, st)
  BY DEF S!R!PooledBroken, R!PooledBroken
<1>5. QED
  BY <1>1, <1>2, <1>3, <1>4

(* The two copies of the machine iterate alike. *)
LEMMA SameIterate ==
  ASSUME NEW r, NEW data, NEW n, NEW st, NEW k
  PROVE  S!R!Iterate(r, data, n, st, k) = R!Iterate(r, data, n, st, k)
<1>1. \A j : S!R!ByteAt(data, j) = R!ByteAt(data, j)
  BY DEF S!R!ByteAt, R!ByteAt
<1>2. ASSUME NEW inst PROVE S!R!PooledFireable(r, st, inst) = R!PooledFireable(r, st, inst)
  BY SameRules DEF S!R!PooledFireable, R!PooledFireable
<1>3. S!R!PrefixWidth = R!PrefixWidth /\ S!R!StepWidth = R!StepWidth
  BY DEF S!R!PrefixWidth, R!PrefixWidth, S!R!StepWidth, R!StepWidth
<1>4. S!R!DrawnInstance(data, n, k) = R!DrawnInstance(data, n, k)
  BY <1>1, <1>3 DEF S!R!DrawnInstance, R!DrawnInstance
<1>5. ASSUME NEW inst PROVE S!R!DrawnRule(r, data, st, inst, k) = R!DrawnRule(r, data, st, inst, k)
  BY <1>1, <1>2, <1>3, Zenon DEF S!R!DrawnRule, R!DrawnRule
<1>6. ASSUME NEW rule, NEW inst PROVE S!R!Fire(r, st, rule, inst, k) = R!Fire(r, st, rule, inst, k)
  BY SameRules, Zenon DEF S!R!Fire, R!Fire
<1>7. QED
  BY <1>4, <1>5, <1>6, Zenon DEF S!R!Iterate, R!Iterate

(* The loop determines what it computes. *)
LEMMA UnrolledUnique ==
  ASSUME NEW r, NEW data, NEW n, NEW m \in Nat,
         NEW f, Unrolled(f, r, data, n, m), NEW g, Unrolled(g, r, data, n, m)
  PROVE  f = g
<1> DEFINE T == {k \in Nat : k <= m /\ f[k] # g[k]}
           It(s, k) == R!Iterate(r, data, n, s, k)
<1>1. /\ f = [k \in 0 .. m |-> IF k = 0 THEN R!Start(n) ELSE It(f[k - 1], k - 1)]
      /\ g = [k \in 0 .. m |-> IF k = 0 THEN R!Start(n) ELSE It(g[k - 1], k - 1)]
  BY DEF Unrolled
<1>. HIDE DEF It
<1>2. ASSUME T # {} PROVE FALSE
  <2>1. PICK k \in T : \A j \in T : k <= j
    BY <1>2, Least
  <2>2. k \in 0 .. m
    BY <2>1
  <2>3. k # 0
    BY <1>1, <2>1, <2>2
  <2>4. k - 1 \in 0 .. m /\ f[k - 1] = g[k - 1]
    BY <2>1, <2>2, <2>3
  <2>5. f[k] = It(f[k - 1], k - 1) /\ g[k] = It(g[k - 1], k - 1)
    BY <1>1, <2>2, <2>3
  <2>6. QED
    BY <2>1, <2>4, <2>5
<1>3. \A k \in 0 .. m : f[k] = g[k]
  BY <1>2
<1>4. QED
  BY <1>1, <1>3

LEMMA SameAfter ==
  ASSUME NEW r, NEW data, NEW n, NEW m \in Nat
  PROVE  S!R!After(r, data, n, m) = R!After(r, data, n, m)
<1> DEFINE Same(f) ==
             f = [k \in 0 .. m |-> IF k = 0 THEN S!R!Start(n)
                                   ELSE S!R!Iterate(r, data, n, f[k - 1], k - 1)]
<1>1. S!R!After(r, data, n, m) = CHOOSE f : Same(f)
  BY DEF S!R!After
<1>2. ASSUME NEW f PROVE Same(f) <=> Unrolled(f, r, data, n, m)
  <2>1. S!R!Start(n) = R!Start(n)
    BY DEF S!R!Start, R!Start, S!R!NoStep, R!NoStep
  <2>2. QED
    BY <2>1, SameIterate DEF Unrolled
<1>. HIDE DEF Same
<1>3. \E f : Same(f)
  BY <1>2, UnrolledExists
<1>4. Unrolled(S!R!After(r, data, n, m), r, data, n, m)
  BY <1>1, <1>2, <1>3
<1>5. QED
  BY <1>4, AfterUnrolled, UnrolledUnique

(* A candidate is judged by the replay that RecordInv is about. *)
LEMMA SameSimulate ==
  ASSUME NEW data
  PROVE  S!tryCandidate(data) = R!Simulate(roles, data, MaxSteps)
<1>1. S!R!ByteAt(data, 0) = R!ByteAt(data, 0)
  BY DEF S!R!ByteAt, R!ByteAt
<1>2. \A b : S!R!InstanceCount(roles, b) = R!InstanceCount(roles, b)
  BY DEF S!R!InstanceCount, R!InstanceCount, S!R!Spread, R!Spread,
         S!R!EffectiveMinInstances, R!EffectiveMinInstances
<1>3. \A n : S!R!After(roles, data, n, MaxSteps) = R!After(roles, data, n, MaxSteps)
  BY SameAfter, MaxStepsAssumption
<1>4. QED
  BY <1>1, <1>2, <1>3 DEF S!tryCandidate, S!R!Simulate, R!Simulate

(* Bytes that may be kept: whole steps after the prefix, and their run     *)
(* fails after so many.                                                    *)
Kept(data, steps) ==
  LET outcome == R!Simulate(roles, data, MaxSteps)
  IN  /\ outcome.Violated /\ steps = outcome.FailedAt + 1
      /\ data \in Seq(Byte) /\ Len(data) <= Len(drawn)
      /\ Len(data) >= 2 /\ Len(data) % 2 = 0

(* The loops are at places that keep the steps whole: chunks start behind  *)
(* the prefix and are whole steps, and no probe is above the byte itself.  *)
LoopInv ==
  /\ phase \in {"idle", "pass", "delete", "zero", "reduce", "done"}
  /\ attempts \in Nat /\ attempts <= MaxAttempts
  /\ chunkSize \in Nat /\ chunkSize % 2 = 0
  /\ phase \in {"delete", "zero"} => start \in Nat /\ start >= 2 /\ start % 2 = 0
  /\ phase = "reduce" =>
       /\ byteAt \in Nat /\ byteAt <= Len(best) /\ lo \in Nat /\ hi \in Nat
       /\ byteAt < Len(best) => hi <= best[byteAt + 1]

ShrinkInv ==
  /\ LoopInv
  /\ phase # "idle" => status = "violated" /\ Kept(best, bestSteps)

LEMMA ByteRange == Byte \subseteq Nat /\ \A b \in Byte : 0 .. b \subseteq Byte
BY ByteValuesAssumption DEF Byte

LEMMA Aligned ==
  ASSUME NEW n \in Nat
  PROVE  /\ S!alignDown(n) \in Nat /\ S!alignDown(n) % 2 = 0 /\ S!alignDown(n) <= n
<1>1. n \div 2 \in Nat /\ (n \div 2) * 2 <= n
  OBVIOUS
<1>2. \A h \in Nat : h * 2 \in Nat /\ (h * 2) % 2 = 0
  OBVIOUS
<1>3. QED
  BY <1>1, <1>2 DEF S!alignDown, S!StepWidth, S!R!StepWidth

LEMMA HalfAligned ==
  ASSUME NEW n \in Nat
  PROVE  /\ S!alignDown(n \div 2) \in Nat /\ S!alignDown(n \div 2) % 2 = 0
         /\ n >= 1 => S!alignDown(n \div 2) < n
<1>1. n \div 2 \in Nat /\ (n >= 1 => n \div 2 < n)
  OBVIOUS
<1>2. QED
  BY <1>1, Aligned

LEMMA EvenDifference ==
  ASSUME NEW m \in Nat, NEW n \in Nat, m % 2 = 0, n % 2 = 0
  PROVE  (m - n) % 2 = 0
OBVIOUS

(* A chunk cut out leaves whole steps, and the prefix. *)
LEMMA DeletedChunk ==
  ASSUME NEW data \in Seq(Byte), NEW from \in Nat, NEW length \in Nat,
         from >= 2, length >= 2, from + length <= Len(data), from % 2 = 0, length % 2 = 0,
         Len(data) % 2 = 0
  PROVE  /\ S!deleteChunk(data, from, length) \in Seq(Byte)
         /\ Len(S!deleteChunk(data, from, length)) = Len(data) - length
         /\ Len(data) - length >= 2 /\ (Len(data) - length) % 2 = 0
<1> DEFINE head == SubSeq(data, 1, from)
           tail == SubSeq(data, from + length + 1, Len(data))
<1>1. Len(data) \in Nat
  OBVIOUS
<1>2. head \in Seq(Byte) /\ Len(head) = from
  BY <1>1, SubSeqProperties
<1>3. tail \in Seq(Byte) /\ Len(tail) = Len(data) - (from + length)
  BY <1>1, SubSeqProperties
<1>. HIDE DEF head, tail
<1>4. head \o tail \in Seq(Byte) /\ Len(head \o tail) = Len(head) + Len(tail)
  BY <1>2, <1>3, ConcatProperties, Zenon
<1>5. S!deleteChunk(data, from, length) = head \o tail
  BY DEF S!deleteChunk, head, tail
<1>6. (Len(data) - length) % 2 = 0
  BY <1>1, EvenDifference
<1>7. Len(data) - length >= 2
  BY <1>1
<1>8. Len(head) + Len(tail) = Len(data) - length
  BY <1>1, <1>2, <1>3
<1>9. QED
  BY <1>4, <1>5, <1>6, <1>7, <1>8

(* A chunk of zeros in place of the bytes leaves as many, none larger. *)
LEMMA ZeroedChunk ==
  ASSUME NEW data \in Seq(Byte), NEW from \in Nat, NEW length \in Nat
  PROVE  /\ S!zeroChunk(data, from, length) \in Seq(Byte)
         /\ Len(S!zeroChunk(data, from, length)) = Len(data)
         /\ \A k \in DOMAIN data : S!zeroChunk(data, from, length)[k] <= data[k]
<1> DEFINE z == S!zeroChunk(data, from, length)
<1>1. /\ DOMAIN data = 1 .. Len(data) /\ Len(data) \in Nat
      /\ \A k \in 1 .. Len(data) : data[k] \in Byte
  OBVIOUS
<1>2. z = [k \in 1 .. Len(data) |-> IF k \in from + 1 .. from + length THEN 0 ELSE data[k]]
  BY <1>1 DEF S!zeroChunk
<1>3. Byte \subseteq Nat /\ 0 \in Byte
  BY ByteValuesAssumption DEF Byte
<1>. HIDE DEF z
<1>4. z \in Seq(Byte) /\ Len(z) = Len(data)
  BY <1>1, <1>2, <1>3
<1>5. ASSUME NEW k \in 1 .. Len(data) PROVE z[k] <= data[k]
  <2>1. data[k] \in Nat
    BY <1>1, <1>3, Zenon
  <2>2. z[k] = 0 \/ z[k] = data[k]
    BY <1>2
  <2>3. QED
    BY <2>1, <2>2
<1>6. \A k \in 1 .. Len(data) : z[k] <= data[k]
  BY <1>5
<1>7. QED
  BY <1>1, <1>4, <1>6 DEF z

(* Neither does a byte made smaller. *)
LEMMA ReducedByte ==
  ASSUME NEW data \in Seq(Byte), NEW k \in Nat, k < Len(data), NEW mid \in Nat,
         mid <= data[k + 1]
  PROVE  /\ [data EXCEPT ![k + 1] = mid] \in Seq(Byte)
         /\ Len([data EXCEPT ![k + 1] = mid]) = Len(data)
         /\ [data EXCEPT ![k + 1] = mid][k + 1] = mid
         /\ \A j \in DOMAIN data : [data EXCEPT ![k + 1] = mid][j] <= data[j]
<1>1. /\ DOMAIN data = 1 .. Len(data) /\ Len(data) \in Nat
      /\ \A j \in 1 .. Len(data) : data[j] \in Byte
  OBVIOUS
<1>2. k + 1 \in 1 .. Len(data)
  BY <1>1
<1>3. mid \in Byte /\ Byte \subseteq Nat
  BY <1>1, <1>2, ByteValuesAssumption DEF Byte
<1> DEFINE lower == [data EXCEPT ![k + 1] = mid]
           at == k + 1
<1>4. /\ lower \in Seq(Byte) /\ Len(lower) = Len(data)
      /\ \A j \in 1 .. Len(data) : lower[j] = IF j = at THEN mid ELSE data[j]
  <2>1. at \in 1 .. Len(data)
    BY <1>2
  <2>. HIDE DEF at
  <2>2. /\ [data EXCEPT ![at] = mid] \in Seq(Byte)
        /\ Len([data EXCEPT ![at] = mid]) = Len(data)
        /\ \A j \in 1 .. Len(data) :
             [data EXCEPT ![at] = mid][j] = IF j = at THEN mid ELSE data[j]
    <3>1. data \in Seq(Byte) /\ mid \in Byte
      BY <1>3
    <3>. HIDE DEF Byte
    <3>2. QED
      BY <2>1, <3>1, ExceptSeq
  <2>3. QED
    BY <2>2 DEF at
<1>5. lower[k + 1] = mid
  BY <1>2, <1>4
<1>. HIDE DEF lower
<1>6. ASSUME NEW j \in 1 .. Len(data) PROVE lower[j] <= data[j]
  <2>1. data[j] \in Nat
    BY <1>1, <1>3, Zenon
  <2>2. (lower[j] = mid /\ data[j] = data[k + 1]) \/ lower[j] = data[j]
    BY <1>4
  <2>3. QED
    BY <2>1, <2>2
<1>7. QED
  BY <1>1, <1>4, <1>5, <1>6 DEF lower

(* A candidate made of whole steps replaces the best only when it fails.   *)
LEMMA KeepInv ==
  ASSUME Kept(best, bestSteps), NEW candidate \in Seq(Byte),
         Len(candidate) <= Len(best), Len(candidate) >= 2, Len(candidate) % 2 = 0,
         S!Keep(candidate), UNCHANGED <<roles, drawn>>
  PROVE  /\ Kept(best, bestSteps)'
         /\ attempts' = attempts + 1
         /\ best' = IF R!Simulate(roles, candidate, MaxSteps).Violated THEN candidate ELSE best
<1>1. S!tryCandidate(candidate) = R!Simulate(roles, candidate, MaxSteps)
  BY SameSimulate
<1>2. /\ attempts' = attempts + 1
      /\ IF R!Simulate(roles, candidate, MaxSteps).Violated
         THEN /\ best' = candidate
              /\ bestSteps' = R!Simulate(roles, candidate, MaxSteps).FailedAt + 1
         ELSE UNCHANGED <<best, bestSteps>>
  BY <1>1 DEF S!Keep
<1>3. CASE R!Simulate(roles, candidate, MaxSteps).Violated
  <2>1. Len(candidate) <= Len(drawn)
    <3>1. Len(best) <= Len(drawn) /\ Len(best) \in Nat /\ Len(candidate) \in Nat
      BY DEF Kept
    <3>2. QED
      BY <3>1
  <2>2. QED
    BY <1>2, <1>3, <2>1 DEF Kept
<1>4. CASE ~R!Simulate(roles, candidate, MaxSteps).Violated
  BY <1>2, <1>4 DEF Kept
<1>5. QED
  BY <1>2, <1>3, <1>4

LEMMA VerdictOf ==
  ASSUME NEW v, NEW at, NEW inv, NEW n, NEW last, NEW prev
  PROVE  [Violated |-> v, FailedAt |-> at, Invariant |-> inv, InstanceCount |-> n,
          Last |-> last, Prev |-> prev].Violated = v
OBVIOUS

(* The bytes of the failing run are the first to keep.                     *)
LEMMA ShrinkCall ==
  ASSUME IInv, RecordInv, ShrinkInv, CallShrink
  PROVE  ShrinkInv'
<1>1. /\ status = "violated" /\ phase = "idle" /\ phase' = "pass" /\ best' = drawn
      /\ bestSteps' = S!tryCandidate(drawn).FailedAt + 1
      /\ UNCHANGED <<roles, status, drawn, attempts, chunkSize>>
  BY DEF CallShrink, S!Shrink, S!loopVars, recordedVars
<1>2. ReplayIsExact
  BY ReplayOf
<1>3. R!Simulate(roles, drawn, MaxSteps).Violated
  <2>1. R!Simulate(roles, drawn, MaxSteps).Violated = (status = "violated")
    <3>1. R!Simulate(roles, drawn, MaxSteps) =
            [Violated |-> status = "violated",
             FailedAt |-> IF status = "violated" THEN iter - 1 ELSE -1,
             Invariant |-> invariant,
             InstanceCount |-> count,
             Last |-> lastStep,
             Prev |-> prevStep]
      BY <1>1, <1>2 DEF ReplayIsExact
    <3>2. QED
      BY <3>1, VerdictOf
  <2>2. QED
    BY <1>1, <2>1
<1>4. bestSteps' = R!Simulate(roles, drawn, MaxSteps).FailedAt + 1
  BY <1>1, SameSimulate
<1>5. drawn \in Seq(Byte) /\ Len(drawn) >= 2 /\ Len(drawn) % 2 = 0 /\ Len(drawn) <= Len(drawn)
  <2>1. drawn \in Seq(Byte) /\ Len(drawn) = 2 + 2 * iter /\ iter \in Nat
    BY <1>1 DEF RecordInv, IInv, TypeOK
  <2>2. QED
    BY <2>1
<1>6. Kept(best, bestSteps)'
  BY <1>1, <1>3, <1>4, <1>5 DEF Kept
<1>7. QED
  BY <1>1, <1>6 DEF ShrinkInv, LoopInv

LEMMA LoopTypes ==
  ASSUME ShrinkInv, phase # "idle"
  PROVE  /\ Kept(best, bestSteps) /\ best \in Seq(Byte) /\ Len(best) \in Nat
         /\ Len(best) >= 2 /\ Len(best) % 2 = 0
         /\ attempts \in Nat /\ chunkSize \in Nat /\ MaxAttempts \in Nat
BY MaxAttemptsAssumption DEF ShrinkInv, LoopInv, Kept

(* The steps that try nothing keep the best. *)
LEMMA SameBest ==
  ASSUME Kept(best, bestSteps), UNCHANGED <<best, bestSteps, roles, drawn>>
  PROVE  Kept(best, bestSteps)' /\ S!NoLarger
<1>1. Kept(best, bestSteps)'
  BY DEF Kept
<1>2. ASSUME NEW k \in DOMAIN best PROVE best'[k] <= best[k]
  <2>1. best \in Seq(Byte) /\ Byte \subseteq Nat
    BY ByteRange DEF Kept
  <2>2. best[k] \in Byte
    BY <2>1
  <2>3. best[k] \in Nat
    BY <2>1, <2>2
  <2>4. QED
    BY <2>3
<1>3. QED
  BY <1>1, <1>2 DEF S!NoLarger

(* A candidate that is shorter, or as long and nowhere larger, is no loss. *)
LEMMA KeepNoLarger ==
  ASSUME Kept(best, bestSteps), NEW candidate \in Seq(Byte),
         Len(candidate) >= 2, Len(candidate) % 2 = 0,
         \/ Len(candidate) < Len(best)
         \/ Len(candidate) = Len(best) /\ \A k \in DOMAIN best : candidate[k] <= best[k],
         S!Keep(candidate), UNCHANGED <<roles, drawn>>
  PROVE  /\ Kept(best, bestSteps)' /\ S!NoLarger /\ Len(best') <= Len(best)
         /\ attempts' = attempts + 1
         /\ best' = IF R!Simulate(roles, candidate, MaxSteps).Violated THEN candidate ELSE best
<1>1. Len(candidate) \in Nat /\ Len(best) \in Nat /\ Len(candidate) <= Len(best)
  BY DEF Kept
<1>2. /\ Kept(best, bestSteps)' /\ attempts' = attempts + 1
      /\ best' = IF R!Simulate(roles, candidate, MaxSteps).Violated THEN candidate ELSE best
  BY <1>1, KeepInv
<1>3. CASE best' = candidate
  BY <1>1, <1>2, <1>3 DEF S!NoLarger
<1>4. CASE best' = best
  <2>1. \A k \in DOMAIN best : best[k] \in Nat
    <3>1. best \in Seq(Byte) /\ Byte \subseteq Nat
      BY ByteRange DEF Kept
    <3>2. \A k \in DOMAIN best : best[k] \in Byte
      BY <3>1
    <3>3. QED
      BY <3>1, <3>2
  <2>2. \A k \in DOMAIN best : best'[k] <= best[k]
    BY <1>4, <2>1
  <2>3. QED
    BY <1>1, <1>2, <1>4, <2>2 DEF S!NoLarger
<1>5. QED
  BY <1>2, <1>3, <1>4

LEMMA NextStart ==
  ASSUME NEW n \in Nat, n >= 2, n % 2 = 0
  PROVE  n + 2 \in Nat /\ n + 2 >= 2 /\ (n + 2) % 2 = 0
OBVIOUS

LEMMA DeleteInv ==
  ASSUME ShrinkInv, S!DeleteChunk, UNCHANGED recordedVars
  PROVE  ShrinkInv' /\ S!NoLarger
<1>1. /\ phase = "delete" /\ chunkSize >= 2 /\ ~(attempts >= MaxAttempts)
      /\ start + chunkSize <= Len(best)
      /\ S!Keep(S!deleteChunk(best, start, chunkSize)) /\ start' = start + 2
      /\ UNCHANGED <<phase, chunkSize, roles, drawn, status>>
  BY DEF S!DeleteChunk, S!ChunksLeft, S!StartsLeft, S!Spent, S!StepWidth, S!R!StepWidth,
         recordedVars
<1>2. start \in Nat /\ start >= 2 /\ start % 2 = 0 /\ chunkSize % 2 = 0 /\ status = "violated"
  BY <1>1 DEF ShrinkInv, LoopInv
<1>3. /\ Kept(best, bestSteps) /\ best \in Seq(Byte) /\ Len(best) \in Nat
      /\ Len(best) >= 2 /\ Len(best) % 2 = 0
      /\ attempts \in Nat /\ chunkSize \in Nat /\ MaxAttempts \in Nat
  BY <1>1, LoopTypes
<1> DEFINE candidate == S!deleteChunk(best, start, chunkSize)
<1>4. /\ candidate \in Seq(Byte) /\ Len(candidate) = Len(best) - chunkSize
      /\ Len(best) - chunkSize >= 2 /\ (Len(best) - chunkSize) % 2 = 0
  BY <1>1, <1>2, <1>3, DeletedChunk
<1>5. S!Keep(candidate)
  BY <1>1
<1>. HIDE DEF candidate
<1>6. Len(candidate) < Len(best) /\ Len(candidate) >= 2 /\ Len(candidate) % 2 = 0
  BY <1>1, <1>3, <1>4
<1>7. Kept(best, bestSteps)' /\ S!NoLarger /\ attempts' = attempts + 1
  BY <1>1, <1>3, <1>4, <1>5, <1>6, KeepNoLarger
<1>8. attempts' \in Nat /\ attempts' <= MaxAttempts
  BY <1>1, <1>3, <1>7
<1>9. start' \in Nat /\ start' >= 2 /\ start' % 2 = 0
  BY <1>1, <1>2, NextStart
<1>10. QED
  BY <1>1, <1>2, <1>3, <1>7, <1>8, <1>9 DEF ShrinkInv, LoopInv

LEMMA ZeroInv ==
  ASSUME ShrinkInv, S!ZeroChunk, UNCHANGED recordedVars
  PROVE  ShrinkInv' /\ S!NoLarger
<1>1. /\ phase = "zero" /\ ~(attempts >= MaxAttempts)
      /\ S!Keep(S!zeroChunk(best, start, chunkSize)) /\ start' = start + 2
      /\ UNCHANGED <<phase, chunkSize, roles, drawn, status>>
  BY DEF S!ZeroChunk, S!ChunksLeft, S!Spent, S!StepWidth, S!R!StepWidth, recordedVars
<1>2. start \in Nat /\ start >= 2 /\ start % 2 = 0 /\ chunkSize % 2 = 0 /\ status = "violated"
  BY <1>1 DEF ShrinkInv, LoopInv
<1>3. /\ Kept(best, bestSteps) /\ best \in Seq(Byte) /\ Len(best) \in Nat
      /\ Len(best) >= 2 /\ Len(best) % 2 = 0
      /\ attempts \in Nat /\ chunkSize \in Nat /\ MaxAttempts \in Nat
  BY <1>1, LoopTypes
<1> DEFINE candidate == S!zeroChunk(best, start, chunkSize)
<1>4. /\ candidate \in Seq(Byte) /\ Len(candidate) = Len(best)
      /\ \A k \in DOMAIN best : candidate[k] <= best[k]
  BY <1>2, <1>3, ZeroedChunk
<1>5. S!Keep(candidate)
  BY <1>1
<1>. HIDE DEF candidate
<1>6. Kept(best, bestSteps)' /\ S!NoLarger /\ attempts' = attempts + 1
  BY <1>1, <1>3, <1>4, <1>5, KeepNoLarger
<1>7. attempts' \in Nat /\ attempts' <= MaxAttempts
  BY <1>1, <1>3, <1>6
<1>8. start' \in Nat /\ start' >= 2 /\ start' % 2 = 0
  BY <1>1, <1>2, NextStart
<1>9. QED
  BY <1>1, <1>2, <1>3, <1>6, <1>7, <1>8 DEF ShrinkInv, LoopInv

(* A probe is below the upper end of the interval. *)
LEMMA Midpoint ==
  ASSUME NEW l \in Nat, NEW h \in Nat, l < h
  PROVE  LET mid == l + (h - l) \div 2 IN mid \in Nat /\ l <= mid /\ mid < h
OBVIOUS

LEMMA ReduceInv ==
  ASSUME ShrinkInv, S!ReduceByte, UNCHANGED recordedVars
  PROVE  ShrinkInv' /\ S!NoLarger
<1> DEFINE mid == lo + (hi - lo) \div 2
           candidate == [best EXCEPT ![byteAt + 1] = mid]
<1>1. /\ phase = "reduce" /\ ~(attempts >= MaxAttempts) /\ byteAt < Len(best) /\ lo < hi
      /\ S!Keep(candidate)
      /\ IF S!tryCandidate(candidate).Violated
         THEN hi' = mid /\ UNCHANGED lo
         ELSE lo' = mid + 1 /\ UNCHANGED hi
      /\ UNCHANGED <<phase, chunkSize, byteAt, roles, drawn, status>>
  BY DEF S!ReduceByte, S!BytesLeft, S!Spent, recordedVars
<1>2. /\ byteAt \in Nat /\ lo \in Nat /\ hi \in Nat /\ hi <= best[byteAt + 1]
      /\ chunkSize % 2 = 0 /\ status = "violated"
  BY <1>1 DEF ShrinkInv, LoopInv
<1>3. /\ Kept(best, bestSteps) /\ best \in Seq(Byte) /\ Len(best) \in Nat
      /\ Len(best) >= 2 /\ Len(best) % 2 = 0
      /\ attempts \in Nat /\ chunkSize \in Nat /\ MaxAttempts \in Nat
  BY <1>1, LoopTypes
<1>4. mid \in Nat /\ lo <= mid /\ mid < hi
  BY <1>1, <1>2, Midpoint
<1>. HIDE DEF mid
<1>5. best[byteAt + 1] \in Nat
  <2>1. byteAt + 1 \in 1 .. Len(best) /\ Byte \subseteq Nat
    BY <1>1, <1>2, <1>3, ByteRange
  <2>2. best[byteAt + 1] \in Byte
    BY <1>3, <2>1
  <2>3. QED
    BY <2>1, <2>2
<1>6. mid <= best[byteAt + 1]
  BY <1>2, <1>4, <1>5
<1>7. /\ candidate \in Seq(Byte) /\ Len(candidate) = Len(best)
      /\ candidate[byteAt + 1] = mid
      /\ \A j \in DOMAIN best : candidate[j] <= best[j]
  BY <1>1, <1>2, <1>3, <1>4, <1>6, ReducedByte
<1>8. S!tryCandidate(candidate) = R!Simulate(roles, candidate, MaxSteps)
  BY SameSimulate
<1>. HIDE DEF candidate
<1>9. /\ Kept(best, bestSteps)' /\ S!NoLarger /\ attempts' = attempts + 1
      /\ best' = IF R!Simulate(roles, candidate, MaxSteps).Violated THEN candidate ELSE best
  BY <1>1, <1>3, <1>7, KeepNoLarger
<1>10. attempts' \in Nat /\ attempts' <= MaxAttempts
  BY <1>1, <1>3, <1>9
<1>11. Len(best') = Len(best) /\ hi' \in Nat /\ lo' \in Nat /\ hi' <= best'[byteAt + 1]
  <2>1. CASE R!Simulate(roles, candidate, MaxSteps).Violated
    BY <1>1, <1>2, <1>4, <1>7, <1>8, <1>9, <2>1
  <2>2. CASE ~R!Simulate(roles, candidate, MaxSteps).Violated
    BY <1>1, <1>2, <1>4, <1>8, <1>9, <2>2
  <2>3. QED
    BY <2>1, <2>2
<1>12. QED
  BY <1>1, <1>2, <1>3, <1>9, <1>10, <1>11 DEF ShrinkInv, LoopInv

LEMMA BeginPassInv ==
  ASSUME ShrinkInv, S!BeginPass, UNCHANGED recordedVars
  PROVE  ShrinkInv' /\ S!NoLarger
<1>1. /\ phase = "pass" /\ phase' \in {"done", "delete"}
      /\ phase' = "done" => UNCHANGED chunkSize
      /\ phase' = "delete" => chunkSize' = S!alignDown(Len(best) \div 2) /\ start' = 2
      /\ UNCHANGED <<best, bestSteps, attempts, roles, drawn, status>>
  BY DEF S!BeginPass, S!PrefixWidth, S!R!PrefixWidth, S!R!StepWidth, recordedVars
<1>2. /\ Kept(best, bestSteps) /\ Len(best) \in Nat
  BY <1>1, LoopTypes
<1>3. Kept(best, bestSteps)' /\ S!NoLarger
  BY <1>1, <1>2, SameBest
<1>4. phase' = "delete" => chunkSize' \in Nat /\ chunkSize' % 2 = 0
  BY <1>1, <1>2, HalfAligned
<1>5. 2 \in Nat /\ 2 >= 2 /\ 2 % 2 = 0
  OBVIOUS
<1>6. QED
  BY <1>1, <1>3, <1>4, <1>5 DEF ShrinkInv, LoopInv

LEMMA HalveInv ==
  ASSUME ShrinkInv, S!HalveChunk, UNCHANGED recordedVars
  PROVE  ShrinkInv' /\ S!NoLarger
<1>1. /\ phase \in {"delete", "zero"} /\ start' = 2
      /\ chunkSize' = S!alignDown(chunkSize \div 2)
      /\ UNCHANGED <<best, bestSteps, attempts, phase, roles, drawn, status>>
  BY DEF S!HalveChunk, S!PrefixWidth, S!R!PrefixWidth, S!R!StepWidth, recordedVars
<1>2. Kept(best, bestSteps) /\ chunkSize \in Nat
  BY <1>1, LoopTypes
<1>3. Kept(best, bestSteps)' /\ S!NoLarger
  BY <1>1, <1>2, SameBest
<1>4. chunkSize' \in Nat /\ chunkSize' % 2 = 0
  BY <1>1, <1>2, HalfAligned
<1>5. 2 \in Nat /\ 2 >= 2 /\ 2 % 2 = 0
  OBVIOUS
<1>6. QED
  BY <1>1, <1>3, <1>4, <1>5 DEF ShrinkInv, LoopInv

LEMMA EndDeletesInv ==
  ASSUME ShrinkInv, S!EndDeletes, UNCHANGED recordedVars
  PROVE  ShrinkInv' /\ S!NoLarger
<1>1. /\ phase = "delete" /\ phase' = "zero" /\ start' = 2
      /\ chunkSize' = S!alignDown(Len(best) \div 2)
      /\ UNCHANGED <<best, bestSteps, attempts, roles, drawn, status>>
  BY DEF S!EndDeletes, S!PrefixWidth, S!R!PrefixWidth, S!R!StepWidth, recordedVars
<1>2. Kept(best, bestSteps) /\ Len(best) \in Nat
  BY <1>1, LoopTypes
<1>3. Kept(best, bestSteps)' /\ S!NoLarger
  BY <1>1, <1>2, SameBest
<1>4. chunkSize' \in Nat /\ chunkSize' % 2 = 0
  BY <1>1, <1>2, HalfAligned
<1>5. 2 \in Nat /\ 2 >= 2 /\ 2 % 2 = 0
  OBVIOUS
<1>6. QED
  BY <1>1, <1>3, <1>4, <1>5 DEF ShrinkInv, LoopInv

(* The search of a byte starts with the byte itself as its upper end. *)
LEMMA SearchedByte ==
  ASSUME Kept(best, bestSteps), NEW k \in Nat, k <= Len(best), S!SearchByte(k),
         UNCHANGED best
  PROVE  /\ byteAt' = k /\ byteAt' \in Nat /\ byteAt' <= Len(best') /\ lo' \in Nat /\ hi' \in Nat
         /\ byteAt' < Len(best') => hi' <= best'[byteAt' + 1]
<1>1. byteAt' = k /\ lo' = 0 /\ hi' = IF k < Len(best) THEN best[k + 1] ELSE 0
  BY DEF S!SearchByte
<1>2. CASE k < Len(best)
  <2>1. best \in Seq(Byte) /\ k + 1 \in 1 .. Len(best) /\ Byte \subseteq Nat
    BY <1>2, ByteRange DEF Kept
  <2>2. best[k + 1] \in Byte
    BY <2>1
  <2>3. best[k + 1] \in Nat
    BY <2>1, <2>2
  <2>4. QED
    BY <1>1, <1>2, <2>3
<1>3. CASE ~(k < Len(best))
  BY <1>1, <1>3
<1>4. QED
  BY <1>2, <1>3

LEMMA EndZerosInv ==
  ASSUME ShrinkInv, S!EndZeros, UNCHANGED recordedVars
  PROVE  ShrinkInv' /\ S!NoLarger
<1>1. /\ phase = "zero" /\ phase' = "reduce" /\ S!SearchByte(0)
      /\ UNCHANGED <<best, bestSteps, attempts, chunkSize, roles, drawn, status>>
  BY DEF S!EndZeros, recordedVars
<1>2. Kept(best, bestSteps) /\ Len(best) \in Nat
  BY <1>1, LoopTypes
<1>3. Kept(best, bestSteps)' /\ S!NoLarger
  BY <1>1, <1>2, SameBest
<1>4. 0 \in Nat /\ 0 <= Len(best)
  BY <1>2
<1>5. /\ byteAt' \in Nat /\ byteAt' <= Len(best') /\ lo' \in Nat /\ hi' \in Nat
      /\ byteAt' < Len(best') => hi' <= best'[byteAt' + 1]
  BY <1>1, <1>2, <1>4, SearchedByte
<1>6. QED
  BY <1>1, <1>3, <1>5 DEF ShrinkInv, LoopInv

LEMMA NextByteInv ==
  ASSUME ShrinkInv, S!NextByte, UNCHANGED recordedVars
  PROVE  ShrinkInv' /\ S!NoLarger
<1>1. /\ phase = "reduce" /\ byteAt < Len(best) /\ S!SearchByte(byteAt + 1)
      /\ UNCHANGED <<best, bestSteps, attempts, phase, chunkSize, roles, drawn, status>>
  BY DEF S!NextByte, S!BytesLeft, recordedVars
<1>2. Kept(best, bestSteps) /\ Len(best) \in Nat /\ byteAt \in Nat
  BY <1>1, LoopTypes DEF ShrinkInv, LoopInv
<1>3. Kept(best, bestSteps)' /\ S!NoLarger
  BY <1>1, <1>2, SameBest
<1>4. byteAt + 1 \in Nat /\ byteAt + 1 <= Len(best)
  BY <1>1, <1>2
<1>5. /\ byteAt' \in Nat /\ byteAt' <= Len(best') /\ lo' \in Nat /\ hi' \in Nat
      /\ byteAt' < Len(best') => hi' <= best'[byteAt' + 1]
  BY <1>1, <1>2, <1>4, SearchedByte
<1>6. QED
  BY <1>1, <1>3, <1>5 DEF ShrinkInv, LoopInv

LEMMA EndPassInv ==
  ASSUME ShrinkInv, S!EndPass, UNCHANGED recordedVars
  PROVE  ShrinkInv' /\ S!NoLarger
<1>1. /\ phase = "reduce" /\ phase' \in {"done", "pass"}
      /\ UNCHANGED <<best, bestSteps, attempts, chunkSize, roles, drawn, status>>
  BY DEF S!EndPass, S!loopVars, recordedVars
<1>2. Kept(best, bestSteps)
  BY <1>1, LoopTypes
<1>3. Kept(best, bestSteps)' /\ S!NoLarger
  BY <1>1, <1>2, SameBest
<1>4. QED
  BY <1>1, <1>3 DEF ShrinkInv, LoopInv

LEMMA SearchInv ==
  ASSUME ShrinkInv, Shrinking
  PROVE  ShrinkInv' /\ S!NoLarger
<1>1. S!Search /\ UNCHANGED recordedVars
  BY DEF Shrinking
<1>2. QED
  BY <1>1, BeginPassInv, DeleteInv, HalveInv, EndDeletesInv, ZeroInv, EndZerosInv, ReduceInv,
     NextByteInv, EndPassInv DEF S!Search

(* Nothing moves the search before its call or beside its own steps.       *)
LEMMA OtherStepsInv ==
  ASSUME IInv, RecordInv, ShrinkInv, [ReportNext]_reportVars, ~CallShrink, ~Shrinking
  PROVE  ShrinkInv' /\ UNCHANGED shrinkVars
<1>1. /\ UNCHANGED shrinkVars
      /\ status = "violated" => UNCHANGED <<roles, status, drawn>>
  <2>1. CASE Simulation
    <3>1. UNCHANGED shrinkVars /\ status \in {"ready", "running"}
      BY <2>1 DEF Simulation, RecordNext, DrawPrefix, InitState, DrawInstanceCount, Panic,
         DivideByZero, DrawStep
    <3>2. QED
      BY <3>1
  <2>2. CASE ReportFailure
    BY <2>2 DEF ReportFailure, recordedVars
  <2>3. CASE ReportPass
    BY <2>3 DEF ReportPass, recordedVars
  <2>4. CASE UNCHANGED reportVars
    BY <2>4 DEF reportVars, shrinkVars
  <2>5. QED
    BY <2>1, <2>2, <2>3, <2>4 DEF ReportNext, ReportFinished
<1>2. UNCHANGED <<best, bestSteps, attempts, phase, chunkSize, start, byteAt, lo, hi>>
  BY <1>1 DEF shrinkVars
<1>3. LoopInv'
  BY <1>2 DEF ShrinkInv, LoopInv
<1>4. phase' # "idle" => status' = "violated" /\ Kept(best, bestSteps)'
  BY <1>1, <1>2 DEF ShrinkInv, Kept
<1>5. QED
  BY <1>1, <1>3, <1>4 DEF ShrinkInv

LEMMA ShrinkInit == ReportInit => ShrinkInv
BY MaxAttemptsAssumption DEF ReportInit, S!Init, ShrinkInv, LoopInv

LEMMA ShrinkNext ==
  IInv /\ RecordInv /\ ShrinkInv /\ [ReportNext]_reportVars => ShrinkInv'
BY ShrinkCall, SearchInv, OtherStepsInv

LEMMA KeptFails == ShrinkInv => BestFails
<1>1. S!tryCandidate(best) = R!Simulate(roles, best, MaxSteps)
  BY SameSimulate
<1>2. QED
  BY <1>1 DEF ShrinkInv, Kept, BestFails, S!BestFails, S!PrefixWidth, S!R!PrefixWidth, S!StepWidth,
     S!R!StepWidth

(* The bytes shrinker.go holds fail at every moment, for any failing run,  *)
(* number of steps and budget, and are whole steps after the prefix.       *)
THEOREM ShrunkBytesFail == ReportSpec => []BestFails
  BY RunInit, RunNext, ShrinkInit, ShrinkNext, KeptFails, PTL DEF ReportSpec

-----------------------------------------------------------------------------
(* The search ends. *)

(* The parts of the variant of shrinker.go's loops. *)
AttemptsLeft == MaxAttempts - attempts
PassOpen == IF phase # "pass" /\ S!Converged THEN 0 ELSE 1
PhaseRank ==
  CASE phase = "delete" -> 4 [] phase = "zero" -> 3 [] phase = "reduce" -> 2
    [] phase = "pass" -> 1 [] phase = "done" -> 0
LeftInPhase == IF phase = "reduce" THEN Len(best) - byteAt ELSE chunkSize

(* The variant is made of them. *)
LEMMA Parts ==
  /\ S!Variant = <<AttemptsLeft, PassOpen, PhaseRank, LeftInPhase>>
  /\ S!Variant' = <<AttemptsLeft', PassOpen', PhaseRank', LeftInPhase'>>
BY DEF S!Variant, AttemptsLeft, PassOpen, PhaseRank, LeftInPhase

(* The first part that differs decides. *)
LEMMA LowerFirst ==
  ASSUME NEW a1, NEW a2, NEW a3, NEW a4, NEW b1, NEW b2, NEW b3, NEW b4,
         \/ a1 < b1
         \/ a1 = b1 /\ a2 < b2
         \/ a1 = b1 /\ a2 = b2 /\ a3 < b3
         \/ a1 = b1 /\ a2 = b2 /\ a3 = b3 /\ a4 < b4
  PROVE  S!Precedes(<<a1, a2, a3, a4>>, <<b1, b2, b3, b4>>)
<1> DEFINE a == <<a1, a2, a3, a4>>
           b == <<b1, b2, b3, b4>>
<1>1. /\ DOMAIN a = {1, 2, 3, 4}
      /\ a[1] = a1 /\ a[2] = a2 /\ a[3] = a3 /\ a[4] = a4
      /\ b[1] = b1 /\ b[2] = b2 /\ b[3] = b3 /\ b[4] = b4
  OBVIOUS
<1>0. SUFFICES S!Precedes(a, b)
  OBVIOUS
<1>. HIDE DEF a, b
<1>2. 1 .. 1-1 = {} /\ 1 .. 2-1 = {1} /\ 1 .. 3-1 = {1, 2} /\ 1 .. 4-1 = {1, 2, 3}
  OBVIOUS
<1>3. CASE a1 < b1
  <2>1. a[1] < b[1] /\ \A j \in 1 .. 1-1 : a[j] = b[j]
    BY <1>1, <1>2, <1>3
  <2>2. QED
    BY <1>1, <2>1 DEF S!Precedes
<1>4. CASE a1 = b1 /\ a2 < b2
  <2>1. a[2] < b[2] /\ \A j \in 1 .. 2-1 : a[j] = b[j]
    BY <1>1, <1>2, <1>4
  <2>2. QED
    BY <1>1, <2>1 DEF S!Precedes
<1>5. CASE a1 = b1 /\ a2 = b2 /\ a3 < b3
  <2>1. a[3] < b[3] /\ \A j \in 1 .. 3-1 : a[j] = b[j]
    BY <1>1, <1>2, <1>5
  <2>2. QED
    BY <1>1, <2>1 DEF S!Precedes
<1>6. CASE a1 = b1 /\ a2 = b2 /\ a3 = b3 /\ a4 < b4
  <2>1. a[4] < b[4] /\ \A j \in 1 .. 4-1 : a[j] = b[j]
    BY <1>1, <1>2, <1>6
  <2>2. QED
    BY <1>1, <2>1 DEF S!Precedes
<1>7. QED
  BY <1>3, <1>4, <1>5, <1>6

LEMMA RankOf ==
  /\ phase = "delete" => PhaseRank = 4
  /\ phase = "zero" => PhaseRank = 3
  /\ phase = "reduce" => PhaseRank = 2
  /\ phase = "pass" => PhaseRank = 1
  /\ phase = "done" => PhaseRank = 0
  /\ phase' = "delete" => PhaseRank' = 4
  /\ phase' = "zero" => PhaseRank' = 3
  /\ phase' = "reduce" => PhaseRank' = 2
  /\ phase' = "pass" => PhaseRank' = 1
  /\ phase' = "done" => PhaseRank' = 0
BY DEF PhaseRank

(* Every part is what it would be for a program that goes on.              *)
LEMMA PartsPositive ==
  ASSUME ShrinkInv, phase # "idle"
  PROVE  /\ \A k \in 1 .. 4 : S!Variant[k] >= 0
         /\ AttemptsLeft \in Int /\ PassOpen \in {0, 1} /\ PhaseRank \in Int /\ LeftInPhase \in Int
<1>1. /\ best \in Seq(Byte) /\ Len(best) \in Nat /\ attempts \in Nat /\ chunkSize \in Nat
      /\ MaxAttempts \in Nat
  BY LoopTypes
<1>2. AttemptsLeft \in Nat
  BY <1>1 DEF ShrinkInv, LoopInv, AttemptsLeft
<1>3. PassOpen \in {0, 1}
  BY DEF PassOpen
<1>4. PhaseRank \in Nat
  BY RankOf DEF ShrinkInv, LoopInv
<1>5. LeftInPhase \in Nat
  BY <1>1 DEF LeftInPhase, ShrinkInv, LoopInv
<1>6. \A k \in 1 .. 4 : S!Variant[k] \in Nat
  BY <1>2, <1>3, <1>4, <1>5, Parts
<1>7. QED
  BY <1>2, <1>3, <1>4, <1>5, <1>6

(* A candidate that is tried costs an attempt, kept or not.                *)
LEMMA TrialsDescend ==
  ASSUME ShrinkInv, S!DeleteChunk \/ S!ZeroChunk \/ S!ReduceByte
  PROVE  S!Precedes(S!Variant', S!Variant)
<1>1. attempts' = attempts + 1 /\ phase # "idle"
  BY DEF S!DeleteChunk, S!ZeroChunk, S!ReduceByte, S!Keep
<1>2. attempts \in Nat /\ MaxAttempts \in Nat
  BY <1>1, LoopTypes
<1>3. AttemptsLeft' < AttemptsLeft
  BY <1>1, <1>2 DEF AttemptsLeft
<1>4. QED
  BY <1>3, Parts, LowerFirst

(* A pass that begins compares with itself, so it has changed nothing yet. *)
LEMMA PassDescends ==
  ASSUME ShrinkInv, S!BeginPass
  PROVE  S!Precedes(S!Variant', S!Variant)
<1>1. /\ phase = "pass" /\ UNCHANGED <<best, bestSteps, attempts>>
      /\ \/ phase' = "done"
         \/ phase' = "delete" /\ prevLen' = Len(best) /\ prevSteps' = bestSteps
  BY DEF S!BeginPass
<1>2. AttemptsLeft' = AttemptsLeft /\ PassOpen = 1
  BY <1>1 DEF AttemptsLeft, PassOpen
<1>3. CASE phase' = "done"
  <2>1. PassOpen' \in {0, 1} /\ PhaseRank' = 0 /\ PhaseRank = 1
    BY <1>1, <1>3, RankOf DEF PassOpen
  <2>2. QED
    BY <1>2, <2>1, Parts, LowerFirst
<1>4. CASE phase' = "delete" /\ prevLen' = Len(best) /\ prevSteps' = bestSteps
  <2>1. S!Converged'
    BY <1>1, <1>4 DEF S!Converged
  <2>2. PassOpen' = 0
    BY <1>4, <2>1 DEF PassOpen
  <2>3. QED
    BY <1>2, <2>2, Parts, LowerFirst
<1>5. QED
  BY <1>1, <1>3, <1>4

(* The other steps leave the bytes alone and move on in the loops.         *)
LEMMA LoopsDescend ==
  ASSUME ShrinkInv,
         S!HalveChunk \/ S!EndDeletes \/ S!EndZeros \/ S!NextByte \/ S!EndPass
  PROVE  S!Precedes(S!Variant', S!Variant)
<1>1. /\ UNCHANGED <<best, bestSteps, attempts, prevLen, prevSteps>>
      /\ phase # "idle" /\ phase # "pass"
  BY DEF S!HalveChunk, S!EndDeletes, S!EndZeros, S!NextByte, S!EndPass
<1>2. AttemptsLeft' = AttemptsLeft /\ S!Converged' = S!Converged
  BY <1>1 DEF AttemptsLeft, S!Converged
<1>3. Len(best) \in Nat /\ chunkSize \in Nat
  BY <1>1, LoopTypes
<1>4. CASE S!HalveChunk
  <2>1. /\ UNCHANGED phase /\ phase \in {"delete", "zero"} /\ chunkSize >= 2
        /\ chunkSize' = S!alignDown(chunkSize \div 2)
    BY <1>4 DEF S!HalveChunk, S!ChunksLeft, S!StepWidth, S!R!StepWidth
  <2>2. chunkSize' < chunkSize
    BY <1>3, <2>1, HalfAligned
  <2>3. /\ PassOpen' = PassOpen /\ PhaseRank' = PhaseRank
        /\ LeftInPhase' = chunkSize' /\ LeftInPhase = chunkSize
    BY <1>2, <2>1 DEF PassOpen, PhaseRank, LeftInPhase
  <2>4. QED
    BY <1>2, <2>2, <2>3, Parts, LowerFirst
<1>5. CASE S!NextByte
  <2>1. UNCHANGED phase /\ phase = "reduce" /\ byteAt' = byteAt + 1 /\ byteAt \in Nat
    BY <1>5 DEF S!NextByte, S!SearchByte, ShrinkInv, LoopInv
  <2>2. /\ PassOpen' = PassOpen /\ PhaseRank' = PhaseRank
        /\ LeftInPhase' = Len(best) - (byteAt + 1) /\ LeftInPhase = Len(best) - byteAt
    BY <1>1, <1>2, <2>1 DEF PassOpen, PhaseRank, LeftInPhase
  <2>3. LeftInPhase' < LeftInPhase
    BY <1>3, <2>1, <2>2
  <2>4. QED
    BY <1>2, <2>2, <2>3, Parts, LowerFirst
<1>6. CASE S!EndDeletes \/ S!EndZeros \/ S!EndPass
  <2>1. \/ phase = "delete" /\ phase' = "zero"
        \/ phase = "zero" /\ phase' = "reduce"
        \/ phase = "reduce" /\ S!Converged /\ phase' = "done"
        \/ phase = "reduce" /\ ~S!Converged /\ phase' = "pass"
    BY <1>6 DEF S!EndDeletes, S!EndZeros, S!EndPass
  <2>2. PassOpen' = PassOpen /\ PhaseRank' < PhaseRank
    BY <1>2, <2>1, RankOf DEF PassOpen
  <2>3. QED
    BY <1>2, <2>2, Parts, LowerFirst
<1>7. QED
  BY <1>4, <1>5, <1>6

LEMMA StepDescends ==
  IInv /\ RecordInv /\ ShrinkInv /\ [ReportNext]_reportVars => [S!StepsDown]_shrinkVars
<1>1. SUFFICES ASSUME IInv, RecordInv, ShrinkInv, [ReportNext]_reportVars
      PROVE  [S!StepsDown]_shrinkVars
  OBVIOUS
<1>2. CASE CallShrink
  BY <1>2 DEF CallShrink, S!Shrink, S!StepsDown
<1>3. CASE Shrinking
  <2>1. S!NoLarger
    BY <1>1, <1>3, SearchInv
  <2>2. S!Search
    BY <1>3 DEF Shrinking
  <2>3. S!Precedes(S!Variant', S!Variant)
    BY <1>1, <2>2, TrialsDescend, PassDescends, LoopsDescend DEF S!Search
  <2>4. phase # "idle" => \A k \in 1 .. 4 : S!Variant[k] >= 0
    BY <1>1, PartsPositive
  <2>5. QED
    BY <2>1, <2>3, <2>4 DEF S!StepsDown
<1>4. CASE ~CallShrink /\ ~Shrinking
  BY <1>1, <1>4, OtherStepsInv
<1>5. QED
  BY <1>2, <1>3, <1>4

(* The nested loops of shrinker.go end for any failing run, number of      *)
(* steps and budget: every step of the search goes down in a well-founded  *)
(* order, and the bytes it keeps never grow.                               *)
THEOREM SearchDescends == ReportSpec => Descends
  BY RunInit, RunNext, ShrinkInit, ShrinkNext, StepDescends, PTL DEF ReportSpec, Descends

-----------------------------------------------------------------------------
(* What the replay of any bytes finds. *)

AllRules == {"RequestArrives", "StartGrowth", "GrowComplete", "RequestCompletes"}

(* A replay of data after k iterations. *)
Numbers(s, n) ==
  /\ s = [pool |-> s.pool, in_flight |-> s.in_flight, pending |-> s.pending, used |-> s.used,
          FailedAt |-> s.FailedAt, Invariant |-> s.Invariant, Last |-> s.Last, Prev |-> s.Prev]
  /\ s.pool \in [0 .. n-1 -> Nat] /\ s.in_flight \in [0 .. n-1 -> Nat]
  /\ s.pending \in [0 .. n-1 -> Int] /\ s.used \in Int
  /\ \A inst \in 0 .. n-1 : s.pool[inst] + s.in_flight[inst] <= roles.PoolCapacity

Replayed(s, data, n, k) ==
  \/ /\ Numbers(s, n) /\ s.FailedAt = -1 /\ s.used <= roles.ResourceCapacity
     /\ IF k = 0 THEN s.used = 0 ELSE s.Last.Value = s.used
  \/ /\ s.FailedAt \in Nat \ {0} /\ 2 * s.FailedAt + 3 < Len(data)
     /\ s.Invariant = "Conservation" /\ s.Last.Rule = "StartGrowth"
     /\ s.Last.Value = roles.ResourceCapacity + 1 /\ s.Prev.Value = roles.ResourceCapacity

LEMMA ListedRules ==
  ASSUME NEW s, NEW inst, NEW rule \in AllRules
  PROVE  LET Able == {other \in AllRules : R!PooledCanFire(roles, s, other, inst)}
         IN  /\ R!Listed(roles, s, rule, inst) \in Seq(Able)
             /\ Len(R!Listed(roles, s, rule, inst)) \in Nat
<1> DEFINE Able == {other \in AllRules : R!PooledCanFire(roles, s, other, inst)}
<1>1. CASE R!PooledCanFire(roles, s, rule, inst)
  <2>1. rule \in Able
    BY <1>1
  <2>. HIDE DEF Able
  <2>2. <<rule>> \in Seq(Able) /\ Len(<<rule>>) = 1
    BY <2>1
  <2>3. QED
    BY <1>1, <2>2 DEF R!Listed, Able
<1>2. CASE ~R!PooledCanFire(roles, s, rule, inst)
  BY <1>2 DEF R!Listed
<1>3. QED
  BY <1>1, <1>2

LEMMA Joined ==
  ASSUME NEW Q, NEW s1, s1 \in Seq(Q), NEW s2, s2 \in Seq(Q), Len(s1) >= 1
  PROVE  /\ s1 \o s2 \in Seq(Q) /\ Len(s1 \o s2) >= 1 /\ (s1 \o s2)[1] = s1[1]
<1>1. /\ s1 \o s2 \in Seq(Q) /\ Len(s1 \o s2) = Len(s1) + Len(s2)
      /\ \A j \in 1 .. Len(s1) + Len(s2) :
           (s1 \o s2)[j] = IF j <= Len(s1) THEN s1[j] ELSE s2[j - Len(s1)]
  BY ConcatProperties, Zenon
<1>2. Len(s1) \in Nat /\ Len(s2) \in Nat
  OBVIOUS
<1>3. QED
  BY <1>1, <1>2

(* The rules that can fire, RequestArrives the first of them. *)
LEMMA FireableRules ==
  ASSUME NEW s, NEW inst
  PROVE  LET Able == {other \in AllRules : R!PooledCanFire(roles, s, other, inst)}
             fireable == R!PooledFireable(roles, s, inst)
         IN  /\ fireable \in Seq(Able) /\ Len(fireable) \in Nat \ {0}
             /\ fireable[1] = "RequestArrives"
<1> DEFINE Able == {other \in AllRules : R!PooledCanFire(roles, s, other, inst)}
           la == R!Listed(roles, s, "RequestArrives", inst)
           ls == R!Listed(roles, s, "StartGrowth", inst)
           lg == R!Listed(roles, s, "GrowComplete", inst)
           lc == R!Listed(roles, s, "RequestCompletes", inst)
<1>1. la \in Seq(Able) /\ ls \in Seq(Able) /\ lg \in Seq(Able) /\ lc \in Seq(Able)
  BY ListedRules DEF AllRules
<1>2. la = <<"RequestArrives">>
  BY DEF R!Listed, R!PooledCanFire
<1>3. Len(la) >= 1 /\ la[1] = "RequestArrives"
  BY <1>2
<1>4. R!PooledFireable(roles, s, inst) = la \o ls \o lg \o lc
  BY DEF R!PooledFireable
<1>. HIDE DEF Able, la, ls, lg, lc
<1>5. la \o ls \in Seq(Able) /\ Len(la \o ls) >= 1 /\ (la \o ls)[1] = "RequestArrives"
  BY <1>1, <1>3, Joined
<1>6. /\ la \o ls \o lg \in Seq(Able) /\ Len(la \o ls \o lg) >= 1
      /\ (la \o ls \o lg)[1] = "RequestArrives"
  BY <1>1, <1>5, Joined
<1>7. /\ la \o ls \o lg \o lc \in Seq(Able) /\ Len(la \o ls \o lg \o lc) >= 1
      /\ (la \o ls \o lg \o lc)[1] = "RequestArrives"
  BY <1>1, <1>6, Joined
<1>8. Len(la \o ls \o lg \o lc) \in Nat
  BY <1>7
<1>9. QED
  BY <1>4, <1>7, <1>8 DEF Able

(* Past the end of the bytes the first rule is drawn. *)
LEMMA RuleDrawn ==
  ASSUME NEW data \in Seq(Byte), NEW s, NEW inst, NEW k \in Nat
  PROVE  LET rule == R!DrawnRule(roles, data, s, inst, k)
         IN  /\ rule \in AllRules /\ R!PooledCanFire(roles, s, rule, inst)
             /\ rule # "RequestArrives" => 2 * k + 3 < Len(data)
<1> DEFINE at == R!PrefixWidth + R!StepWidth * k + 1
           b1 == R!ByteAt(data, at)
           fireable == R!PooledFireable(roles, s, inst)
           Able == {other \in AllRules : R!PooledCanFire(roles, s, other, inst)}
           rule == R!DrawnRule(roles, data, s, inst, k)
<1>1. /\ fireable \in Seq(Able) /\ Len(fireable) \in Nat \ {0}
      /\ fireable[1] = "RequestArrives"
  BY FireableRules
<1>2. at = 2 * k + 3 /\ at \in Nat
  BY DEF R!PrefixWidth, R!StepWidth
<1>3. rule = fireable[(b1 % Len(fireable)) + 1]
  BY DEF R!DrawnRule
<1>. HIDE DEF at
<1>4. b1 \in Nat /\ (~(at < Len(data)) => b1 = 0)
  <2>1. CASE at < Len(data)
    <3>1. at + 1 \in 1 .. Len(data) /\ Byte \subseteq Nat
      BY <1>2, <2>1, ByteRange
    <3>2. data[at + 1] \in Byte
      BY <3>1
    <3>3. QED
      BY <2>1, <3>1, <3>2 DEF R!ByteAt
  <2>2. CASE ~(at < Len(data))
    BY <2>2 DEF R!ByteAt
  <2>3. QED
    BY <2>1, <2>2
<1>. HIDE DEF b1, fireable, Able, rule
<1>5. b1 % Len(fireable) \in 0 .. Len(fireable) - 1
  BY <1>1, <1>4, Remainder
<1>6. (b1 % Len(fireable)) + 1 \in 1 .. Len(fireable)
  BY <1>1, <1>5
<1>7. rule \in Able
  BY <1>1, <1>3, <1>6
<1>8. b1 = 0 => rule = "RequestArrives"
  <2>1. 0 % Len(fireable) = 0
    BY <1>1
  <2>2. QED
    BY <1>1, <1>3, <2>1
<1>9. QED
  BY <1>2, <1>4, <1>7, <1>8 DEF Able, rule

(* The fields of a replay determine its Numbers. *)
LEMMA NumbersOf ==
  ASSUME NEW n, NEW p \in [0 .. n-1 -> Nat], NEW f \in [0 .. n-1 -> Nat],
         NEW w \in [0 .. n-1 -> Int], NEW u \in Int, NEW a, NEW v, NEW l, NEW m,
         \A inst \in 0 .. n-1 : p[inst] + f[inst] <= roles.PoolCapacity
  PROVE  Numbers([pool |-> p, in_flight |-> f, pending |-> w, used |-> u,
                  FailedAt |-> a, Invariant |-> v, Last |-> l, Prev |-> m], n)
BY DEF Numbers

(* Only StartGrowth takes a connection, and only for a pool with room. *)
LEMMA ApplyNumbers ==
  ASSUME roles \in RoleMaps, NEW n \in Nat \ {0}, NEW s, Numbers(s, n),
         NEW inst \in 0 .. n-1, NEW rule \in AllRules, R!PooledCanFire(roles, s, rule, inst)
  PROVE  LET next == R!PooledApply(s, rule, inst)
         IN  /\ Numbers(next, n) /\ next.Last = s.Last
             /\ IF rule = "StartGrowth" THEN next.used = s.used + 1 ELSE next.used <= s.used
<1>1. /\ s = [pool |-> s.pool, in_flight |-> s.in_flight, pending |-> s.pending, used |-> s.used,
              FailedAt |-> s.FailedAt, Invariant |-> s.Invariant, Last |-> s.Last,
              Prev |-> s.Prev]
      /\ s.pool \in [0 .. n-1 -> Nat] /\ s.in_flight \in [0 .. n-1 -> Nat]
      /\ s.pending \in [0 .. n-1 -> Int] /\ s.used \in Int
      /\ \A j \in 0 .. n-1 : s.pool[j] + s.in_flight[j] <= roles.PoolCapacity
      /\ roles.PoolCapacity \in Nat
  BY PoolNumbers DEF Numbers
<1> DEFINE Same(p, f, w, u) ==
             [pool |-> p, in_flight |-> f, pending |-> w, used |-> u,
              FailedAt |-> s.FailedAt, Invariant |-> s.Invariant, Last |-> s.Last,
              Prev |-> s.Prev]
           next == R!PooledApply(s, rule, inst)
           less(g) == [g EXCEPT ![inst] = @ - 1]
           more(g) == [g EXCEPT ![inst] = @ + 1]
<1>7. ASSUME NEW g \in [0 .. n-1 -> Int], NEW j \in 0 .. n-1
      PROVE  /\ more(g)[j] = IF j = inst THEN g[j] + 1 ELSE g[j]
             /\ less(g)[j] = IF j = inst THEN g[j] - 1 ELSE g[j]
  OBVIOUS
<1>8. s.pool \in [0 .. n-1 -> Int] /\ s.in_flight \in [0 .. n-1 -> Int]
  BY <1>1
<1>2. CASE rule = "RequestArrives"
  <2>1. next = Same(s.pool, s.in_flight, more(s.pending), s.used)
    BY <1>1, <1>2 DEF R!PooledApply
  <2>2. more(s.pending) \in [0 .. n-1 -> Int]
    BY <1>1
  <2>. HIDE DEF more, less
  <2>3. Numbers(Same(s.pool, s.in_flight, more(s.pending), s.used), n)
    BY <1>1, <2>2, NumbersOf
  <2>. HIDE DEF next
  <2>4. next.used <= s.used /\ next.Last = s.Last
    BY <1>1, <2>1
  <2>5. QED
    BY <1>2, <2>1, <2>3, <2>4 DEF next
<1>3. CASE rule = "StartGrowth"
  <2>1. /\ next = Same(s.pool, more(s.in_flight), less(s.pending), s.used + 1)
        /\ s.pool[inst] + s.in_flight[inst] < roles.PoolCapacity
    BY <1>1, <1>3 DEF R!PooledApply, R!PooledCanFire
  <2>2. more(s.in_flight) \in [0 .. n-1 -> Nat] /\ less(s.pending) \in [0 .. n-1 -> Int]
    BY <1>1
  <2>3. ASSUME NEW j \in 0 .. n-1 PROVE s.pool[j] + more(s.in_flight)[j] <= roles.PoolCapacity
    <3>1. /\ s.pool[j] \in Nat /\ s.in_flight[j] \in Nat
          /\ s.pool[j] + s.in_flight[j] <= roles.PoolCapacity
      BY <1>1
    <3>2. more(s.in_flight)[j] = IF j = inst THEN s.in_flight[j] + 1 ELSE s.in_flight[j]
      BY <1>7, <1>8
    <3>. HIDE DEF more, less
    <3>3. QED
      BY <1>1, <2>1, <3>1, <3>2
  <2>. HIDE DEF more, less
  <2>4. Numbers(Same(s.pool, more(s.in_flight), less(s.pending), s.used + 1), n)
    <3>1. s.used + 1 \in Int
      BY <1>1
    <3>2. QED
      BY <1>1, <2>2, <2>3, <3>1, NumbersOf, Zenon
  <2>. HIDE DEF next
  <2>5. next.used = s.used + 1 /\ next.Last = s.Last
    BY <1>1, <2>1
  <2>6. QED
    BY <1>3, <2>1, <2>4, <2>5 DEF next
<1>4. CASE rule = "GrowComplete"
  <2>1. next = Same(more(s.pool), less(s.in_flight), s.pending, s.used) /\ s.in_flight[inst] > 0
    BY <1>1, <1>4 DEF R!PooledApply, R!PooledCanFire
  <2>2. more(s.pool) \in [0 .. n-1 -> Nat] /\ less(s.in_flight) \in [0 .. n-1 -> Nat]
    BY <1>1, <2>1
  <2>3. ASSUME NEW j \in 0 .. n-1 PROVE more(s.pool)[j] + less(s.in_flight)[j] <= roles.PoolCapacity
    <3>1. /\ s.pool[j] \in Nat /\ s.in_flight[j] \in Nat
          /\ s.pool[j] + s.in_flight[j] <= roles.PoolCapacity
      BY <1>1
    <3>2. /\ more(s.pool)[j] = IF j = inst THEN s.pool[j] + 1 ELSE s.pool[j]
          /\ less(s.in_flight)[j] = IF j = inst THEN s.in_flight[j] - 1 ELSE s.in_flight[j]
      BY <1>7, <1>8
    <3>. HIDE DEF more, less
    <3>3. QED
      BY <1>1, <2>1, <3>1, <3>2
  <2>. HIDE DEF more, less
  <2>4. Numbers(Same(more(s.pool), less(s.in_flight), s.pending, s.used), n)
    BY <1>1, <2>2, <2>3, NumbersOf
  <2>. HIDE DEF next
  <2>5. next.used <= s.used /\ next.Last = s.Last
    BY <1>1, <2>1
  <2>6. QED
    BY <1>4, <2>1, <2>4, <2>5 DEF next
<1>5. CASE rule = "RequestCompletes"
  <2>1. next = Same(less(s.pool), s.in_flight, s.pending, s.used - 1) /\ s.pool[inst] > 0
    BY <1>1, <1>5 DEF R!PooledApply, R!PooledCanFire
  <2>2. less(s.pool) \in [0 .. n-1 -> Nat]
    BY <1>1, <2>1
  <2>3. ASSUME NEW j \in 0 .. n-1 PROVE less(s.pool)[j] + s.in_flight[j] <= roles.PoolCapacity
    <3>1. /\ s.pool[j] \in Nat /\ s.in_flight[j] \in Nat
          /\ s.pool[j] + s.in_flight[j] <= roles.PoolCapacity
      BY <1>1
    <3>2. less(s.pool)[j] = IF j = inst THEN s.pool[j] - 1 ELSE s.pool[j]
      BY <1>7, <1>8
    <3>. HIDE DEF more, less
    <3>3. QED
      BY <1>1, <2>1, <3>1, <3>2
  <2>. HIDE DEF more, less
  <2>4. Numbers(Same(less(s.pool), s.in_flight, s.pending, s.used - 1), n)
    <3>1. s.used - 1 \in Int
      BY <1>1
    <3>2. QED
      BY <1>1, <2>2, <2>3, <3>1, NumbersOf, Zenon
  <2>. HIDE DEF next
  <2>5. next.used <= s.used /\ next.Last = s.Last
    BY <1>1, <2>1
  <2>6. QED
    BY <1>5, <2>1, <2>4, <2>5 DEF next
<1>6. QED
  BY <1>2, <1>3, <1>4, <1>5 DEF AllRules

LEMMA InstanceDrawn ==
  ASSUME NEW data \in Seq(Byte), NEW n \in Nat \ {0}, NEW k \in Nat
  PROVE  R!DrawnInstance(data, n, k) \in 0 .. n-1
<1> DEFINE at == R!PrefixWidth + R!StepWidth * k
<1>1. at \in Nat
  BY DEF R!PrefixWidth, R!StepWidth
<1>. HIDE DEF at
<1>2. R!ByteAt(data, at) \in Nat
  <2>1. CASE at < Len(data)
    <3>1. at + 1 \in 1 .. Len(data) /\ Byte \subseteq Nat
      BY <1>1, <2>1, ByteRange
    <3>2. data[at + 1] \in Byte
      BY <3>1
    <3>3. QED
      BY <2>1, <3>1, <3>2 DEF R!ByteAt
  <2>2. CASE ~(at < Len(data))
    BY <2>2 DEF R!ByteAt
  <2>3. QED
    BY <2>1, <2>2
<1>3. QED
  BY <1>2, Remainder DEF R!DrawnInstance, at

(* An iteration of any replay: a violation is one connection too many,     *)
(* started in this iteration by a byte of the data.                        *)
LEMMA ReplayedStep ==
  ASSUME roles \in RoleMaps, NEW data \in Seq(Byte), NEW n \in Nat \ {0}, NEW k \in Nat,
         NEW s, Replayed(s, data, n, k)
  PROVE  Replayed(R!Iterate(roles, data, n, s, k), data, n, k + 1)
<1>1. CASE s.FailedAt \in Nat \ {0}
  <2>1. R!Iterate(roles, data, n, s, k) = s
    BY <1>1 DEF R!Iterate
  <2>2. s.FailedAt # -1
    BY <1>1
  <2>3. QED
    BY <2>1, <2>2 DEF Replayed
<1>2. CASE s.FailedAt = -1
  <2> DEFINE inst == R!DrawnInstance(data, n, k)
             rule == R!DrawnRule(roles, data, s, inst, k)
             next == R!PooledApply(s, rule, inst)
             end == R!Iterate(roles, data, n, s, k)
             broken == R!PooledBroken(roles, next)
  <2>1. end = R!Fire(roles, s, rule, inst, k)
    BY <1>2 DEF R!Iterate
  <2>2. inst \in 0 .. n-1
    BY InstanceDrawn
  <2>3. /\ Numbers(s, n) /\ s.used <= roles.ResourceCapacity
        /\ IF k = 0 THEN s.used = 0 ELSE s.Last.Value = s.used
    BY <1>2 DEF Replayed
  <2>. HIDE DEF inst
  <2>4. /\ rule \in AllRules /\ R!PooledCanFire(roles, s, rule, inst)
        /\ rule # "RequestArrives" => 2 * k + 3 < Len(data)
    BY RuleDrawn
  <2>. HIDE DEF rule
  <2>5. /\ Numbers(next, n) /\ next.Last = s.Last
        /\ IF rule = "StartGrowth" THEN next.used = s.used + 1 ELSE next.used <= s.used
    BY <2>2, <2>3, <2>4, ApplyNumbers
  <2>. HIDE DEF next
  <2>6. /\ roles.ResourceCapacity \in Nat \ {0} /\ s.used \in Int /\ next.used \in Int
    BY <2>3, <2>5, PoolNumbers DEF Numbers
  <2>7. broken = IF next.used > roles.ResourceCapacity THEN "Conservation" ELSE "none"
    <3>1. ~\E j \in DOMAIN next.pool : next.pool[j] + next.in_flight[j] > roles.PoolCapacity
      <4>1. /\ next.pool \in [0 .. n-1 -> Nat] /\ next.in_flight \in [0 .. n-1 -> Nat]
            /\ \A j \in 0 .. n-1 : next.pool[j] + next.in_flight[j] <= roles.PoolCapacity
            /\ roles.PoolCapacity \in Nat
        BY <2>5, PoolNumbers DEF Numbers
      <4>2. QED
        BY <4>1
    <3>2. QED
      BY <3>1 DEF R!PooledBroken
  <2>8. end = [pool |-> next.pool, in_flight |-> next.in_flight, pending |-> next.pending,
               used |-> next.used, FailedAt |-> IF broken = "none" THEN -1 ELSE k,
               Invariant |-> broken,
               Last |-> [Rule |-> rule, Instance |-> inst, Value |-> next.used],
               Prev |-> s.Last]
    <3>1. next = [pool |-> next.pool, in_flight |-> next.in_flight, pending |-> next.pending,
                  used |-> next.used, FailedAt |-> next.FailedAt, Invariant |-> next.Invariant,
                  Last |-> next.Last, Prev |-> next.Prev]
      BY <2>5 DEF Numbers
    <3>2. end = [next EXCEPT !.Prev = s.Last,
                             !.Last = [Rule |-> rule, Instance |-> inst, Value |-> next.used],
                             !.Invariant = broken,
                             !.FailedAt = IF broken = "none" THEN -1 ELSE k]
      BY <2>1 DEF R!Fire, next
    <3>. HIDE DEF end, broken
    <3>3. QED
      BY <3>1, <3>2
  <2>. HIDE DEF end, broken
  <2>9. CASE next.used > roles.ResourceCapacity
    <3>1. rule = "StartGrowth" /\ next.used = s.used + 1
      BY <2>3, <2>5, <2>6, <2>9
    <3>2. s.used = roles.ResourceCapacity /\ next.used = roles.ResourceCapacity + 1
      BY <2>3, <2>6, <2>9, <3>1
    <3>3. k # 0 /\ s.Last.Value = roles.ResourceCapacity
      BY <2>3, <2>6, <3>2
    <3>4. /\ end.FailedAt = k /\ end.Invariant = "Conservation"
          /\ end.Last.Rule = "StartGrowth" /\ end.Last.Value = roles.ResourceCapacity + 1
          /\ end.Prev.Value = roles.ResourceCapacity
      BY <2>7, <2>8, <2>9, <3>1, <3>2, <3>3
    <3>5. QED
      BY <2>4, <3>1, <3>3, <3>4 DEF Replayed, end
  <2>10. CASE ~(next.used > roles.ResourceCapacity)
    <3>1. /\ end.FailedAt = -1 /\ end.used = next.used /\ end.Last.Value = next.used
      BY <2>7, <2>8, <2>10
    <3>2. Numbers(end, n)
      <4>1. /\ next.pool \in [0 .. n-1 -> Nat] /\ next.in_flight \in [0 .. n-1 -> Nat]
            /\ next.pending \in [0 .. n-1 -> Int] /\ next.used \in Int
            /\ \A j \in 0 .. n-1 : next.pool[j] + next.in_flight[j] <= roles.PoolCapacity
        BY <2>5 DEF Numbers
      <4>2. QED
        BY <2>8, <4>1, NumbersOf
    <3>3. next.used <= roles.ResourceCapacity /\ k + 1 # 0
      BY <2>6, <2>10
    <3>4. QED
      BY <3>1, <3>2, <3>3 DEF Replayed, end
  <2>11. QED
    BY <2>9, <2>10
<1>3. QED
  BY <1>1, <1>2 DEF Replayed

LEMMA ReplayedStart ==
  ASSUME roles \in RoleMaps, NEW data, NEW n \in Nat \ {0}
  PROVE  Replayed(R!Start(n), data, n, 0)
<1> DEFINE zero == [inst \in 0 .. n-1 |-> 0]
           s == R!Start(n)
<1>1. s = [pool |-> zero, in_flight |-> zero, pending |-> zero, used |-> 0, FailedAt |-> -1,
           Invariant |-> "none", Last |-> R!NoStep, Prev |-> R!NoStep]
  BY DEF R!Start
<1>2. roles.ResourceCapacity \in Nat /\ roles.PoolCapacity \in Nat
  BY PoolNumbers
<1>3. /\ zero \in [0 .. n-1 -> Nat] /\ zero \in [0 .. n-1 -> Int]
      /\ \A inst \in 0 .. n-1 : zero[inst] + zero[inst] <= roles.PoolCapacity
  BY <1>2
<1>. HIDE DEF zero, s
<1>4. Numbers(s, n)
  <2>1. Numbers([pool |-> zero, in_flight |-> zero, pending |-> zero, used |-> 0,
                 FailedAt |-> -1, Invariant |-> "none", Last |-> R!NoStep,
                 Prev |-> R!NoStep], n)
    <3>1. 0 \in Int
      OBVIOUS
    <3>2. QED
      BY <1>3, <3>1, NumbersOf, Zenon
  <2>2. QED
    BY <1>1, <2>1
<1>5. s.FailedAt = -1 /\ s.used = 0
  BY <1>1
<1>6. QED
  BY <1>2, <1>4, <1>5 DEF Replayed, s

(* So it is after every number of iterations, whatever the bytes. *)
LEMMA ReplayedAfter ==
  ASSUME roles \in RoleMaps, NEW data \in Seq(Byte), NEW n \in Nat \ {0}, NEW m \in Nat
  PROVE  \A k \in 0 .. m : Replayed(R!After(roles, data, n, m)[k], data, n, k)
<1> DEFINE f == R!After(roles, data, n, m)
           T == {k \in Nat : k <= m /\ ~Replayed(f[k], data, n, k)}
<1>1. f[0] = R!Start(n) /\ \A k \in 0 .. m - 1 : f[k + 1] = R!Iterate(roles, data, n, f[k], k)
  BY AfterStep
<1>. HIDE DEF f
<1>2. ASSUME T # {} PROVE FALSE
  <2>1. PICK k \in T : \A j \in T : k <= j
    BY <1>2, Least
  <2>2. k # 0
    BY <1>1, <2>1, ReplayedStart
  <2>3. k - 1 \in Nat /\ k - 1 \in 0 .. m - 1 /\ (k - 1) + 1 = k
    BY <2>1, <2>2
  <2>4. k - 1 \notin T
    BY <2>1, <2>3
  <2>5. Replayed(f[k - 1], data, n, k - 1)
    BY <2>3, <2>4
  <2>6. Replayed(R!Iterate(roles, data, n, f[k - 1], k - 1), data, n, k)
    <3>1. Replayed(R!Iterate(roles, data, n, f[k - 1], k - 1), data, n, (k - 1) + 1)
      BY <2>3, <2>5, ReplayedStep
    <3>2. QED
      BY <2>3, <3>1
  <2>7. f[k] = R!Iterate(roles, data, n, f[k - 1], k - 1)
    BY <1>1, <2>3
  <2>8. QED
    BY <2>1, <2>6, <2>7
<1>3. \A k \in 0 .. m : Replayed(f[k], data, n, k)
  BY <1>2
<1>4. QED
  BY <1>3 DEF f

LEMMA CountInRange ==
  ASSUME NEW r \in RoleMaps, Spread(r) # 0, NEW b \in Byte
  PROVE  InstanceCount(r, b) >= EffectiveMinInstances(r)
<1> DEFINE width == IF Spread(r) < 0 THEN -Spread(r) ELSE Spread(r)
<1>1. b \in Nat
  BY ByteRange
<1>2. width \in Nat \ {0}
  BY RoleNumbers
<1>. HIDE DEF width
<1>3. b % width \in 0 .. width-1
  BY <1>1, <1>2, Remainder
<1>4. InstanceCount(r, b) = (b % width) + EffectiveMinInstances(r)
  BY DEF InstanceCount, width
<1>5. QED
  BY <1>2, <1>3, <1>4, RoleNumbers

(* What any bytes that fail fail with.                                     *)
LEMMA FailingReplay ==
  ASSUME roles \in RoleMaps, Spread(roles) # 0, NEW data \in Seq(Byte), Len(data) >= 2,
         R!Simulate(roles, data, MaxSteps).Violated
  PROVE  LET outcome == R!Simulate(roles, data, MaxSteps)
         IN  /\ outcome.FailedAt \in Nat \ {0} /\ 2 * outcome.FailedAt + 3 < Len(data)
             /\ outcome.Invariant = "Conservation" /\ outcome.Last.Rule = "StartGrowth"
             /\ outcome.Last.Value = roles.ResourceCapacity + 1
             /\ outcome.Prev.Value = roles.ResourceCapacity
             /\ EffectiveMinInstances(roles) <= roles.MaxInstances =>
                  outcome.InstanceCount \in EffectiveMinInstances(roles) .. roles.MaxInstances
<1> DEFINE n == InstanceCount(roles, data[1])
           end == R!After(roles, data, n, MaxSteps)[MaxSteps]
           outcome == R!Simulate(roles, data, MaxSteps)
<1>1. data[1] \in Byte /\ R!ByteAt(data, 0) = data[1]
  BY DEF R!ByteAt
<1>2. /\ n \in Nat \ {0} /\ n >= EffectiveMinInstances(roles)
      /\ (EffectiveMinInstances(roles) <= roles.MaxInstances => n <= roles.MaxInstances)
  BY <1>1, DrawnCount, CountInRange
<1>3. R!InstanceCount(roles, R!ByteAt(data, 0)) = n
  BY <1>1, SameCount
<1>. HIDE DEF n
<1>4. outcome = [Violated |-> end.FailedAt >= 0, FailedAt |-> end.FailedAt,
                 Invariant |-> end.Invariant, InstanceCount |-> n, Last |-> end.Last,
                 Prev |-> end.Prev]
  BY <1>3 DEF R!Simulate
<1>5. Replayed(end, data, n, MaxSteps)
  <2>1. MaxSteps \in Nat /\ MaxSteps \in 0 .. MaxSteps
    BY MaxStepsAssumption
  <2>2. QED
    BY <1>2, <2>1, ReplayedAfter
<1>. HIDE DEF end
<1>6. end.FailedAt >= 0
  <2>1. outcome.Violated = (end.FailedAt >= 0)
    <3>1. [Violated |-> end.FailedAt >= 0, FailedAt |-> end.FailedAt,
           Invariant |-> end.Invariant, InstanceCount |-> n, Last |-> end.Last,
           Prev |-> end.Prev].Violated = (end.FailedAt >= 0)
      BY VerdictOf, Zenon
    <3>2. QED
      BY <1>4, <3>1, Zenon
  <2>2. QED
    BY <2>1
<1>7. /\ outcome.FailedAt = end.FailedAt /\ outcome.Invariant = end.Invariant
      /\ outcome.InstanceCount = n /\ outcome.Last = end.Last /\ outcome.Prev = end.Prev
  BY <1>4
<1>. HIDE DEF outcome
<1>8. /\ end.FailedAt \in Nat \ {0} /\ 2 * end.FailedAt + 3 < Len(data)
      /\ end.Invariant = "Conservation" /\ end.Last.Rule = "StartGrowth"
      /\ end.Last.Value = roles.ResourceCapacity + 1
      /\ end.Prev.Value = roles.ResourceCapacity
  <2>1. end.FailedAt # -1
    BY <1>6
  <2>2. QED
    BY <1>5, <2>1 DEF Replayed
<1>9. EffectiveMinInstances(roles) <= roles.MaxInstances =>
        n \in EffectiveMinInstances(roles) .. roles.MaxInstances
  BY <1>2, RoleNumbers
<1>10. QED
  BY <1>7, <1>8, <1>9 DEF outcome

(* A failure is reported at the end of the search, and stands.             *)
ReportInv ==
  /\ report.Result = "fail" => phase = "done"
  /\ ReportHangsTogether

(* The report is made from the replay of bytes that fail. *)
LEMMA ReportedFailure ==
  ASSUME IInv, RecordInv, ShrinkInv, ReportFailure
  PROVE  ReportInv'
<1> DEFINE outcome == R!Simulate(roles, best, MaxSteps)
<1>1. /\ phase = "done" /\ UNCHANGED <<roles, iter, best, phase>>
      /\ report' = IF outcome.Violated
                   THEN [Result |-> "fail", ViolatedInvariant |-> invariant,
                         MinimalFailure |-> outcome.FailedAt + 1,
                         Instances |-> outcome.InstanceCount,
                         Trigger |-> TriggerOf(outcome)]
                   ELSE [Result |-> "fail", ViolatedInvariant |-> invariant]
  BY DEF ReportFailure, recordedVars, shrinkVars
<1>2. /\ status = "violated" /\ outcome.Violated /\ best \in Seq(Byte) /\ Len(best) >= 2
      /\ Len(best) <= Len(drawn)
  BY <1>1 DEF ShrinkInv, Kept
<1>3. /\ Len(drawn) = 2 + 2 * iter /\ iter \in Nat /\ Spread(roles) # 0 /\ roles \in RoleMaps
      /\ invariant = "Conservation"
  BY <1>2 DEF RecordInv, IInv, TypeOK, Reported, TriggerExact
<1>4. /\ outcome.FailedAt \in Nat \ {0} /\ 2 * outcome.FailedAt + 3 < Len(best)
      /\ outcome.Invariant = "Conservation" /\ outcome.Last.Rule = "StartGrowth"
      /\ outcome.Last.Value = roles.ResourceCapacity + 1
      /\ outcome.Prev.Value = roles.ResourceCapacity
      /\ EffectiveMinInstances(roles) <= roles.MaxInstances =>
           outcome.InstanceCount \in EffectiveMinInstances(roles) .. roles.MaxInstances
  BY <1>2, <1>3, FailingReplay
<1>5. R!Simulate(roles, best, MaxSteps)' = outcome
  <2>1. MaxSteps' = MaxSteps
    OBVIOUS
  <2>2. QED
    BY <1>1, Zenon
<1>. HIDE DEF outcome
<1>6. outcome.FailedAt + 1 <= iter
  <2>1. Len(best) \in Nat
    BY <1>2
  <2>2. QED
    BY <1>2, <1>3, <1>4, <2>1
<1>7. TriggerOf(outcome) =
        [Rule |-> "StartGrowth", Limit |-> roles.ResourceCapacity,
         ValueBefore |-> roles.ResourceCapacity, ValueAfter |-> roles.ResourceCapacity + 1]
  BY <1>4 DEF TriggerOf
<1>8. report' = [Result |-> "fail", ViolatedInvariant |-> "Conservation",
                 MinimalFailure |-> outcome.FailedAt + 1,
                 Instances |-> outcome.InstanceCount,
                 Trigger |-> TriggerOf(outcome)]
  BY <1>1, <1>2, <1>3
<1>9. /\ report'.ViolatedInvariant = outcome.Invariant
      /\ report'.MinimalFailure = outcome.FailedAt + 1
      /\ report'.Instances = outcome.InstanceCount
      /\ report'.Trigger = TriggerOf(outcome)
  BY <1>4, <1>8
<1>10. ReportHangsTogether'
  BY <1>1, <1>4, <1>5, <1>6, <1>7, <1>9 DEF ReportHangsTogether, EffectiveMinInstances
<1>11. QED
  BY <1>1, <1>10 DEF ReportInv

LEMMA ReportedInit == ReportInit => ReportInv
BY DEF ReportInit, NoReport, ReportInv, ReportHangsTogether

LEMMA ReportedNext ==
  IInv /\ RecordInv /\ ShrinkInv /\ ReportInv /\ [ReportNext]_reportVars => ReportInv'
<1>1. SUFFICES ASSUME IInv, RecordInv, ShrinkInv, ReportInv, [ReportNext]_reportVars
      PROVE  ReportInv'
  OBVIOUS
<1>2. CASE ReportFailure
  BY <1>1, <1>2, ReportedFailure
<1>3. CASE ReportPass
  BY <1>3 DEF ReportPass, ReportInv, ReportHangsTogether
<1>4. CASE ~ReportFailure /\ ~ReportPass
  <2>1. CASE report.Result = "fail"
    <3>1. phase = "done" /\ status = "violated"
      BY <1>1, <2>1 DEF ReportInv, ShrinkInv
    <3>2. UNCHANGED <<roles, iter, best, phase, report>>
      <4>1. ~Simulation
        BY <3>1 DEF Simulation, RecordNext, DrawPrefix, InitState, DrawInstanceCount, Panic,
           DivideByZero, DrawStep
      <4>2. ~CallShrink /\ ~Shrinking
        BY <3>1 DEF CallShrink, S!Shrink, Shrinking, S!Search, S!BeginPass, S!DeleteChunk,
           S!HalveChunk, S!EndDeletes, S!ZeroChunk, S!EndZeros, S!ReduceByte, S!NextByte,
           S!EndPass
      <4>3. UNCHANGED reportVars
        BY <1>1, <1>4, <4>1, <4>2 DEF ReportNext, ReportFinished
      <4>4. QED
        BY <4>3 DEF reportVars
    <3>3. R!Simulate(roles, best, MaxSteps)' = R!Simulate(roles, best, MaxSteps)
      BY <3>2, Zenon
    <3>4. QED
      BY <1>1, <3>2, <3>3 DEF ReportInv, ReportHangsTogether, EffectiveMinInstances
  <2>2. CASE report.Result # "fail"
    <3>1. UNCHANGED report
      BY <1>1, <1>4 DEF ReportNext, ReportFinished, reportVars, Simulation, CallShrink, Shrinking
    <3>2. QED
      BY <2>2, <3>1 DEF ReportInv, ReportHangsTogether
  <2>3. QED
    BY <2>1, <2>2
<1>5. QED
  BY <1>2, <1>3, <1>4

(* verifyMachine's report, for any role maps, bytes, number of steps and   *)
(* budget of the shrinker: the invariant of the simulation, the trigger    *)
(* and the size of the replay, and the instances, belong to one failure.   *)
THEOREM ReportIsOfOneFailure == ReportSpec => []ReportHangsTogether
<1>1. ReportInv => ReportHangsTogether
  BY DEF ReportInv
<1>2. QED
  BY <1>1, RunInit, RunNext, ShrinkInit, ShrinkNext, ReportedInit, ReportedNext, PTL
     DEF ReportSpec
=============================================================================
