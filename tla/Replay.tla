------------------------------- MODULE Replay -------------------------------
(***************************************************************************)
(* Simulate as a function of its bytestream: internal/verify/simulator.go  *)
(* on a stream made by FromBytes (internal/verify/bytestream.go), for the  *)
(* finite_pooled_resource machine.  This is what the shrinker and the      *)
(* final replay of verifyMachine evaluate.  A run that goes past the end   *)
(* of the recorded bytes draws zeros.                                      *)
(***************************************************************************)
EXTENDS RoleMap, Sequences

StepWidth == 2

(* Mutant: the byte that pads the prefix is taken for a step's. *)
UnpaddedPrefix == 1

PrefixWidth == StepWidth

(* DrawByte on a replayed stream, k counted from zero. *)
ByteAt(data, k) == IF k < Len(data) THEN data[k + 1] ELSE 0

PooledCanFire(r, s, rule, i) ==
  CASE rule = "RequestArrives" -> TRUE
    [] rule = "StartGrowth" -> s.pending[i] > 0 /\ s.pool[i] + s.in_flight[i] < r.PoolCapacity
    [] rule = "GrowComplete" -> s.in_flight[i] > 0
    [] rule = "RequestCompletes" -> s.pool[i] > 0

Listed(r, s, rule, i) == IF PooledCanFire(r, s, rule, i) THEN <<rule>> ELSE << >>

(* The rules that can fire, in the order of the machine. *)
PooledFireable(r, s, i) ==
  Listed(r, s, "RequestArrives", i) \o Listed(r, s, "StartGrowth", i)
    \o Listed(r, s, "GrowComplete", i) \o Listed(r, s, "RequestCompletes", i)

PooledApply(s, rule, i) ==
  CASE rule = "RequestArrives" -> [s EXCEPT !.pending[i] = @ + 1]
    [] rule = "StartGrowth" -> [s EXCEPT !.pending[i] = @ - 1, !.in_flight[i] = @ + 1,
                                         !.used = @ + 1]
    [] rule = "GrowComplete" -> [s EXCEPT !.in_flight[i] = @ - 1, !.pool[i] = @ + 1]
    [] rule = "RequestCompletes" -> [s EXCEPT !.pool[i] = @ - 1, !.used = @ - 1]

(* The first invariant a state breaks. *)
PooledBroken(r, s) ==
  IF s.used > r.ResourceCapacity THEN "Conservation"
  ELSE IF \E i \in DOMAIN s.pool : s.pool[i] + s.in_flight[i] > r.PoolCapacity
       THEN "PoolBounded"
  ELSE "none"

NoStep == [Rule |-> "none"]

(* The two draws of an iteration: an instance, and one of its rules. *)
DrawnInstance(data, n, k) == ByteAt(data, PrefixWidth + StepWidth * k) % n

DrawnRule(r, data, s, i, k) ==
  LET fireable == PooledFireable(r, s, i)
      b1 == ByteAt(data, PrefixWidth + StepWidth * k + 1)
  IN  fireable[(b1 % Len(fireable)) + 1]

(* The rule applied, recorded and checked. *)
Fire(r, s, rule, i, k) ==
  LET next == PooledApply(s, rule, i)
      broken == PooledBroken(r, next)
  IN  [next EXCEPT !.Prev = s.Last,
                   !.Last = [Rule |-> rule, Instance |-> i, Value |-> next.used],
                   !.Invariant = broken,
                   !.FailedAt = IF broken = "none" THEN -1 ELSE k]

(* One iteration of the loop; after the violation nothing is done. *)
Iterate(r, data, n, s, k) ==
  IF s.FailedAt >= 0 THEN s
  ELSE LET i == DrawnInstance(data, n, k)
       IN  Fire(r, s, DrawnRule(r, data, s, i, k), i, k)

Start(n) ==
  LET zero == [i \in 0 .. n-1 |-> 0]
  IN  [pool |-> zero, in_flight |-> zero, pending |-> zero, used |-> 0,
       FailedAt |-> -1, Invariant |-> "none", Last |-> NoStep, Prev |-> NoStep]

(* The state after each number of iterations. *)
After(r, data, n, maxSteps) ==
  LET after[k \in 0 .. maxSteps] ==
        IF k = 0 THEN Start(n) ELSE Iterate(r, data, n, after[k - 1], k - 1)
  IN  after

(* The outcome of the run; defined where Spread(r) # 0.  Of the recorded   *)
(* steps the last two are kept.                                            *)
Simulate(r, data, maxSteps) ==
  LET n == InstanceCount(r, ByteAt(data, 0))
      end == After(r, data, n, maxSteps)[maxSteps]
  IN  [Violated |-> end.FailedAt >= 0, FailedAt |-> end.FailedAt,
       Invariant |-> end.Invariant, InstanceCount |-> n, Last |-> end.Last, Prev |-> end.Prev]
=============================================================================
