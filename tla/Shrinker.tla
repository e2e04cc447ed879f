------------------------------ MODULE Shrinker ------------------------------
(***************************************************************************)
(* Shrink of internal/verify/shrinker.go: three phases repeated over the   *)
(* bytes of a failing run, each trying candidates by replaying them and    *)
(* keeping those that still fail.  One action is one candidate tried or    *)
(* one advance of a loop; the program is sequential.                       *)
(***************************************************************************)
EXTENDS Integers, Sequences

CONSTANTS
  MaxSteps,       \* SimulationConfig.MaxSteps
  MaxAttempts     \* ShrinkConfig.MaxAttempts, after its default

R == INSTANCE Replay

StepWidth == R!StepWidth
PrefixWidth == R!PrefixWidth

VARIABLES
  roles,        \* those of the machine whose failure is shrunk; not written here
  best,         \* the failing bytes kept so far
  bestSteps,    \* FailedAt + 1 of their run
  attempts,     \* candidates tried
  phase,        \* "idle", "pass", "delete", "zero", "reduce" or "done"
  chunkSize, start,   \* the two loops of the first two phases
  i, lo, hi,    \* the byte reduced and the interval of its binary search
  prevLen, prevSteps  \* the best of the last pass

loopVars == <<chunkSize, start, i, lo, hi>>
vars == <<best, bestSteps, attempts, phase, chunkSize, start, i, lo, hi,
          prevLen, prevSteps>>

tryCandidate(data) == R!Simulate(roles, data, MaxSteps)

alignDown(n) == (n \div StepWidth) * StepWidth

(* start counts bytes from zero: the bytes before it, and those after.     *)
deleteChunk(data, from, length) ==
  SubSeq(data, 1, from) \o SubSeq(data, from + length + 1, Len(data))

zeroChunk(data, from, length) ==
  [k \in DOMAIN data |-> IF k \in from + 1 .. from + length THEN 0 ELSE data[k]]

(* Before Shrink is called. *)
Init ==
  /\ best = << >>
  /\ bestSteps = 0
  /\ attempts = 0
  /\ phase = "idle"
  /\ chunkSize = 0 /\ start = 0
  /\ i = 0 /\ lo = 0 /\ hi = 0
  /\ prevLen = 0 /\ prevSteps = 0

(* Shrink is called with the bytes of a failing run. *)
Shrink(original) ==
  /\ phase = "idle"
  /\ phase' = "pass"
  /\ best' = original
  /\ bestSteps' = tryCandidate(original).FailedAt + 1
  /\ UNCHANGED <<attempts, loopVars, prevLen, prevSteps>>

(* Mutant: every candidate is kept. *)
KeepAny(candidate) ==
  /\ attempts' = attempts + 1
  /\ best' = candidate
  /\ bestSteps' = tryCandidate(candidate).FailedAt + 1

(* Mutant: a candidate that is kept costs nothing. *)
KeepForFree(candidate) ==
  LET outcome == tryCandidate(candidate)
  IN  IF outcome.Violated
      THEN /\ best' = candidate /\ bestSteps' = outcome.FailedAt + 1
           /\ UNCHANGED attempts
      ELSE attempts' = attempts + 1 /\ UNCHANGED <<best, bestSteps>>

(* A candidate is tried and replaces the best when its run still fails. *)
Keep(candidate) ==
  LET outcome == tryCandidate(candidate)
  IN  /\ attempts' = attempts + 1
      /\ IF outcome.Violated
         THEN best' = candidate /\ bestSteps' = outcome.FailedAt + 1
         ELSE UNCHANGED <<best, bestSteps>>

Spent == attempts >= MaxAttempts

(* The head of the outer loop, and the entry into the first phase. *)
BeginPass ==
  /\ phase = "pass"
  /\ IF Spent
     THEN phase' = "done" /\ UNCHANGED <<prevLen, prevSteps, chunkSize, start>>
     ELSE /\ prevLen' = Len(best)
          /\ prevSteps' = bestSteps
          /\ phase' = "delete"
          /\ chunkSize' = alignDown(Len(best) \div 2)
          /\ start' = PrefixWidth
  /\ UNCHANGED <<best, bestSteps, attempts, i, lo, hi>>

(* The conditions of the two nested loops over chunks. *)
ChunksLeft == chunkSize >= StepWidth /\ ~Spent
StartsLeft == start + chunkSize <= Len(best) /\ ~Spent

DeleteChunk ==
  /\ phase = "delete" /\ ChunksLeft /\ StartsLeft
  /\ Keep(deleteChunk(best, start, chunkSize))
  /\ start' = start + StepWidth
  /\ UNCHANGED <<phase, chunkSize, i, lo, hi, prevLen, prevSteps>>

ZeroChunk ==
  /\ phase = "zero" /\ ChunksLeft /\ StartsLeft
  /\ Keep(zeroChunk(best, start, chunkSize))
  /\ start' = start + StepWidth
  /\ UNCHANGED <<phase, chunkSize, i, lo, hi, prevLen, prevSteps>>

(* No start is left for this chunk size: half of it. *)
HalveChunk ==
  /\ phase \in {"delete", "zero"} /\ ChunksLeft /\ ~StartsLeft
  /\ chunkSize' = alignDown(chunkSize \div 2)
  /\ start' = PrefixWidth
  /\ UNCHANGED <<best, bestSteps, attempts, phase, i, lo, hi, prevLen, prevSteps>>

(* No chunk size is left: the next phase. *)
EndDeletes ==
  /\ phase = "delete" /\ ~ChunksLeft
  /\ phase' = "zero"
  /\ chunkSize' = alignDown(Len(best) \div 2)
  /\ start' = PrefixWidth
  /\ UNCHANGED <<best, bestSteps, attempts, i, lo, hi, prevLen, prevSteps>>

(* The byte the third phase looks at, and its search from zero. *)
SearchByte(k) ==
  /\ i' = k
  /\ lo' = 0
  /\ hi' = IF k < Len(best) THEN best[k + 1] ELSE 0

EndZeros ==
  /\ phase = "zero" /\ ~ChunksLeft
  /\ phase' = "reduce"
  /\ SearchByte(0)
  /\ UNCHANGED <<best, bestSteps, attempts, chunkSize, start, prevLen, prevSteps>>

BytesLeft == i < Len(best) /\ ~Spent

(* One probe of the binary search; failures above mid move it up. *)
ReduceByte ==
  /\ phase = "reduce" /\ BytesLeft /\ lo < hi
  /\ LET mid == lo + (hi - lo) \div 2
         candidate == [best EXCEPT ![i + 1] = mid]
     IN  /\ Keep(candidate)
         /\ IF tryCandidate(candidate).Violated
            THEN hi' = mid /\ UNCHANGED lo
            ELSE lo' = mid + 1 /\ UNCHANGED hi
  /\ UNCHANGED <<phase, chunkSize, start, i, prevLen, prevSteps>>

(* A byte that is zero, or whose search is over: the next one. *)
NextByte ==
  /\ phase = "reduce" /\ BytesLeft /\ ~(lo < hi)
  /\ SearchByte(i + 1)
  /\ UNCHANGED <<best, bestSteps, attempts, phase, chunkSize, start, prevLen, prevSteps>>

(* The test at the end of a pass compares length and steps only. *)
Converged == Len(best) = prevLen /\ bestSteps = prevSteps

EndPass ==
  /\ phase = "reduce" /\ ~BytesLeft
  /\ phase' = IF Converged THEN "done" ELSE "pass"
  /\ UNCHANGED <<best, bestSteps, attempts, loopVars, prevLen, prevSteps>>

Search ==
  \/ BeginPass
  \/ DeleteChunk \/ HalveChunk \/ EndDeletes
  \/ ZeroChunk \/ EndZeros
  \/ ReduceByte \/ NextByte \/ EndPass

-----------------------------------------------------------------------------
(* The bytes at hand fail at every moment, however the search is cut short *)
(* by its budget, and the number of steps reported for them is that of     *)
(* their own run: verifyMachine's replay of the result finds the failure   *)
(* it describes, and its `if replayOutcome.Violated` never is false.  No   *)
(* operation loses its place in the stream: the prefix is whole and the    *)
(* rest is whole steps.                                                    *)
BestFails ==
  phase # "idle" =>
    LET outcome == tryCandidate(best)
    IN  /\ outcome.Violated /\ bestSteps = outcome.FailedAt + 1
        /\ Len(best) >= PrefixWidth /\ Len(best) % StepWidth = 0

(* A step never makes the bytes longer, nor larger at the same length.     *)
NoLarger ==
  \/ Len(best') < Len(best)
  \/ Len(best') = Len(best) /\ \A k \in DOMAIN best : best'[k] <= best[k]

(* What is left to do, most significant first: attempts; whether this pass *)
(* changed anything; phases; chunk sizes or bytes.                         *)
Variant ==
  <<MaxAttempts - attempts,
    IF phase # "pass" /\ Converged THEN 0 ELSE 1,
    CASE phase = "delete" -> 4 [] phase = "zero" -> 3 [] phase = "reduce" -> 2
      [] phase = "pass" -> 1 [] phase = "done" -> 0,
    IF phase = "reduce" THEN Len(best) - i ELSE chunkSize>>

Precedes(a, b) ==
  \E k \in DOMAIN a : a[k] < b[k] /\ \A j \in 1 .. k-1 : a[j] = b[j]

(* The search ends, wherever in its three nested loops the budget runs     *)
(* out: every step goes down in an order without infinite descents, never  *)
(* past the budget, and the bytes it keeps never grow.                     *)
StepsDown ==
  phase # "idle" =>
    /\ NoLarger
    /\ Precedes(Variant', Variant) /\ \A k \in 1 .. 4 : Variant[k] >= 0
=============================================================================
