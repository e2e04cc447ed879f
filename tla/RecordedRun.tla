----------------------------- MODULE RecordedRun -----------------------------
(***************************************************************************)
(* A simulation together with the bytes it has drawn: Bytestream records   *)
(* every byte DrawByte returns, and Bytes() is what a failing run leaves   *)
(* to the shrinker.  The run is FinitePooled's; the recording is added.    *)
(***************************************************************************)
EXTENDS FinitePooled

CONSTANTS
  PrefixBytes,  \* the pairs of bytes the prefix may draw
  StepBytes     \* those a step may draw

ASSUME PrefixBytesAssumption == PrefixBytes \subseteq Byte \X Byte
ASSUME StepBytesAssumption == StepBytes \subseteq Byte \X Byte

VARIABLE drawn    \* Bytestream.drawn

R == INSTANCE Replay

recordedVars == <<roles, status, invariant, count, used, iter, lastStep, prevStep,
                  pool, in_flight, pending, drawn>>

RecordInit == Init /\ drawn = << >>

(* The prefix: the byte of the instance count and the padding byte, whose  *)
(* value nothing reads.                                                    *)
DrawPrefix ==
  /\ InitState
  /\ \E b \in PrefixBytes :
       /\ count' = InstanceCount(roles, b[1])
       /\ drawn' = b

DrawStep ==
  \E b \in StepBytes :
    /\ status = "running"
    /\ Step(b[1] % count)
    /\ lastStep'.Rule = LET fireable == Fireable(b[1] % count)
                        IN  fireable[(b[2] % Len(fireable)) + 1]
    /\ drawn' = drawn \o b

RecordNext ==
  \/ DrawPrefix
  \/ Panic /\ UNCHANGED drawn
  \/ DrawStep

-----------------------------------------------------------------------------
(* docs/spec.md, section 8.5: "A simulation can be replayed exactly by     *)
(* replaying its bytestream."  The recorded bytes of a run that is over,   *)
(* fed to Simulate, give the verdict, the failing step, the last steps of  *)
(* the trace and the number of instances the run had.                      *)
ReplayIsExact ==
  status \in {"passed", "violated"} =>
    R!Simulate(roles, drawn, MaxSteps) =
      [Violated |-> status = "violated",
       FailedAt |-> IF status = "violated" THEN iter - 1 ELSE -1,
       Invariant |-> invariant,
       InstanceCount |-> count,
       Last |-> lastStep,
       Prev |-> prevStep]
=============================================================================
