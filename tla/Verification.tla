---------------------------- MODULE Verification ----------------------------
(***************************************************************************)
(* verifyMachine of internal/verify/verify.go with the sequential          *)
(* probability ratio test of internal/verify/sprt.go: simulations are run  *)
(* until the test decides or the budget of simulations is spent, then the  *)
(* verdict is made from the failures seen.                                 *)
(*                                                                         *)
(* The logarithms of NewSPRT are constants here, fixed-point integers: the *)
(* code computes them once from the target failure rate and the confidence.*)
(* What a simulation returns is any outcome; the last decision Update      *)
(* returned is a variable of the loop.                                     *)
(***************************************************************************)
EXTENDS Integers

CONSTANTS
  LnFail,       \* log(p1 / p0), added for a failing simulation
  LnPass,       \* log((1 - p1) / (1 - p0)), added for a passing one
  LnA,          \* upper threshold: reject H0 (safe)
  LnB,          \* lower threshold: accept H0
  MaxSimulations,   \* VerifyConfig.MaxSimulations, after its default
  Invariants    \* the invariants a simulation can report violated

ASSUME EvidenceAssumption == {LnFail, LnPass, LnA, LnB} \subseteq Int
ASSUME MaxSimulationsAssumption == MaxSimulations \in Nat \ {0}
ASSUME InvariantsAssumption == "none" \notin Invariants

VARIABLES
  simulations, failures, lnLR,   \* the fields of the SPRT
  decision,       \* what the last Update returned
  failing,        \* failedInvariant, kept with failingBytes; "none" before
  verification    \* the record verifyMachine returns, NoVerdict before

NoVerdict == [Result |-> "none"]

vars == <<simulations, failures, lnLR, decision, failing, verification>>

Init ==
  /\ simulations = 0
  /\ failures = 0
  /\ lnLR = 0
  /\ decision = "Continue"
  /\ failing = "none"
  /\ verification = NoVerdict

(* The rejection threshold is compared first. *)
Decide(x) ==
  IF x >= LnA THEN "Reject"
  ELSE IF x <= LnB THEN "Accept"
  ELSE "Continue"

(* Mutant: a passing simulation is no evidence. *)
UpdateFailuresOnly(violated) ==
  /\ simulations' = simulations + 1
  /\ failures' = IF violated THEN failures + 1 ELSE failures
  /\ lnLR' = lnLR + (IF violated THEN LnFail ELSE 0)
  /\ decision' = Decide(lnLR')

Update(violated) ==
  /\ simulations' = simulations + 1
  /\ failures' = IF violated THEN failures + 1 ELSE failures
  /\ lnLR' = lnLR + (IF violated THEN LnFail ELSE LnPass)
  /\ decision' = Decide(lnLR')

(* Mutant: only an acceptance ends the loop early. *)
InLoopUntilAccept ==
  /\ verification = NoVerdict
  /\ simulations < MaxSimulations
  /\ decision # "Accept"

InLoop ==
  /\ verification = NoVerdict
  /\ simulations < MaxSimulations
  /\ decision = "Continue"

SimulationPasses ==
  /\ InLoop
  /\ Update(FALSE)
  /\ UNCHANGED <<failing, verification>>

(* Mutant: the test for the first failure is the wrong way round. *)
SimulationFailsUnkept(inv) ==
  /\ InLoop
  /\ Update(TRUE)
  /\ failing' = IF failing = "none" THEN failing ELSE inv
  /\ UNCHANGED verification

(* The bytes and the invariant of the first failure are kept. *)
SimulationFails(inv) ==
  /\ InLoop
  /\ Update(TRUE)
  /\ failing' = IF failing = "none" THEN inv ELSE failing
  /\ UNCHANGED verification

(* Mutant: only a rejection makes the verdict "fail". *)
ConcludeFromDecision ==
  /\ verification = NoVerdict
  /\ ~InLoop
  /\ verification' =
       [Result |-> IF decision = "Reject" THEN "fail" ELSE "pass",
        ViolatedInvariant |-> IF decision = "Reject" THEN failing ELSE "none",
        Simulations |-> simulations,
        Failures |-> failures]
  /\ UNCHANGED <<simulations, failures, lnLR, decision, failing>>

(* The loop is over: any failure at all makes the verdict "fail". *)
Conclude ==
  /\ verification = NoVerdict
  /\ ~InLoop
  /\ verification' =
       [Result |-> IF failures > 0 /\ failing # "none" THEN "fail" ELSE "pass",
        ViolatedInvariant |-> IF failures > 0 THEN failing ELSE "none",
        Simulations |-> simulations,
        Failures |-> failures]
  /\ UNCHANGED <<simulations, failures, lnLR, decision, failing>>

Finished == verification # NoVerdict /\ UNCHANGED vars

Next ==
  \/ SimulationPasses
  \/ \E inv \in Invariants : SimulationFails(inv)
  \/ Conclude
  \/ Finished

Spec == Init /\ [][Next]_vars

-----------------------------------------------------------------------------
(* The budget is never exceeded, and what is kept of the failures is an    *)
(* invariant that failed, or nothing.                                      *)
TypeOK ==
  /\ simulations \in 0 .. MaxSimulations
  /\ failures \in 0 .. simulations
  /\ lnLR \in Int
  /\ decision \in {"Continue", "Accept", "Reject"}
  /\ failing \in Invariants \cup {"none"}

Concluded == verification # NoVerdict

(* The evidence is the one the outcomes give, in any order of them.        *)
EvidenceExact == lnLR = failures * LnFail + (simulations - failures) * LnPass

(* The loop stops at the first simulation that decides: less evidence than *)
(* one simulation ago would not have decided, and without a decision the   *)
(* evidence is strictly between the thresholds.                            *)
StopsAtFirstCrossing ==
  /\ decision = "Continue" => LnB < lnLR /\ lnLR < LnA
  /\ decision = "Reject" => lnLR - LnFail < LnA
  /\ decision = "Accept" => lnLR - LnPass > LnB

(* What a "pass" claims on the console, the confidence that the failure    *)
(* rate is below the target: the test accepted, and no simulation failed.  *)
(* It holds at the default flags only because the budget of simulations is *)
(* larger than the number of clean ones that decide.                       *)
PassMeansAccepted ==
  Concluded /\ verification.Result = "pass" =>
    decision = "Accept" /\ verification.Failures = 0

(* A rejection by the test is never reported as a pass, and a "fail" comes *)
(* with the invariant of a failing simulation.                             *)
FailHasWitness ==
  Concluded =>
    /\ decision = "Reject" => verification.Result = "fail"
    /\ verification.Result = "fail" <=> verification.ViolatedInvariant \in Invariants

-----------------------------------------------------------------------------
(* The inductive invariant of the proofs in VerificationProofs. *)

(* The thresholds and the evidence have the signs that a target rate below *)
(* 1/2 and a confidence above 1/2 give them.  The flags are not validated. *)
Ordered == LnB < 0 /\ 0 < LnA /\ LnPass <= 0 /\ 0 <= LnFail

(* Clean simulations alone decide within the budget. *)
BudgetDecides == MaxSimulations * LnPass <= LnB

Kept == failures > 0 <=> failing # "none"

(* The verdict was made from what is still there, when the loop was over. *)
Verdict ==
  Concluded =>
    /\ simulations < MaxSimulations => decision # "Continue"
    /\ verification =
         [Result |-> IF failures > 0 THEN "fail" ELSE "pass",
          ViolatedInvariant |-> failing,
          Simulations |-> simulations,
          Failures |-> failures]

IInv == TypeOK /\ EvidenceExact /\ Kept /\ Verdict

(* With thresholds in order, the decision is that of the present evidence. *)
Decided == decision = Decide(lnLR)

OrderedInv == IInv /\ Decided /\ StopsAtFirstCrossing
=============================================================================
