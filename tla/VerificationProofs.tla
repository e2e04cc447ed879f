------------------------- MODULE VerificationProofs -------------------------
(* Proofs about Verification, for every budget, every set of invariants and *)
(* every evidence; where a theorem needs signs or sizes of the numbers that *)
(* NewSPRT computes from the flags, they are its hypotheses.                *)
EXTENDS Verification, TLAPS

USE EvidenceAssumption, MaxSimulationsAssumption, InvariantsAssumption

LEMMA OneMore ==
  ASSUME NEW n \in Int, NEW x \in Int
  PROVE  (n + 1) * x = n * x + x
  OBVIOUS

LEMMA InitInv == Init => IInv
  BY DEF Init, IInv, TypeOK, EvidenceExact, Kept, Verdict, Concluded

LEMMA PassesInv ==
  ASSUME IInv, SimulationPasses
  PROVE  IInv'
  <1>. USE DEF SimulationPasses, InLoop, Update, IInv, TypeOK
  <1>1. TypeOK'
    BY DEF Decide
  <1>2. EvidenceExact'
    <2>1. simulations' - failures' = simulations - failures + 1 /\ failures' = failures
      OBVIOUS
    <2>2. (simulations - failures + 1) * LnPass
            = (simulations - failures) * LnPass + LnPass
      BY OneMore
    <2>. QED  BY <2>1, <2>2 DEF EvidenceExact
  <1>3. Kept' /\ Verdict'
    BY DEF Kept, Verdict, Concluded
  <1>. QED  BY <1>1, <1>2, <1>3

LEMMA FailsInv ==
  ASSUME IInv, NEW inv \in Invariants, SimulationFails(inv)
  PROVE  IInv'
  <1>. USE DEF SimulationFails, InLoop, Update, IInv, TypeOK
  <1>1. TypeOK'
    BY DEF Decide
  <1>2. EvidenceExact'
    <2>1. simulations' - failures' = simulations - failures /\ failures' = failures + 1
      OBVIOUS
    <2>2. (failures + 1) * LnFail = failures * LnFail + LnFail
      BY OneMore
    <2>. QED  BY <2>1, <2>2 DEF EvidenceExact
  <1>3. Kept' /\ Verdict'
    BY DEF Kept, Verdict, Concluded
  <1>. QED  BY <1>1, <1>2, <1>3

LEMMA ConcludeInv ==
  ASSUME IInv, Conclude
  PROVE  IInv'
  <1>. USE DEF Conclude, IInv
  <1>1. TypeOK' /\ EvidenceExact' /\ Kept'
    BY DEF TypeOK, EvidenceExact, Kept
  <1>2. Verdict'
    BY DEF Verdict, Kept, InLoop, TypeOK
  <1>. QED  BY <1>1, <1>2

LEMMA StutterInv ==
  ASSUME IInv, UNCHANGED vars
  PROVE  IInv'
  BY DEF vars, IInv, TypeOK, EvidenceExact, Kept, Verdict, Concluded

LEMMA NextInv == IInv /\ [Next]_vars => IInv'
  BY PassesInv, FailsInv, ConcludeInv, StutterInv DEF Next, Finished

(* The budget bounds the simulations and the failures never outnumber      *)
(* them.                                                                   *)
THEOREM Inductive == Spec => []IInv
  BY InitInv, NextInv, PTL DEF Spec

THEOREM TypeCorrect == Spec => []TypeOK
  <1>1. IInv => TypeOK
    BY DEF IInv
  <1>. QED  BY <1>1, Inductive, PTL

(* SPRT.Update: the evidence depends on how many simulations passed and    *)
(* failed and not on their order.                                          *)
THEOREM EvidenceHolds == Spec => []EvidenceExact
  <1>1. IInv => EvidenceExact
    BY DEF IInv
  <1>. QED  BY <1>1, Inductive, PTL

-----------------------------------------------------------------------------
(* With thresholds in order. *)

LEMMA OrderedInit == Ordered /\ Init => OrderedInv
  BY InitInv DEF Ordered, Init, OrderedInv, Decided, Decide, StopsAtFirstCrossing

LEMMA OrderedNext == Ordered /\ OrderedInv /\ [Next]_vars => OrderedInv'
  <1>. SUFFICES ASSUME Ordered, OrderedInv, [Next]_vars
                PROVE  OrderedInv'
    OBVIOUS
  <1>. USE DEF OrderedInv, Decided, StopsAtFirstCrossing
  <1>1. IInv'
    BY NextInv
  <1>2. lnLR \in Int
    BY DEF IInv, TypeOK
  <1>3. CASE SimulationPasses
    BY <1>1, <1>2, <1>3 DEF SimulationPasses, InLoop, Update, Decide, Ordered
  <1>4. CASE \E inv \in Invariants : SimulationFails(inv)
    BY <1>1, <1>2, <1>4 DEF SimulationFails, InLoop, Update, Decide, Ordered
  <1>5. CASE Conclude \/ Finished \/ UNCHANGED vars
    <2>1. UNCHANGED <<lnLR, decision>>
      BY <1>5 DEF Conclude, Finished, vars
    <2>. QED  BY <1>1, <2>1 DEF Decide
  <1>. QED  BY <1>3, <1>4, <1>5 DEF Next

(* The loop of verifyMachine stops at the first simulation after which the *)
(* test decides, and not before, for every failure rate below 1/2 and      *)
(* every confidence above 1/2.                                             *)
THEOREM StopsWhenDecided ==
  ASSUME Ordered
  PROVE  Spec => []StopsAtFirstCrossing
  <1>1. OrderedInv => StopsAtFirstCrossing
    BY DEF OrderedInv
  <1>. QED  BY <1>1, OrderedInit, OrderedNext, PTL DEF Spec

(* Evidence of clean simulations only is never positive. *)
LEMMA CleanEvidence ==
  ASSUME Ordered, IInv, failures = 0
  PROVE  lnLR = simulations * LnPass /\ lnLR <= 0
  <1>1. lnLR = 0 * LnFail + (simulations - 0) * LnPass
    BY DEF IInv, EvidenceExact
  <1>2. simulations \in Nat
    BY DEF IInv, TypeOK
  <1>3. lnLR = simulations * LnPass
    BY <1>1, <1>2
  <1>4. simulations * LnPass <= 0
    BY <1>2 DEF Ordered
  <1>. QED  BY <1>3, <1>4

(* A rejection by the test is never a "pass", and a "fail" names the       *)
(* invariant of a failing simulation.                                      *)
THEOREM FailIsWitnessed ==
  ASSUME Ordered
  PROVE  Spec => []FailHasWitness
  <1>1. OrderedInv => FailHasWitness
    <2>. SUFFICES ASSUME OrderedInv, Concluded
                  PROVE  /\ decision = "Reject" => verification.Result = "fail"
                         /\ verification.Result = "fail" <=>
                              verification.ViolatedInvariant \in Invariants
      BY DEF FailHasWitness
    <2>. USE DEF OrderedInv
    <2>1. failures \in Nat /\ failing \in Invariants \cup {"none"}
      BY DEF IInv, TypeOK
    <2>2. /\ verification.Result = IF failures > 0 THEN "fail" ELSE "pass"
          /\ verification.ViolatedInvariant = failing
      BY DEF IInv, Verdict
    <2>3. decision = "Reject" => failures > 0
      <3>. SUFFICES ASSUME decision = "Reject", failures = 0 PROVE FALSE
        BY <2>1
      <3>1. lnLR <= 0
        BY CleanEvidence
      <3>2. lnLR >= LnA
        BY DEF Decided, Decide
      <3>. QED  BY <3>1, <3>2 DEF Ordered, IInv, TypeOK
    <2>. QED  BY <2>1, <2>2, <2>3 DEF IInv, Kept
  <1>. QED  BY <1>1, OrderedInit, OrderedNext, PTL DEF Spec

(* The condition on the flags under which a "pass" means what the command  *)
(* prints: so many clean simulations as the budget allows must decide.     *)
(* Then a pass is an acceptance by the test without a single failure, and  *)
(* never a budget that was used up.                                        *)
THEOREM PassIsAccepted ==
  ASSUME Ordered, BudgetDecides
  PROVE  Spec => []PassMeansAccepted
  <1>1. OrderedInv => PassMeansAccepted
    <2>. SUFFICES ASSUME OrderedInv, Concluded, verification.Result = "pass"
                  PROVE  decision = "Accept" /\ verification.Failures = 0
      BY DEF PassMeansAccepted
    <2>. USE DEF OrderedInv
    <2>1. failures \in Nat /\ simulations \in 0 .. MaxSimulations /\ lnLR \in Int
      BY DEF IInv, TypeOK
    <2>2. failures = 0 /\ verification.Failures = 0
      BY <2>1 DEF IInv, Verdict
    <2>3. lnLR = simulations * LnPass /\ lnLR <= 0
      BY <2>2, CleanEvidence
    <2>4. decision # "Reject"
      BY <2>1, <2>3 DEF Decided, Decide, Ordered
    <2>5. CASE decision # "Continue"
      BY <2>2, <2>4, <2>5 DEF Decided, Decide
    <2>6. CASE simulations = MaxSimulations
      <3>1. lnLR <= LnB
        BY <2>3, <2>6 DEF BudgetDecides
      <3>. QED  BY <2>1, <2>2, <2>4, <3>1 DEF Decided, Decide
    <2>. QED  BY <2>1, <2>5, <2>6 DEF IInv, Verdict
  <1>. QED  BY <1>1, OrderedInit, OrderedNext, PTL DEF Spec
=============================================================================
