--------------------------- MODULE MCVerification ---------------------------
(* Verification at the numbers of the default flags: failure rate 0.1%,     *)
(* confidence 99%, logarithms in units of 10^-6.                            *)
EXTENDS Verification

DefaultLnFail == 2302585      \* ln(0.01 / 0.001)
DefaultLnPass == -9050        \* ln(0.99 / 0.999)
DefaultLnA == 4595120         \* ln(0.99 / 0.01)
DefaultLnB == -4595120

(* What the theorems of VerificationProofs suppose holds of the defaults. *)
ASSUME DefaultsDecide == Ordered /\ BudgetDecides
=============================================================================
