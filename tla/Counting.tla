------------------------------ MODULE Counting ------------------------------
(***************************************************************************)
(* The sum of per-instance counters, written so that it can be proved      *)
(* about.  A counter f[i] is the column of unit cells (i,1) ... (i,f[i]);  *)
(* the sum of the columns is the number of cells, so adding one to a       *)
(* counter adds one cell and no induction over the instances is needed.    *)
(* The sum is right as long as no counter exceeds c, the height of the     *)
(* board; every use states that bound as an invariant of its own.          *)
(***************************************************************************)
EXTENDS Integers, FiniteSets

Units(f, n, c) == {p \in (0 .. n-1) \X (1 .. c) : p[2] <= f[p[1]]}

Total(f, n, c) == Cardinality(Units(f, n, c))

(* The function f with v at i: an instance's counter assigned. *)
With(f, i, v) == [f EXCEPT ![i] = v]
=============================================================================
