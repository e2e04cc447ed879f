-------------------------- MODULE ResourceCounter --------------------------
(***************************************************************************)
(* What one simulation of a behavioral pattern promises, whatever its      *)
(* rules are: a counter of units in use that moves by at most one at a     *)
(* step, and an alarm that is raised at the very step that takes the       *)
(* counter past the capacity, never before it and never after it.  Once    *)
(* the run is over nothing changes.                                        *)
(***************************************************************************)
EXTENDS Integers

CONSTANT Capacities   \* the capacities a model may give the resource

VARIABLES
  capacity,   \* the capacity of this run
  used,       \* units in use
  outcome     \* "running", "violated" (alarm raised) or "stopped"

vars == <<capacity, used, outcome>>

Init ==
  /\ capacity \in Capacities
  /\ used = 0
  /\ outcome = "running"

(* Taking one unit more: the alarm is exact. *)
Acquire ==
  /\ outcome = "running"
  /\ used' = used + 1
  /\ IF used' > capacity THEN outcome' = "violated"
                         ELSE outcome' \in {"running", "stopped"}
  /\ UNCHANGED capacity

(* Giving one unit back: never below zero, never an alarm. *)
Release ==
  /\ outcome = "running"
  /\ used > 0
  /\ used' = used - 1
  /\ outcome' \in {"running", "stopped"}
  /\ UNCHANGED capacity

(* The run ends without touching the counter. *)
Stop ==
  /\ outcome = "running"
  /\ outcome' = "stopped"
  /\ UNCHANGED <<capacity, used>>

Next == Acquire \/ Release \/ Stop

Spec == Init /\ [][Next]_vars
=============================================================================
