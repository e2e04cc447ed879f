--------------------------- MODULE PropertyValues ---------------------------
(***************************************************************************)
(* The values of a property as the code tells them apart (map[string]any): *)
(* a number, a string, nil, or one of another type.  Numbers are rationals *)
(* N/D with D > 0: the rounding of float64 is left out, and of a string or *)
(* another value nothing matters.                                          *)
(***************************************************************************)
Value(n, d) == [Kind |-> "value", N |-> n, D |-> d]
Null == [Kind |-> "null"]
Text == [Kind |-> "text"]
Other == [Kind |-> "other"]

(* A property that is not there reads as nil (getProperty). *)
Property(props, name) == IF name \in DOMAIN props THEN props[name] ELSE Null
=============================================================================
