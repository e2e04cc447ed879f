---------------------------- MODULE Expressions ----------------------------
(***************************************************************************)
(* The check expressions of internal/check/expr.go as the evaluator sees   *)
(* them, with nulls.  How one comes from a text is in ExpressionText.      *)
(*                                                                         *)
(* An expression is the list of the nodes of its tree, every node after    *)
(* its operands and the root last.  The pointer to an operand is how many  *)
(* places before the node it stands.                                       *)
(***************************************************************************)
EXTENDS Integers, SequencesExt, PropertyValues

-----------------------------------------------------------------------------
(* Nodes. *)

Number(n) == <<[Op |-> "number", Value |-> n, Operands |-> << >>]>>
Ident(name) == <<[Op |-> "ident", Name |-> name, Operands |-> << >>]>>
Unary(operand) == Append(operand, [Op |-> "neg", Operands |-> <<1>>])
Binary(op, left, right) ==
  Append(left \o right, [Op |-> op, Operands |-> <<Len(right) + 1, 1>>])
FuncCall(name, args) ==
  LET Behind(k) == Len(FlattenSeq(SubSeq(args, k + 1, Len(args))))
  IN  Append(FlattenSeq(args),
             [Op |-> "call", Name |-> name, Operands |-> [k \in DOMAIN args |-> Behind(k) + 1]])
NoNode == <<[Op |-> "none", Operands |-> << >>]>>

ComparisonOps == {"<=", ">=", "<", ">"}
ArithmeticOps == {"+", "-", "*", "/"}

Root(e) == e[Len(e)]

(* What parseExpr may return: nodes with the operands the type has, each   *)
(* before its node.                                                        *)
IsExpression(e) ==
  \/ e = NoNode
  \/ /\ Len(e) \in Nat \ {0} /\ DOMAIN e = 1 .. Len(e)
     /\ \A k \in DOMAIN e :
          LET node == e[k]
          IN  /\ node.Op \in {"number", "ident", "neg", "call"}
                             \cup ComparisonOps \cup ArithmeticOps
              /\ \A i \in DOMAIN node.Operands : node.Operands[i] \in 1 .. k - 1
              /\ node.Op = "neg" => DOMAIN node.Operands = {1}
              /\ node.Op \in ComparisonOps \cup ArithmeticOps => DOMAIN node.Operands = {1, 2}

-----------------------------------------------------------------------------
(* The evaluator. *)

Error == [Kind |-> "error"]

Holds(op, a, b) ==
  CASE op = "<=" -> a.N * b.D <= b.N * a.D
    [] op = ">=" -> a.N * b.D >= b.N * a.D
    [] op = "<" -> a.N * b.D < b.N * a.D
    [] op = ">" -> a.N * b.D > b.N * a.D

Divide(a, b) ==
  IF b.N = 0 THEN Error
  ELSE IF b.N > 0 THEN Value(a.N * b.D, a.D * b.N) ELSE Value(-(a.N * b.D), -(a.D * b.N))

(* A binary operator on two numbers. *)
Apply(op, a, b) ==
  CASE op \in ComparisonOps -> IF Holds(op, a, b) THEN Value(1, 1) ELSE Value(0, 1)
    [] op = "+" -> Value(a.N * b.D + b.N * a.D, a.D * b.D)
    [] op = "-" -> Value(a.N * b.D - b.N * a.D, a.D * b.D)
    [] op = "*" -> Value(a.N * b.N, a.D * b.D)
    [] op = "/" -> Divide(a, b)

(* Mutant: a null is no reason for a null. *)
StrictAsZero(a, b, result) ==
  CASE a.Kind = "error" \/ b.Kind = "error" -> Error
    [] a.Kind = "null" /\ b.Kind # "error" -> b
    [] b.Kind = "null" /\ a.Kind # "error" -> a
    [] a.Kind = "value" /\ b.Kind = "value" -> result

(* An error of either side, then a null of either side, then the result.   *)
Strict(a, b, result) ==
  CASE a.Kind = "error" \/ b.Kind = "error" -> Error
    [] {a.Kind, b.Kind} \subseteq {"null", "value"} /\ "null" \in {a.Kind, b.Kind} -> Null
    [] a.Kind = "value" /\ b.Kind = "value" -> result

(* max alone is not strict: a null gives way to the other side. *)
Call(name, args) ==
  IF name \notin {"max", "min"} \/ DOMAIN args # {1, 2} THEN Error
  ELSE LET a == args[1] b == args[2]
       IN  CASE name = "min" -> Strict(a, b, IF Holds("<=", a, b) THEN a ELSE b)
             [] name = "max" /\ a.Kind = "null" -> b
             [] name = "max" /\ a.Kind # "null" /\ b.Kind = "null" -> a
             [] name = "max" /\ "null" \notin {a.Kind, b.Kind} ->
                  Strict(a, b, IF Holds(">=", a, b) THEN a ELSE b)

(* toFloat64 of what a variable is bound to. *)
Lookup(name, env) ==
  LET value == Property(env, name)
  IN  IF value.Kind \in {"value", "null"} THEN value ELSE Error

Negative(a) == IF a.Kind = "value" THEN Value(-a.N, a.D) ELSE a

(* evalNode, of a node whose operands have been evaluated. *)
EvalNode(node, args, env) ==
  CASE node.Op = "number" -> Value(node.Value, 1)
    [] node.Op = "ident" -> Lookup(node.Name, env)
    [] node.Op = "neg" -> Negative(args[1])
    [] node.Op = "call" -> Call(node.Name, args)
    [] node.Op \in ComparisonOps \cup ArithmeticOps ->
         Strict(args[1], args[2], Apply(node.Op, args[1], args[2]))

(* The value of every node of an expression. *)
Values(e, env) ==
  LET value[k \in DOMAIN e] ==
        EvalNode(e[k], [i \in DOMAIN e[k].Operands |-> value[k - e[k].Operands[i]]], env)
  IN  value

(* EvaluateComparison: "holds", "fails", "indeterminate" or "error". *)
Compare(e, env) ==
  IF Root(e).Op \notin ComparisonOps THEN "error"
  ELSE LET result == Values(e, env)[Len(e)]
       IN  CASE result.Kind = "error" -> "error"
             [] result.Kind = "null" -> "indeterminate"
             [] result.Kind = "value" -> IF result.N = 1 THEN "holds" ELSE "fails"

UsesMax(e) == \E k \in DOMAIN e : e[k].Op = "call" /\ e[k].Name = "max"
=============================================================================
