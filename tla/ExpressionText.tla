-------------------------- MODULE ExpressionText --------------------------
(***************************************************************************)
(* The text of a check expression: the recursive-descent parser over       *)
(* tokens of internal/check/expr.go, what an author writes, and the text   *)
(* with values that a finding shows.                                       *)
(*                                                                         *)
(* A token is a record whose Type is its operator or parenthesis, "number" *)
(* or "ident".  The result of a parse function is the expression it        *)
(* returns and the position after it; position 0 is an error.              *)
(***************************************************************************)
EXTENDS Expressions

CONSTANT Spelling     \* variable names in parts, where one is part of another

(* The operators of each level of the grammar, loosest first. *)
OpsAt(level) ==
  CASE level = 1 -> ComparisonOps
    [] level = 2 -> {"+", "-"}
    [] level = 3 -> {"*", "/"}

-----------------------------------------------------------------------------
(* The parser. *)

Parsed(node, pos) == [Node |-> node, Pos |-> pos]
Failed == Parsed(NoNode, 0)
Fails(result) == result.Pos = 0

Peek(tokens, pos) == IF pos > Len(tokens) THEN "eof" ELSE tokens[pos].Type

(* expect: the result, if the token after it is of that type. *)
Expect(tokens, result, type) ==
  IF Fails(result) \/ Peek(tokens, result.Pos) # type THEN Failed
  ELSE Parsed(result.Node, result.Pos + 1)

RECURSIVE ParseBinary(_, _, _), ParseRest(_, _, _), ParsePrimary(_, _), ParseArgs(_, _, _)

(* A minus takes one primary: two in a row do not parse. *)
ParseUnary(tokens, pos) ==
  IF Peek(tokens, pos) = "-"
  THEN LET operand == ParsePrimary(tokens, pos + 1)
       IN  IF Fails(operand) THEN Failed ELSE Parsed(Unary(operand.Node), operand.Pos)
  ELSE ParsePrimary(tokens, pos)

ParseOperand(tokens, pos, level) ==
  IF level = 3 THEN ParseUnary(tokens, pos) ELSE ParseBinary(tokens, pos, level + 1)

(* Mutant: what is right of an operator takes the rest of its level. *)
ParseRestToTheRight(tokens, left, level) ==
  IF Fails(left) \/ Peek(tokens, left.Pos) \notin OpsAt(level) THEN left
  ELSE LET right == ParseBinary(tokens, left.Pos + 1, level)
       IN  IF Fails(right) THEN Failed
           ELSE Parsed(Binary(Peek(tokens, left.Pos), left.Node, right.Node), right.Pos)

(* The loops of parseArithmetic and parseTerm, and the one comparison of   *)
(* parseExpression.                                                        *)
ParseRest(tokens, left, level) ==
  IF Fails(left) \/ Peek(tokens, left.Pos) \notin OpsAt(level) THEN left
  ELSE LET right == ParseOperand(tokens, left.Pos + 1, level)
           both == Parsed(Binary(Peek(tokens, left.Pos), left.Node, right.Node), right.Pos)
       IN  IF Fails(right) THEN Failed
           ELSE IF level = 1 THEN both ELSE ParseRest(tokens, both, level)

ParseBinary(tokens, pos, level) ==
  ParseRest(tokens, ParseOperand(tokens, pos, level), level)

(* The arguments after those in args; the parenthesis after the last one.  *)
ParseArgs(tokens, args, pos) ==
  LET arg == ParseBinary(tokens, pos, 2)
      all == Append(args, arg.Node)
  IN  IF Fails(arg) THEN Failed
      ELSE IF Peek(tokens, arg.Pos) = "," THEN ParseArgs(tokens, all, arg.Pos + 1)
      ELSE Expect(tokens, Parsed(all, arg.Pos), ")")

ParsePrimary(tokens, pos) ==
  CASE Peek(tokens, pos) = "number" -> Parsed(Number(tokens[pos].Value), pos + 1)
    [] Peek(tokens, pos) = "ident" /\ Peek(tokens, pos + 1) # "(" ->
         Parsed(Ident(tokens[pos].Name), pos + 1)
    [] Peek(tokens, pos) = "ident" /\ Peek(tokens, pos + 1) = "(" ->
         LET args == IF Peek(tokens, pos + 2) = ")" THEN Parsed(<< >>, pos + 3)
                     ELSE ParseArgs(tokens, << >>, pos + 2)
         IN  IF Fails(args) THEN Failed
             ELSE Parsed(FuncCall(tokens[pos].Name, args.Node), args.Pos)
    [] Peek(tokens, pos) = "(" -> Expect(tokens, ParseBinary(tokens, pos + 1, 1), ")")
    [] OTHER -> Failed

(* parseExpr: the whole of the tokens, or NoNode. *)
ParseTokens(tokens) ==
  LET result == ParseBinary(tokens, 1, 1)
  IN  IF Fails(result) \/ Peek(tokens, result.Pos) # "eof" THEN NoNode ELSE result.Node

-----------------------------------------------------------------------------
(* How an author writes an expression: its tokens, in parentheses where a  *)
(* node stands for more than its place allows.  A place is the loosest     *)
(* level it takes: 4 the operand of a minus or less.  The author of NoNode *)
(* wrote something that is no expression.                                  *)
Level(op) ==
  CASE op \in ComparisonOps -> 1
    [] op \in {"+", "-"} -> 2
    [] op \in {"*", "/"} -> 3
    [] op = "neg" -> 4
    [] op \in {"number", "ident", "call", "none"} -> 5

Sign(type) == <<[Type |-> type]>>

(* The tokens of the node at k. *)
RECURSIVE TokensOf(_, _, _)
TokensOf(e, k, place) ==
  LET node == e[k]
      level == Level(node.Op)
      Operand(i, at) == TokensOf(e, k - node.Operands[i], at)
      written ==
        CASE node.Op = "number" -> <<[Type |-> "number", Value |-> node.Value]>>
          [] node.Op = "ident" -> <<[Type |-> "ident", Name |-> node.Name]>>
          [] node.Op = "none" -> Sign(")")
          [] node.Op = "neg" -> Sign("-") \o Operand(1, 5)
          [] node.Op = "call" ->
               <<[Type |-> "ident", Name |-> node.Name]>> \o Sign("(")
               \o Operand(1, 2) \o Sign(",") \o Operand(2, 2) \o Sign(")")
          [] level = 1 -> Operand(1, 2) \o Sign(node.Op) \o Operand(2, 2)
          [] level \in {2, 3} -> Operand(1, level) \o Sign(node.Op) \o Operand(2, level + 1)
  IN  IF level < place THEN Sign("(") \o written \o Sign(")") ELSE written

Tokens(e) == TokensOf(e, Len(e), 1)

(* What the code reads in what the author of an expression has written. *)
ReadAgain(e) == ParseTokens(Tokens(e))

-----------------------------------------------------------------------------
(* FormatExpressionWithValues: the text of an expression in which each     *)
(* variable in turn, in the order of a Go map, is replaced by its value    *)
(* wherever its letters stand.  A text is a sequence of tokens, of parts   *)
(* of names and of values.                                                 *)
Letters(name) ==
  IF name \in DOMAIN Spelling THEN [k \in DOMAIN Spelling[name] |-> [Type |-> Spelling[name][k]]]
  ELSE <<[Type |-> name]>>

Shown(value) == <<[Type |-> "shown", Of |-> value]>>

(* A text with this in the place of every variable. *)
Written(e, Word(_)) ==
  LET tokens == Tokens(e)
      Part(k) == IF tokens[k].Type = "ident" THEN Word(tokens[k].Name) ELSE <<tokens[k]>>
  IN  FlattenSeq([k \in DOMAIN tokens |-> Part(k)])

(* strings.ReplaceAll. *)
Replaced(text, old, new) ==
  LET from[k \in 1 .. Len(text) + 1] ==
        CASE k > Len(text) -> << >>
          [] k + Len(old) <= Len(text) + 1 /\ SubSeq(text, k, k + Len(old) - 1) = old ->
               new \o from[k + Len(old)]
          [] OTHER -> <<text[k]>> \o from[k + 1]
  IN  from[1]

(* What is neither a number nor nil is not replaced. *)
Formatted(e, bound, order) ==
  LET Replace(text, v) ==
        IF bound[v] \in {Text, Other} THEN text
        ELSE Replaced(text, Letters(v), Shown(bound[v]))
  IN  FoldLeft(Replace, Written(e, Letters), order)

TextsWithValues(e, bound) == {Formatted(e, bound, order) : order \in SetToSeqs(DOMAIN bound)}
=============================================================================
