------------------------------ MODULE Checker ------------------------------
(***************************************************************************)
(* Check of internal/check/checker.go: for every relationship of a         *)
(* validated model the variables of its template are resolved and the      *)
(* checks of the template evaluated, in order.  An expression that cannot  *)
(* be evaluated ends the whole check.                                      *)
(*                                                                         *)
(* A check of a template is a record with a Name and an Expression: the    *)
(* expression its author has in mind.  What it is read as and how it is    *)
(* shown are parameters: ExpressionText says what they are.                *)
(***************************************************************************)
EXTENDS Validator, Expressions

CONSTANTS
  parseExpr(_),                     \* the expression that is read in its text
  FormatExpressionWithValues(_, _)  \* its texts with the values of a map

(* The checks of the template definitions, and what is read in them. *)
ASSUME ChecksAssumption ==
  \A d \in Definitions :
    "Checks" \in DOMAIN d =>
      /\ IsList(d.Checks)
      /\ \A k \in DOMAIN d.Checks : IsExpression(parseExpr(d.Checks[k].Expression))

VARIABLES
  checking,           \* the relationship whose turn it is
  check,              \* and the check of its template
  findings, indeterminate, unchecked,   \* Findings, KnownUnknowns, Warnings
  aborted             \* an expression could not be evaluated

checkerVars == <<checking, check, findings, indeterminate, unchecked, aborted>>

CheckerInit ==
  /\ checking = 1 /\ check = 1
  /\ findings = {} /\ indeterminate = {} /\ unchecked = {}
  /\ aborted = FALSE

-----------------------------------------------------------------------------
(* resolveVariables. *)

Place(name) == CHOOSE i \in Places(name) : TRUE

(* findEdge returns the first of the edges between two components. *)
EdgeProperties(rel) ==
  LET between == {i \in DOMAIN model.Edges :
        model.Edges[i].Source = rel.Upstream /\ model.Edges[i].Target = rel.Downstream}
  IN  model.Edges[Min(between)].Properties

Resolved(rel, binding) ==
  CASE binding.Scope = "upstream" -> Property(properties[Place(rel.Upstream)], binding.Property)
    [] binding.Scope = "downstream" ->
         Property(properties[Place(rel.Downstream)], binding.Property)
    [] binding.Scope = "edge" /\ HasEdge(rel) -> Property(EdgeProperties(rel), binding.Property)
    [] OTHER -> Null

Bound(rel) ==
  LET Resolve == rels[rel.Template].Resolve
  IN  [v \in DOMAIN Resolve |-> Resolved(rel, Resolve[v])]

HasText(bound) == \E v \in DOMAIN bound : bound[v] = Text

(* Mutant: an edge that is not there makes the relationship not evaluable. *)
EvaluableWithEdge(rel) ==
  /\ rel.Template \in DOMAIN rels /\ HasEdge(rel)
  /\ Places(rel.Upstream) # {} /\ Places(rel.Downstream) # {}
  /\ ~HasText(Bound(rel))

(* The loop does not "continue" before the checks. *)
Evaluable(rel) ==
  /\ rel.Template \in DOMAIN rels
  /\ Places(rel.Upstream) # {} /\ Places(rel.Downstream) # {}
  /\ ~HasText(Bound(rel))

-----------------------------------------------------------------------------
(* The loops of Check. *)

Finding(rel, chk, text) ==
  [Rel |-> rel, Check |-> chk.Name, Text |-> text]

Indeterminate(rel, chk) ==
  [ID |-> <<"indeterminate", rel.Template, chk.Name, rel.Upstream, rel.Downstream>>,
   Component |-> "none", Edge |-> << >>]

Outcome(chk, bound) == Compare(parseExpr(chk.Expression), bound)

Rel == model.Relationships[checking]
InCheck == Validated /\ ~aborted /\ checking <= Len(model.Relationships)
HasChecks == Evaluable(Rel) /\ check <= Len(rels[Rel.Template].Checks)

EvaluateCheck ==
  /\ InCheck /\ HasChecks
  /\ LET chk == rels[Rel.Template].Checks[check]
         bound == Bound(Rel)
         result == Outcome(chk, bound)
     IN  /\ aborted' = (result = "error")
         /\ indeterminate' = indeterminate \cup
              (IF result = "indeterminate" THEN {Indeterminate(Rel, chk)} ELSE {})
         /\ IF result = "fails"
            THEN \E text \in FormatExpressionWithValues(chk.Expression, bound) :
                   findings' = findings \cup {Finding(Rel, chk, text)}
            ELSE UNCHANGED findings
  /\ check' = check + 1
  /\ UNCHANGED <<checking, unchecked>>

NextRelationship ==
  /\ InCheck /\ ~HasChecks
  /\ unchecked' = IF Rel.Template \in DOMAIN rels THEN unchecked
                  ELSE unchecked \cup {Unrecognized("template", Rel.Template)}
  /\ checking' = checking + 1 /\ check' = 1
  /\ UNCHANGED <<findings, indeterminate, aborted>>

CheckStep ==
  (EvaluateCheck \/ NextRelationship) /\ UNCHANGED <<registryVars, validatorVars>>

Checked == Validated /\ checking > Len(model.Relationships)

Summary == IF findings = {} THEN "satisfied" ELSE "violations"
=============================================================================
