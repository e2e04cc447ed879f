--------------------------- MODULE TextualChecks ---------------------------
(***************************************************************************)
(* CheckCommand on checks that are text: what it is parameterised by is    *)
(* what ExpressionText defines.                                            *)
(***************************************************************************)
EXTENDS CheckCommand, ExpressionText

(* docs/spec.md section 4.5: the description of a finding "includes        *)
(* expression and resolved values": each variable of the expression is     *)
(* shown as the value it was evaluated with, in whatever order they are    *)
(* replaced.                                                               *)
ShowsResolvedValues ==
  \A f \in findings : \A chk \in Checks(f.Rel) :
    LET bound == Bound(f.Rel)
        Word(name) ==
          IF name \in DOMAIN bound /\ bound[name] # Other THEN Shown(bound[name])
          ELSE Letters(name)
    IN  chk.Name = f.Check => f.Text = Written(chk.Expression, Word)
=============================================================================
