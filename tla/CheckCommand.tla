---------------------------- MODULE CheckCommand ----------------------------
(***************************************************************************)
(* The commands validate, check and visualize of cmd/modelr/main.go and    *)
(* the tools of the same names of internal/mcp/server.go: a model file is  *)
(* parsed, the definitions loaded, the registry built, the model validated *)
(* and checked, and the result written beside the file.                    *)
(*                                                                         *)
(* What $MODELR_PATH holds is loaded through the cache of DefinitionCache; *)
(* here it is any of a set of definitions, or an error.  A file that       *)
(* os.WriteFile cannot write is left as it was, or torn.                   *)
(***************************************************************************)
EXTENDS Checker, ModelParser

CONSTANTS
  Invocations,       \* what may be called on what, see call
  Embedded,          \* the definitions of the binary
  Numbers            \* the values a missing number may turn out to have

(* Definitions by kind; those of relationships have Checks, empty or not. *)
DefinitionMaps ==
  {defs \in [Kinds -> Seq(Definitions)] :
     \A n \in DOMAIN defs["relationship"] : "Checks" \in DOMAIN defs["relationship"][n]}

(* The lists of a model are lists, and no name of a component is empty. *)
ModelDecoded(m) ==
  HasLists(m) /\ \A i \in DOMAIN m.Components : m.Components[i].Name # "none"

(* What is decoded from YAML has the fields of the type it is decoded to:  *)
(* the files, the path and the binary hold definitions and models.         *)
ASSUME InvocationsAssumption ==
  /\ Embedded \in DefinitionMaps
  /\ \A invocation \in Invocations :
       /\ invocation.Path \in DefinitionMaps
       /\ [k \in Kinds |-> Inline(invocation.File, k)] \in DefinitionMaps
       /\ Parses(invocation.File) => ModelDecoded(Model(invocation.File))

VARIABLES
  call,              \* the Command, Tool if it is of the MCP server, the File
                     \* it is called on and the definitions of the Path
  phase,             \* where the command is; "ok" and "error" are its ends
  report,            \* what the .checked.yaml file holds
  drawing,           \* what the .dot file holds
  svg                \* whether the .svg file was written

commandVars == <<call, phase, report, drawing, svg>>
vars == <<registryVars, validatorVars, checkerVars, commandVars>>

NotWritten == [State |-> "as before"]
Torn == [State |-> "torn"]

NoSources == [c \in Classes |-> [k \in Kinds |-> << >>]]
NoModel == [Complete |-> FALSE, Components |-> << >>, Edges |-> << >>,
            Relationships |-> << >>, KnownUnknowns |-> {}]

Init ==
  /\ call \in Invocations
  /\ phase = "parse"
  /\ report = NotWritten /\ drawing = NotWritten /\ svg = NotWritten
  /\ sources = NoSources /\ RegistryStart
  /\ model = NoModel /\ properties = << >>
  /\ component = 1 /\ relationship = 1
  /\ assumptions = {} /\ knownUnknowns = {} /\ warnings = {}
  /\ CheckerInit

GoTo(p) == phase' = p /\ UNCHANGED call

(* model.Parse, and the inline definitions for BuildRegistry. *)
Parse ==
  /\ phase = "parse"
  /\ IF Parses(call.File)
     THEN /\ ValidateCalled(Model(call.File))
          /\ sources' = [sources EXCEPT !["inline"] = [k \in Kinds |-> Inline(call.File, k)]]
          /\ GoTo("load")
     ELSE GoTo("error") /\ UNCHANGED <<sources, validatorVars>>
  /\ UNCHANGED <<class, kind, at, nodes, rels, shadows, checkerVars, report, drawing, svg>>

(* loadPathDefs, and LoadEmbedded. *)
Load ==
  /\ phase = "load"
  /\ \/ sources' = [sources EXCEPT !["path"] = call.Path, !["embedded"] = Embedded] /\ GoTo("build")
     \/ GoTo("error") /\ UNCHANGED sources
  /\ UNCHANGED <<class, kind, at, nodes, rels, shadows>>
  /\ UNCHANGED <<validatorVars, checkerVars, report, drawing, svg>>

BuildRegistry ==
  /\ phase = "build" /\ BuildStep
  /\ UNCHANGED <<validatorVars, checkerVars, commandVars>>

Validate ==
  /\ phase = "build" /\ ValidateStep
  /\ UNCHANGED <<checkerVars, commandVars>>

(* runValidate prints the result and is done. *)
ValidateReturns ==
  /\ phase = "build" /\ Validated
  /\ GoTo(IF call.Command = "validate" THEN "ok" ELSE "check")
  /\ UNCHANGED <<registryVars, validatorVars, checkerVars, report, drawing, svg>>

Check == phase = "check" /\ CheckStep /\ UNCHANGED commandVars

CheckReturns ==
  /\ phase = "check" /\ (aborted \/ Checked)
  /\ GoTo(IF aborted THEN "error" ELSE "write")
  /\ UNCHANGED <<registryVars, validatorVars, checkerVars, report, drawing, svg>>

-----------------------------------------------------------------------------
(* WriteCheckedYAML. *)

(* Mutant: the known unknowns of the check stand for those of Validate. *)
ReportOfCheckOnly ==
  [State |-> "written", Summary |-> Summary, Findings |-> findings,
   KnownUnknowns |-> IF indeterminate = {} THEN knownUnknowns ELSE indeterminate,
   Assumptions |-> assumptions, Warnings |-> warnings \cup unchecked]

Report ==
  [State |-> "written", Summary |-> Summary, Findings |-> findings,
   KnownUnknowns |-> knownUnknowns \cup indeterminate,
   Assumptions |-> assumptions, Warnings |-> warnings \cup unchecked]

WriteCheckedYAML ==
  /\ phase = "write" /\ call.Command = "check"
  /\ \/ report' = Report /\ GoTo("ok")
     \/ report' \in {NotWritten, Torn} /\ GoTo("error")
  /\ UNCHANGED <<registryVars, validatorVars, checkerVars, drawing, svg>>

-----------------------------------------------------------------------------
(* GenerateDOT. *)

(* Mutant: the components of the check's known unknowns only. *)
DrawingOfCheckOnly ==
  LET found == {<<f.Rel.Upstream, f.Rel.Downstream>> : f \in findings}
  IN  [State |-> "written",
       Bordered |-> {ku.Component : ku \in indeterminate} \ {"none"},
       Red |-> {i \in DOMAIN model.Edges :
                  <<model.Edges[i].Source, model.Edges[i].Target>> \in found},
       Dashed |-> {}]

(* The components with an orange border, the red edges and the dashed ones. *)
Drawing ==
  LET known == knownUnknowns \cup indeterminate
      found == {<<f.Rel.Upstream, f.Rel.Downstream>> : f \in findings}
      Ends(i) == <<model.Edges[i].Source, model.Edges[i].Target>>
      red == {i \in DOMAIN model.Edges : Ends(i) \in found}
  IN  [State |-> "written",
       Bordered |-> {ku.Component : ku \in known} \ {"none"},
       Red |-> red,
       Dashed |-> {i \in DOMAIN model.Edges \ red : \E ku \in known : ku.Edge = Ends(i)}]

WriteDOT ==
  /\ phase = "write" /\ call.Command = "visualize"
  /\ \/ drawing' = Drawing /\ GoTo("render")
     \/ drawing' \in {NotWritten, Torn} /\ GoTo("error")
  /\ UNCHANGED <<registryVars, validatorVars, checkerVars, report, svg>>

(* No graphviz or a failing one is no error; a file that cannot be written *)
(* is one on the command line only.                                        *)
RenderSVG ==
  /\ phase = "render"
  /\ \/ svg' = NotWritten /\ GoTo("ok")
     \/ svg' = [State |-> "written"] /\ GoTo("ok")
     \/ svg' \in {NotWritten, Torn} /\ GoTo(IF call.Tool THEN "ok" ELSE "error")
  /\ UNCHANGED <<registryVars, validatorVars, checkerVars, report, drawing>>

Finished == phase \in {"ok", "error"} /\ UNCHANGED vars

Next ==
  \/ Parse \/ Load
  \/ BuildRegistry
  \/ Validate \/ ValidateReturns
  \/ Check \/ CheckReturns
  \/ WriteCheckedYAML \/ WriteDOT \/ RenderSVG
  \/ Finished

Spec == Init /\ [][Next]_vars

-----------------------------------------------------------------------------
(* Properties. *)

Relationships == {model.Relationships[i] : i \in DOMAIN model.Relationships}
Checks(rel) == {rels[rel.Template].Checks[k] : k \in DOMAIN rels[rel.Template].Checks}

(* docs/spec.md section 4.4: which relationships are checked at all.       *)
Applies(rel) ==
  /\ rel.Template \in DOMAIN rels
  /\ {rel.Upstream, rel.Downstream} \subseteq ComponentNames(model)
  /\ ~HasText(Bound(rel))

(* docs/spec.md section 4.4: a written report holds exactly one finding    *)
(* for every check that is false and one known unknown for every check     *)
(* that is null, of every relationship, whatever came before it in the     *)
(* loops, and a warning for every template that is not known; and a check  *)
(* that returns without an error has written it.                           *)
ReportExact ==
  /\ phase = "ok" /\ call.Command = "check" => report.State = "written"
  /\ report.State = "written" =>
       LET With(outcome) ==
             {pair \in UNION {{rel} \X Checks(rel) :
                                rel \in {r \in Relationships : Applies(r)}} :
                Outcome(pair[2], Bound(pair[1])) = outcome}
       IN  /\ {<<f.Rel, f.Check>> : f \in report.Findings}
                 = {<<pair[1], pair[2].Name>> : pair \in With("fails")}
           /\ report.KnownUnknowns
                 = knownUnknowns \cup
                   {Indeterminate(pair[1], pair[2]) : pair \in With("indeterminate")}
           /\ With("error") = {}
           /\ \A rel \in Relationships :
                rel.Template \notin DOMAIN rels =>
                  Unrecognized("template", rel.Template) \in report.Warnings

ComponentAt(rel, scope) == model.Components[Place(Side(rel, scope))]

(* Why a side of a relationship has no value for a property. *)
Told(rel, v, binding, unknowns, warned) ==
  LET c == ComponentAt(rel, binding.Scope)
  IN  CASE binding.Scope = "malformed" -> BindingWarning("malformed", rel, v) \in warned
        [] binding.Scope \in {"upstream", "downstream"} ->
             \/ IsGiven(c, binding.Property, Null)
             \/ MissingProperty(c, binding.Property) \in unknowns
             \/ BindingWarning("undeclared", rel, v) \in warned
             \/ Unrecognized("type", c.Type) \in warned
        [] binding.Scope = "edge" /\ ~HasEdge(rel) ->
             BindingWarning("no edge", rel, v) \in warned
        [] OTHER -> TRUE

(* docs/spec.md section 5.3: what a binding cannot be given is set to null *)
(* and told.  Every null a check of a written report was evaluated with    *)
(* was given by the author or has a warning or a known unknown in the same *)
(* report.  Validate says nothing of a property that an edge does not have *)
(* nor of a scope it does not know: those are left out.                    *)
NullIsTold ==
  report.State = "written" =>
    \A rel \in {r \in Relationships : Applies(r)} :
      \A v \in DOMAIN rels[rel.Template].Resolve :
        Bound(rel)[v] = Null =>
          Told(rel, v, rels[rel.Template].Resolve[v], report.KnownUnknowns, report.Warnings)

(* A drawing marks what the check found and what Validate did not know:    *)
(* every edge between the sides of a finding is red and no other, and the  *)
(* component whose missing property a check has read has a border.         *)
DrawingShowsReport ==
  drawing.State = "written" =>
    /\ \A i \in DOMAIN model.Edges :
         i \in drawing.Red <=>
           \E rel \in {r \in Relationships : Applies(r)} :
             /\ rel.Upstream = model.Edges[i].Source /\ rel.Downstream = model.Edges[i].Target
             /\ \E chk \in Checks(rel) : Outcome(chk, Bound(rel)) = "fails"
    /\ \A rel \in {r \in Relationships : Applies(r)} :
         \A v \in DOMAIN rels[rel.Template].Resolve :
           LET binding == rels[rel.Template].Resolve[v]
           IN  /\ binding.Scope \in {"upstream", "downstream"}
               /\ binding.Property \notin DOMAIN ComponentAt(rel, binding.Scope).Properties
               /\ Bound(rel)[v] = Null
               /\ ~Undeclared(Side(rel, binding.Scope), binding.Property)
               /\ ComponentAt(rel, binding.Scope).Type \in DOMAIN nodes
               => Side(rel, binding.Scope) \in drawing.Bordered

-----------------------------------------------------------------------------
(* The checks that were evaluated when the command ends. *)

Evaluated ==
  UNION {{i} \X {k \in DOMAIN rels[model.Relationships[i].Template].Checks :
                   i < checking \/ k < check} :
           i \in {j \in DOMAIN model.Relationships :
                    j <= checking /\ Applies(model.Relationships[j])}}

RelAt(pair) == model.Relationships[pair[1]]
CheckAt(pair) == rels[RelAt(pair).Template].Checks[pair[2]]

CheckOver == phase \in {"write", "error"} /\ Validated /\ call.Command # "validate"

(* What is written without a superfluous parenthesis is read as it was     *)
(* meant: levels bind in their order, operators of a level from the left,  *)
(* and no token is lost.                                                   *)
ReadAsMeant ==
  CheckOver =>
    \A pair \in Evaluated :
      parseExpr(CheckAt(pair).Expression) = CheckAt(pair).Expression

(* What the result says of a check. *)
Verdict(rel, chk) ==
  CASE \E f \in findings : f.Rel = rel /\ f.Check = chk.Name -> "fails"
    [] Indeterminate(rel, chk) \in indeterminate -> "indeterminate"
    [] OTHER -> "holds"

(* The numbers that may turn up for the nulls. *)
Completions(bound) ==
  {env \in [DOMAIN bound -> {Value(n, 1) : n \in Numbers} \cup {bound[v] : v \in DOMAIN bound}] :
     \A v \in DOMAIN bound : IF bound[v] = Null THEN env[v] # Null ELSE env[v] = bound[v]}

(* A result tells the checks of a template apart by their names.           *)
NameShared(pair) ==
  \E k \in DOMAIN rels[RelAt(pair).Template].Checks :
    k # pair[2] /\ rels[RelAt(pair).Template].Checks[k].Name = CheckAt(pair).Name

(* A verdict given while properties are still null is the verdict for      *)
(* every number they may get.  With max it is not: max(null, x) is x.      *)
VerdictStands ==
  CheckOver =>
    \A pair \in Evaluated \ (IF aborted THEN {<<checking, check - 1>>} ELSE {}) :
      LET rel == RelAt(pair)
          chk == CheckAt(pair)
          verdict == Verdict(rel, chk)
          told == ~NameShared(pair) /\ verdict \in {"holds", "fails"}
      IN  told /\ ~UsesMax(parseExpr(chk.Expression)) =>
            \A env \in Completions(Bound(rel)) : Outcome(chk, env) = verdict
=============================================================================
