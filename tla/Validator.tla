----------------------------- MODULE Validator -----------------------------
(***************************************************************************)
(* Validate of internal/model/validator.go: a loop over the components     *)
(* that fills what their type declares and they do not say, and a loop     *)
(* over the relationships that looks at the bindings of their templates.   *)
(*                                                                         *)
(* One step is one turn of a loop.  The maps inside a turn are ranged over *)
(* in any order, but what a turn adds are entries of lists whose order     *)
(* nothing reads: the lists are sets here.                                 *)
(*                                                                         *)
(* A node definition has Properties, each with its default, Null for none. *)
(* A binding has the Scope before its first point and the Property after   *)
(* it; the scope of a binding without a point is "malformed".              *)
(***************************************************************************)
EXTENDS Registry, PropertyValues

CONSTANT Models       \* the models that may be validated

IsList(s) == Len(s) \in Nat /\ DOMAIN s = 1 .. Len(s)

HasLists(m) == IsList(m.Components) /\ IsList(m.Edges) /\ IsList(m.Relationships)

ASSUME ModelsAssumption == \A m \in Models : HasLists(m)

VARIABLES
  model,              \* the model as it was parsed
  properties,         \* the properties of its components, which Validate fills
  component,          \* the next turn of the first loop
  relationship,       \* the next turn of the second loop
  assumptions, knownUnknowns, warnings

validatorVars ==
  <<model, properties, component, relationship, assumptions, knownUnknowns, warnings>>

Assumption(c, name, value) ==
  [Property |-> name, Component |-> c.Name, Value |-> value, Source |-> c.Type]

MissingProperty(c, name) ==
  [ID |-> <<"missing", c.Name, name>>, Component |-> c.Name, Edge |-> << >>]

Unrecognized(what, name) == [Kind |-> what, Name |-> name]
BindingWarning(what, rel, name) == [Kind |-> what, Rel |-> rel, Name |-> name]

(* Validate is called with the result of Parse. *)
ValidateCalled(parsed) ==
  /\ model' = parsed
  /\ properties' = [i \in DOMAIN parsed.Components |-> parsed.Components[i].Properties]
  /\ component' = 1 /\ relationship' = 1
  /\ assumptions' = {} /\ warnings' = {}
  /\ knownUnknowns' = parsed.KnownUnknowns

ValidatorInit ==
  /\ RegistryInit
  /\ model \in Models
  /\ properties = [i \in DOMAIN model.Components |-> model.Components[i].Properties]
  /\ component = 1 /\ relationship = 1
  /\ assumptions = {} /\ warnings = {}
  /\ knownUnknowns = model.KnownUnknowns

-----------------------------------------------------------------------------
(* The first loop. *)

Declared(c) == nodes[c.Type].Properties
Unsaid(c) == DOMAIN Declared(c) \ DOMAIN c.Properties

(* Mutant: a default overrules what the author gave. *)
FilledOver(c) ==
  [name \in DOMAIN c.Properties \cup DOMAIN Declared(c) |->
     IF name \in DOMAIN Declared(c) THEN Declared(c)[name] ELSE c.Properties[name]]

Filled(c) ==
  [name \in DOMAIN c.Properties \cup DOMAIN Declared(c) |->
     IF name \in DOMAIN c.Properties THEN c.Properties[name] ELSE Declared(c)[name]]

ValidateComponent ==
  /\ Built /\ component <= Len(model.Components)
  /\ LET c == model.Components[component]
     IN  IF c.Type \notin DOMAIN nodes
         THEN /\ warnings' = warnings \cup {Unrecognized("type", c.Type)}
              /\ UNCHANGED <<properties, assumptions, knownUnknowns>>
         ELSE /\ properties' = [properties EXCEPT ![component] = Filled(c)]
              /\ assumptions' = assumptions \cup
                   {Assumption(c, name, Declared(c)[name]) :
                      name \in {p \in Unsaid(c) : Declared(c)[p] # Null}}
              /\ knownUnknowns' = knownUnknowns \cup
                   {MissingProperty(c, name) : name \in {p \in Unsaid(c) : Declared(c)[p] = Null}}
              /\ UNCHANGED warnings
  /\ component' = component + 1
  /\ UNCHANGED <<model, relationship>> /\ UNCHANGED registryVars

-----------------------------------------------------------------------------
(* The second loop. *)

(* findComponent: the places of the components of a name; findEdge.        *)
Places(name) == {i \in DOMAIN model.Components : model.Components[i].Name = name}
HasEdge(rel) ==
  \E i \in DOMAIN model.Edges :
    model.Edges[i].Source = rel.Upstream /\ model.Edges[i].Target = rel.Downstream

Side(rel, scope) == IF scope = "upstream" THEN rel.Upstream ELSE rel.Downstream

(* validateBindingProperty: the type is known and does not declare it. *)
Undeclared(name, property) ==
  \E i \in Places(name) :
    /\ model.Components[i].Type \in DOMAIN nodes
    /\ property \notin DOMAIN Declared(model.Components[i])

(* What is wrong with a binding; nothing is said of other scopes.          *)
Complaint(rel, binding) ==
  CASE binding.Scope = "malformed" -> "malformed"
    [] binding.Scope \in {"upstream", "downstream"}
         /\ Undeclared(Side(rel, binding.Scope), binding.Property) -> "undeclared"
    [] binding.Scope = "edge" /\ ~HasEdge(rel) -> "no edge"
    [] OTHER -> "none"

ValidateRelationship ==
  /\ Built /\ component > Len(model.Components)
  /\ relationship <= Len(model.Relationships)
  /\ LET rel == model.Relationships[relationship]
         Resolve == rels[rel.Template].Resolve
     IN  warnings' = warnings \cup
           IF rel.Template \notin DOMAIN rels THEN {Unrecognized("template", rel.Template)}
           ELSE {BindingWarning(Complaint(rel, Resolve[v]), rel, v) :
                   v \in {w \in DOMAIN Resolve : Complaint(rel, Resolve[w]) # "none"}}
  /\ relationship' = relationship + 1
  /\ UNCHANGED <<model, properties, component, assumptions, knownUnknowns>>
  /\ UNCHANGED registryVars

Validated ==
  Built /\ component > Len(model.Components) /\ relationship > Len(model.Relationships)

ValidateStep == ValidateComponent \/ ValidateRelationship

ValidatorNext == (BuildStep /\ UNCHANGED validatorVars) \/ ValidateStep

ValidatorSpec == ValidatorInit /\ [][ValidatorNext]_<<registryVars, validatorVars>>

-----------------------------------------------------------------------------
(* Where the value of a property comes from. *)

IsGiven(c, name, value) == name \in DOMAIN c.Properties /\ value = c.Properties[name]

(* docs/spec.md section 5.1: Validate fills defaults, records assumptions  *)
(* and generates known unknowns for what is missing.  Of every component   *)
(* that was validated every property is as the author gave it, or a        *)
(* default that is listed as an assumption, or nil and listed as a known   *)
(* unknown, and no property its type declares is left out.                 *)
GivenAssumedOrUnknown ==
  \A i \in DOMAIN model.Components :
    LET c == model.Components[i]
    IN  i < component =>
          /\ DOMAIN c.Properties \subseteq DOMAIN properties[i]
          /\ c.Type \in DOMAIN nodes => DOMAIN Declared(c) \subseteq DOMAIN properties[i]
          /\ \A name \in DOMAIN properties[i] :
               \/ IsGiven(c, name, properties[i][name])
               \/ /\ name \notin DOMAIN c.Properties
                  /\ IF properties[i][name] = Null
                     THEN MissingProperty(c, name) \in knownUnknowns
                     ELSE Assumption(c, name, properties[i][name]) \in assumptions
=============================================================================
