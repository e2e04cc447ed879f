------------------------------ MODULE Registry ------------------------------
(***************************************************************************)
(* BuildRegistry of internal/loader/loader.go: six loops that add the      *)
(* definitions of a model file, of $MODELR_PATH and of the binary to two   *)
(* maps, the first of a name winning, with a shadow event for each that is *)
(* skipped.                                                                *)
(*                                                                         *)
(* A definition is a record with a Name, a Source and a body that this     *)
(* module does not look at.                                                *)
(***************************************************************************)
EXTENDS Naturals, Sequences

CONSTANT Definitions     \* the definitions there may be

ASSUME DefinitionsAssumption == \A d \in Definitions : {"Name", "Source"} \subseteq DOMAIN d

Classes == {"inline", "path", "embedded"}
Kinds == {"node", "relationship"}

(* What BuildRegistry may be given: definitions by class and kind. *)
Sources == [Classes -> [Kinds -> Seq(Definitions)]]

VARIABLES
  sources,       \* the DefinitionSources and the embedded definitions
  class, kind,   \* the loop that runs, class 4 after the last
  at,            \* its position
  nodes, rels,   \* the two maps: definitions by name
  shadows        \* the shadow events so far

registryVars == <<sources, class, kind, at, nodes, rels, shadows>>

Empty == [name \in {} |-> << >>]

(* A map with one more definition. *)
Put(map, def) ==
  [name \in DOMAIN map \cup {def.Name} |-> IF name = def.Name THEN def ELSE map[name]]

Shadow(of, winner, def) ==
  [Kind |-> of, Name |-> def.Name, Winner |-> winner.Source, Shadowed |-> def.Source]

(* Mutant: the path before the model file. *)
ResolutionPathFirst == <<"path", "inline", "embedded">>

(* "Resolution order: inline (highest priority) -> path -> embedded". *)
Resolution == <<"inline", "path", "embedded">>

(* What the loops see: an inline definition has no source of its own. *)
Defs(c, k) == sources[Resolution[c]][k]
Sourced(c, def) ==
  IF Resolution[c] = "inline" /\ def.Source = "none"
  THEN [def EXCEPT !.Source = "inline"] ELSE def
Def(c, k, n) == Sourced(c, Defs(c, k)[n])

RegistryStart ==
  /\ class = 1 /\ kind = "node" /\ at = 1
  /\ nodes = Empty /\ rels = Empty
  /\ shadows = << >>

RegistryInit == sources \in Sources /\ RegistryStart

Built == class = 4
InLoop(k) == ~Built /\ kind = k /\ at <= Len(Defs(class, k))

(* Mutant: the event names the two the wrong way round. *)
AddSwapped(map, def) ==
  IF def.Name \in DOMAIN map
  THEN shadows' = Append(shadows, Shadow(kind, def, map[def.Name])) /\ UNCHANGED map
  ELSE map' = Put(map, def) /\ UNCHANGED shadows

(* AddNode and AddRelationship on the map of their kind. *)
Add(map, def) ==
  IF def.Name \in DOMAIN map
  THEN shadows' = Append(shadows, Shadow(kind, map[def.Name], def)) /\ UNCHANGED map
  ELSE map' = Put(map, def) /\ UNCHANGED shadows

AddNode ==
  /\ InLoop("node")
  /\ Add(nodes, Def(class, kind, at))
  /\ at' = at + 1
  /\ UNCHANGED <<sources, class, kind, rels>>

AddRelationship ==
  /\ InLoop("relationship")
  /\ Add(rels, Def(class, kind, at))
  /\ at' = at + 1
  /\ UNCHANGED <<sources, class, kind, nodes>>

(* A loop ends: the relationships of a class after its nodes. *)
NextLoop ==
  /\ ~Built /\ ~InLoop(kind)
  /\ IF kind = "node" THEN kind' = "relationship" /\ UNCHANGED class
     ELSE kind' = "node" /\ class' = class + 1
  /\ at' = 1
  /\ UNCHANGED <<sources, nodes, rels, shadows>>

BuildStep == AddNode \/ AddRelationship \/ NextLoop

RegistrySpec == RegistryInit /\ [][BuildStep]_registryVars

-----------------------------------------------------------------------------
(* What a registry guarantees. *)

Priority == [inline |-> 1, path |-> 2, embedded |-> 3]

Map(k) == IF k = "node" THEN nodes ELSE rels

(* A definition of the sources, as LookupNode and Sources show it. *)
Given(c, k, n) ==
  IF c = "inline" /\ sources[c][k][n].Source = "none"
  THEN [sources[c][k][n] EXCEPT !.Source = "inline"] ELSE sources[c][k][n]

(* The n-th definition of a class and the m-th of d compete, and the first *)
(* has precedence.                                                         *)
Beats(k, c, n, d, m) ==
  /\ sources[c][k][n].Name = sources[d][k][m].Name
  /\ Priority[c] < Priority[d] \/ (c = d /\ n < m)

Wins(k, c, n) ==
  \A d \in Classes : \A m \in DOMAIN sources[d][k] : ~Beats(k, d, m, c, n)

(* docs/spec.md section 7.3: "Definitions are resolved by kind + name.     *)
(* First match wins."  The model file beats the path, the path the binary, *)
(* and within one of them the earlier definition the later.                *)
FirstMatchWins ==
  Built =>
    \A k \in Kinds, c \in Classes : \A n \in DOMAIN sources[c][k] :
      /\ sources[c][k][n].Name \in DOMAIN Map(k)
      /\ Wins(k, c, n) => Map(k)[sources[c][k][n].Name] = Given(c, k, n)

(* Every definition that lost is reported with the one that won in its     *)
(* place, and nothing else is reported.                                    *)
LosersReported ==
  Built =>
    /\ \A k \in Kinds, c \in Classes : \A n \in DOMAIN sources[c][k] :
         ~Wins(k, c, n) =>
           \E i \in DOMAIN shadows :
             shadows[i] = Shadow(k, Map(k)[sources[c][k][n].Name], Given(c, k, n))
    /\ \A i \in DOMAIN shadows :
         \E k \in Kinds, c \in Classes : \E n \in DOMAIN sources[c][k] :
           /\ ~Wins(k, c, n)
           /\ shadows[i] = Shadow(k, Map(k)[sources[c][k][n].Name], Given(c, k, n))
=============================================================================
