------------------------- MODULE CheckCommandProofs -------------------------
(***************************************************************************)
(* The commands validate, check and visualize, for any definitions, any    *)
(* files and any reading of the expressions.                               *)
(*                                                                         *)
(* The registry: the first match wins and every loser is reported.  The    *)
(* loops visit the definitions of a kind in the order of precedence.  The  *)
(* invariant says of the definitions visited so far what the two           *)
(* properties say of all: their names are in the map, what the map holds   *)
(* of a name is the visited definition that wins, and the events are those *)
(* of the visited losers.                                                  *)
(*                                                                         *)
(* Validate: where the values it leaves in the model come from.  The       *)
(* property speaks of the components the first loop has visited; to be     *)
(* inductive it needs that the others are still what the author wrote, and *)
(* that the registry is not built any more when the loop has begun.  A     *)
(* second invariant says the same of the warnings of both loops.           *)
(*                                                                         *)
(* The evaluator is a function of the nodes of an expression, defined for  *)
(* every list in which operands come before their node; that a null of an  *)
(* operand is a null of the node, unless it calls max, carries a value     *)
(* from any null to every number.                                          *)
(*                                                                         *)
(* The check: what the results hold of the checks the loops have gone past *)
(* is exact, and an error is the last of them.  With what has been written *)
(* being what the finished check gives, the properties of the report, of   *)
(* the drawing and of the verdicts follow.                                 *)
(***************************************************************************)
EXTENDS CheckCommand, WellFoundedInduction, TLAPS

USE DefinitionsAssumption

(* The loop at (class, kind, at) has gone past a definition. *)
Visited(k, c, n) ==
  \/ Priority[c] < class
  \/ /\ Priority[c] = class
     /\ (k = "node" /\ kind = "relationship") \/ (k = kind /\ n < at)

Name(c, k, n) == sources[c][k][n].Name

LoopType ==
  /\ sources \in Sources
  /\ class \in 1 .. 4 /\ kind \in Kinds /\ at \in Nat \ {0}
  /\ Built => kind = "node" /\ at = 1

NamesIn ==
  \A k \in Kinds, c \in Classes : \A n \in DOMAIN sources[c][k] :
    Visited(k, c, n) => Name(c, k, n) \in DOMAIN Map(k)

HeldBy(k, name) ==
  \E c \in Classes : \E n \in DOMAIN sources[c][k] :
    /\ Visited(k, c, n) /\ Wins(k, c, n)
    /\ name = Name(c, k, n) /\ Map(k)[name] = Given(c, k, n)

WinnersHeld == \A k \in Kinds : \A name \in DOMAIN Map(k) : HeldBy(k, name)

Event(k, c, n) == Shadow(k, Map(k)[Name(c, k, n)], Given(c, k, n))

LosersIn ==
  \A k \in Kinds, c \in Classes : \A n \in DOMAIN sources[c][k] :
    Visited(k, c, n) /\ ~Wins(k, c, n) =>
      \E i \in DOMAIN shadows : shadows[i] = Event(k, c, n)

EventsOf ==
  /\ \E S : shadows \in Seq(S)
  /\ \A i \in DOMAIN shadows :
       \E k \in Kinds, c \in Classes : \E n \in DOMAIN sources[c][k] :
         Visited(k, c, n) /\ ~Wins(k, c, n) /\ shadows[i] = Event(k, c, n)

BuildInv == LoopType /\ NamesIn /\ WinnersHeld /\ LosersIn /\ EventsOf

-----------------------------------------------------------------------------
(* The order of the loops is the order of precedence. *)
LEMMA LoopOrder ==
  /\ \A c \in 1 .. 3 : Resolution[c] \in Classes /\ Priority[Resolution[c]] = c
  /\ \A c \in Classes : Priority[c] \in 1 .. 3 /\ Resolution[Priority[c]] = c
  /\ \A c, d \in Classes : Priority[c] = Priority[d] => c = d
<1>1. ASSUME NEW c \in 1 .. 3
      PROVE  Resolution[c] \in Classes /\ Priority[Resolution[c]] = c
  <2>1. c = 1 \/ c = 2 \/ c = 3
    OBVIOUS
  <2>2. QED
    BY <2>1 DEF Resolution, Classes, Priority
<1>2. ASSUME NEW c \in Classes
      PROVE  Priority[c] \in 1 .. 3 /\ Resolution[Priority[c]] = c
  BY DEF Resolution, Classes, Priority
<1>3. QED
  BY <1>1, <1>2

(* Two winners of a name are the same definition. *)
LEMMA OneWinner ==
  ASSUME sources \in Sources, NEW k \in Kinds, NEW c \in Classes, NEW d \in Classes,
         NEW n \in DOMAIN sources[c][k], NEW m \in DOMAIN sources[d][k],
         Name(c, k, n) = Name(d, k, m), Wins(k, c, n), Wins(k, d, m)
  PROVE  c = d /\ n = m
<1>1. sources[c][k] \in Seq(Definitions) /\ sources[d][k] \in Seq(Definitions)
  BY DEF Sources
<1>2. n \in Nat /\ m \in Nat
  BY <1>1
<1>3. ~Beats(k, c, n, d, m) /\ ~Beats(k, d, m, c, n)
  BY DEF Wins
<1>4. Priority[c] \in 1 .. 3 /\ Priority[d] \in 1 .. 3
  BY LoopOrder
<1>5. Priority[c] = Priority[d] /\ ~(c = d /\ (n < m \/ m < n))
  BY <1>3, <1>4 DEF Beats, Name
<1>6. QED
  BY <1>2, <1>5, LoopOrder

(* The definition a loop looks at. *)
LEMMA Current ==
  ASSUME LoopType, NEW k \in Kinds, InLoop(k)
  PROVE  /\ class \in 1 .. 3 /\ k = kind
         /\ Resolution[class] \in Classes
         /\ at \in DOMAIN sources[Resolution[class]][kind]
         /\ Def(class, kind, at) = Given(Resolution[class], kind, at)
         /\ Def(class, kind, at).Name = Name(Resolution[class], kind, at)
         /\ \A c \in Classes : \A n \in DOMAIN sources[c][kind] :
              Visited(kind, c, n) <=>
                Priority[c] < class \/ (c = Resolution[class] /\ n < at)
<1>1. class \in 1 .. 3 /\ k = kind
  BY DEF LoopType, InLoop, Built
<1>2. Resolution[class] \in Classes /\ Priority[Resolution[class]] = class
  BY <1>1, LoopOrder
<1>3. sources[Resolution[class]][kind] \in Seq(Definitions)
  BY <1>2 DEF LoopType, Sources
<1>4. at \in DOMAIN sources[Resolution[class]][kind]
  BY <1>1, <1>3 DEF InLoop, LoopType, Defs
<1>5. sources[Resolution[class]][kind][at] \in Definitions
  BY <1>3, <1>4
<1>6. Def(class, kind, at) = Given(Resolution[class], kind, at)
  BY DEF Def, Sourced, Defs, Given
<1>7. Def(class, kind, at).Name = Name(Resolution[class], kind, at)
  BY <1>5, <1>6 DEF Given, Name
<1>8. ASSUME NEW c \in Classes, NEW n \in DOMAIN sources[c][kind]
      PROVE  Visited(kind, c, n) <=>
               Priority[c] < class \/ (c = Resolution[class] /\ n < at)
  BY <1>1, <1>2, LoopOrder DEF Visited, LoopType, Kinds
<1>9. QED
  BY <1>1, <1>2, <1>4, <1>6, <1>7, <1>8

(* A step of a loop visits the definition it looks at and no other.        *)
LEMMA VisitsOne ==
  ASSUME LoopType, InLoop(kind), at' = at + 1, UNCHANGED <<sources, class, kind>>,
         NEW k \in Kinds, NEW c \in Classes, NEW n \in DOMAIN sources[c][k]
  PROVE  Visited(k, c, n)' <=>
           Visited(k, c, n) \/ (k = kind /\ c = Resolution[class] /\ n = at)
<1>1. sources[c][k] \in Seq(Definitions)
  BY DEF LoopType, Sources
<1>2. n \in Nat /\ at \in Nat /\ Priority[c] \in 1 .. 3
  BY <1>1, LoopOrder DEF LoopType
<1>3. Priority[c] = class <=> c = Resolution[class]
  BY LoopOrder DEF LoopType, InLoop, Built
<1>4. QED
  BY <1>2, <1>3 DEF Visited, Kinds, LoopType

(* What beats the definition a loop looks at has been visited.             *)
LEMMA BeatenByVisited ==
  ASSUME LoopType, InLoop(kind), NEW d \in Classes, NEW m \in DOMAIN sources[d][kind],
         Beats(kind, d, m, Resolution[class], at)
  PROVE  Visited(kind, d, m) /\ Name(d, kind, m) = Name(Resolution[class], kind, at)
<1>1. kind \in Kinds /\ Priority[Resolution[class]] = class
  BY LoopOrder DEF LoopType, InLoop, Built
<1>2. QED
  BY <1>1 DEF Beats, Visited, Name

LEMMA EventAppended ==
  ASSUME \E S : shadows \in Seq(S), NEW event, shadows' = Append(shadows, event)
  PROVE  /\ (\E S : shadows \in Seq(S))'
         /\ DOMAIN shadows' = DOMAIN shadows \cup {Len(shadows) + 1}
         /\ \A i \in DOMAIN shadows : shadows'[i] = shadows[i]
         /\ shadows'[Len(shadows) + 1] = event
<1>1. PICK S : shadows \in Seq(S)
  OBVIOUS
<1>2. shadows \in Seq(S \cup {event})
  BY <1>1
<1>3. shadows' \in Seq(S \cup {event})
  BY <1>2
<1>4. QED
  BY <1>2, <1>3

-----------------------------------------------------------------------------
(* AddNode and AddRelationship are the same step on either map. *)

Advances ==
  /\ InLoop(kind)
  /\ at' = at + 1
  /\ UNCHANGED <<sources, class, kind>>
  /\ \A k \in Kinds \ {kind} : Map(k)' = Map(k)

Candidate == Def(class, kind, at)

AddsNew ==
  /\ Advances
  /\ Candidate.Name \notin DOMAIN Map(kind)
  /\ Map(kind)' = Put(Map(kind), Candidate)
  /\ UNCHANGED shadows

AddsShadow ==
  /\ Advances
  /\ Candidate.Name \in DOMAIN Map(kind)
  /\ Map(kind)' = Map(kind)
  /\ shadows' = Append(shadows, Shadow(kind, Map(kind)[Candidate.Name], Candidate))

LEMMA AddCases ==
  ASSUME LoopType, AddNode \/ AddRelationship
  PROVE  AddsNew \/ AddsShadow
<1>1. CASE AddNode
  <2>1. InLoop("node") /\ kind = "node" /\ kind' = "node"
    BY <1>1 DEF AddNode, InLoop
  <2>2. Map(kind) = nodes /\ Map(kind)' = nodes' /\ \A k \in Kinds \ {kind} : Map(k)' = Map(k)
    BY <1>1, <2>1 DEF Map, AddNode, Kinds
  <2>3. QED
    BY <1>1, <2>1, <2>2 DEF AddNode, Add, AddsNew, AddsShadow, Advances, Candidate
<1>2. CASE AddRelationship
  <2>1. InLoop("relationship") /\ kind = "relationship" /\ kind' = "relationship"
    BY <1>2 DEF AddRelationship, InLoop
  <2>2. Map(kind) = rels /\ Map(kind)' = rels' /\ \A k \in Kinds \ {kind} : Map(k)' = Map(k)
    BY <1>2, <2>1 DEF Map, AddRelationship, Kinds
  <2>3. QED
    BY <1>2, <2>1, <2>2 DEF AddRelationship, Add, AddsNew, AddsShadow, Advances, Candidate
<1>3. QED
  BY <1>1, <1>2

LEMMA TypeStep ==
  ASSUME LoopType, Advances
  PROVE  LoopType'
BY DEF LoopType, Advances, InLoop, Built

(* What of the sources decides who wins does not change. *)
LEMMA SameSources ==
  ASSUME UNCHANGED sources, NEW k, NEW c, NEW n
  PROVE  /\ Wins(k, c, n)' = Wins(k, c, n)
         /\ Name(c, k, n)' = Name(c, k, n)
         /\ Given(c, k, n)' = Given(c, k, n)
BY DEF Wins, Beats, Name, Given

(* A definition whose name is new is the one that wins.                    *)
LEMMA NewStep ==
  ASSUME BuildInv, AddsNew
  PROVE  BuildInv'
<1> DEFINE r == Resolution[class]
<1>1. LoopType /\ Advances /\ InLoop(kind) /\ kind \in Kinds
  BY DEF BuildInv, AddsNew, Advances, LoopType
<1>2. /\ r \in Classes /\ at \in DOMAIN sources[r][kind]
      /\ Candidate = Given(r, kind, at) /\ Candidate.Name = Name(r, kind, at)
  BY <1>1, Current DEF Candidate
<1>3. LoopType'
  BY <1>1, TypeStep
<1>4. UNCHANGED <<sources, class, kind, shadows>> /\ at' = at + 1
  BY DEF AddsNew, Advances
<1>5. /\ DOMAIN Map(kind)' = DOMAIN Map(kind) \cup {Name(r, kind, at)}
      /\ Map(kind)'[Name(r, kind, at)] = Given(r, kind, at)
      /\ \A name \in DOMAIN Map(kind) : Map(kind)'[name] = Map(kind)[name]
      /\ Name(r, kind, at) \notin DOMAIN Map(kind)
  BY <1>2 DEF AddsNew, Put
<1>6. \A k \in Kinds : /\ DOMAIN Map(k) \subseteq DOMAIN Map(k)'
                       /\ \A name \in DOMAIN Map(k) : Map(k)'[name] = Map(k)[name]
  BY <1>4, <1>5 DEF AddsNew, Advances
<1>7. \A k \in Kinds, c \in Classes : \A n \in DOMAIN sources[c][k] :
        Visited(k, c, n)' <=> Visited(k, c, n) \/ (k = kind /\ c = r /\ n = at)
  BY <1>1, <1>4, VisitsOne
<1>8. Wins(kind, r, at)
  <2>1. SUFFICES ASSUME NEW d \in Classes, NEW m \in DOMAIN sources[d][kind],
                        Beats(kind, d, m, r, at)
                 PROVE  FALSE
    BY DEF Wins
  <2>2. Visited(kind, d, m) /\ Name(d, kind, m) = Name(r, kind, at)
    BY <1>1, <2>1, BeatenByVisited
  <2>3. QED
    BY <1>1, <1>5, <2>2 DEF BuildInv, NamesIn
<1>9. NamesIn'
  <2>1. SUFFICES ASSUME NEW k \in Kinds, NEW c \in Classes, NEW n \in DOMAIN sources[c][k],
                        Visited(k, c, n)'
                 PROVE  Name(c, k, n) \in DOMAIN Map(k)'
    BY <1>4, SameSources DEF NamesIn
  <2>2. CASE Visited(k, c, n)
    BY <1>6, <2>2 DEF BuildInv, NamesIn
  <2>3. CASE k = kind /\ c = r /\ n = at
    BY <1>5, <2>3, <1>4 DEF Map
  <2>4. QED
    BY <1>7, <2>1, <2>2, <2>3
<1>10. WinnersHeld'
  <2>1. SUFFICES ASSUME NEW k \in Kinds, NEW name \in DOMAIN Map(k)'
                 PROVE  \E c \in Classes : \E n \in DOMAIN sources[c][k] :
                          /\ Visited(k, c, n)' /\ Wins(k, c, n)
                          /\ name = Name(c, k, n) /\ Map(k)'[name] = Given(c, k, n)
    BY <1>4, SameSources DEF WinnersHeld, HeldBy
  <2>2. CASE name \in DOMAIN Map(k)
    <3>1. PICK c \in Classes : \E n \in DOMAIN sources[c][k] :
            /\ Visited(k, c, n) /\ Wins(k, c, n)
            /\ name = Name(c, k, n) /\ Map(k)[name] = Given(c, k, n)
      BY <2>2 DEF BuildInv, WinnersHeld, HeldBy
    <3>2. QED
      BY <1>6, <1>7, <2>2, <3>1
  <2>3. CASE name \notin DOMAIN Map(k)
    <3>1. k = kind /\ name = Name(r, kind, at)
      BY <1>4, <1>5, <2>1, <2>3 DEF AddsNew, Advances
    <3>2. QED
      BY <1>2, <1>5, <1>7, <1>8, <1>4, <3>1
  <2>4. QED
    BY <2>2, <2>3
<1>11. LosersIn'
  <2>1. SUFFICES ASSUME NEW k \in Kinds, NEW c \in Classes, NEW n \in DOMAIN sources[c][k],
                        Visited(k, c, n)', ~Wins(k, c, n)
                 PROVE  \E i \in DOMAIN shadows : shadows[i] = Event(k, c, n)'
    BY <1>4, SameSources DEF LosersIn
  <2>2. Visited(k, c, n)
    BY <1>7, <1>8, <2>1
  <2>3. Event(k, c, n)' = Event(k, c, n)
    BY <1>4, <1>6, <2>2, SameSources DEF Event, BuildInv, NamesIn, Shadow
  <2>4. QED
    BY <2>1, <2>2, <2>3 DEF BuildInv, LosersIn
<1>12. EventsOf'
  <2>1. SUFFICES ASSUME NEW i \in DOMAIN shadows
                 PROVE  \E k \in Kinds, c \in Classes : \E n \in DOMAIN sources[c][k] :
                          Visited(k, c, n)' /\ ~Wins(k, c, n) /\ shadows[i] = Event(k, c, n)'
    BY <1>4, SameSources DEF EventsOf, BuildInv
  <2>2. PICK k \in Kinds, c \in Classes : \E n \in DOMAIN sources[c][k] :
          Visited(k, c, n) /\ ~Wins(k, c, n) /\ shadows[i] = Event(k, c, n)
    BY <2>1 DEF EventsOf, BuildInv
  <2>3. PICK n \in DOMAIN sources[c][k] :
          Visited(k, c, n) /\ ~Wins(k, c, n) /\ shadows[i] = Event(k, c, n)
    BY <2>2
  <2>4. Event(k, c, n)' = Event(k, c, n)
    BY <1>4, <1>6, <2>3, SameSources DEF Event, BuildInv, NamesIn, Shadow
  <2>5. QED
    BY <1>7, <2>3, <2>4
<1>13. QED
  BY <1>3, <1>9, <1>10, <1>11, <1>12 DEF BuildInv

(* A definition whose name is there already has been beaten by the one     *)
(* that is there, and the event says so.                                   *)
LEMMA ShadowStep ==
  ASSUME BuildInv, AddsShadow
  PROVE  BuildInv'
<1> DEFINE r == Resolution[class]
<1>1. LoopType /\ Advances /\ InLoop(kind) /\ kind \in Kinds
  BY DEF BuildInv, AddsShadow, Advances, LoopType
<1>2. /\ r \in Classes /\ at \in DOMAIN sources[r][kind] /\ class \in 1 .. 3
      /\ Candidate = Given(r, kind, at) /\ Candidate.Name = Name(r, kind, at)
      /\ \A c \in Classes : \A n \in DOMAIN sources[c][kind] :
           Visited(kind, c, n) <=> Priority[c] < class \/ (c = r /\ n < at)
  BY <1>1, Current DEF Candidate
<1>3. LoopType'
  BY <1>1, TypeStep
<1>4. UNCHANGED <<sources, class, kind>> /\ at' = at + 1
  BY DEF AddsShadow, Advances
<1>5. \A k \in Kinds : Map(k)' = Map(k)
  BY <1>4 DEF AddsShadow, Advances
<1>6. /\ Name(r, kind, at) \in DOMAIN Map(kind)
      /\ shadows' = Append(shadows, Event(kind, r, at))
  BY <1>2 DEF AddsShadow, Event
<1>7. \A k \in Kinds, c \in Classes : \A n \in DOMAIN sources[c][k] :
        Visited(k, c, n)' <=> Visited(k, c, n) \/ (k = kind /\ c = r /\ n = at)
  BY <1>1, <1>4, VisitsOne
<1>8. ~Wins(kind, r, at)
  <2>1. PICK c \in Classes : \E n \in DOMAIN sources[c][kind] :
          Visited(kind, c, n) /\ Name(c, kind, n) = Name(r, kind, at)
    BY <1>1, <1>6 DEF BuildInv, WinnersHeld, HeldBy
  <2>2. PICK n \in DOMAIN sources[c][kind] :
          Visited(kind, c, n) /\ Name(c, kind, n) = Name(r, kind, at)
    BY <2>1
  <2>3. Priority[c] < class \/ (c = r /\ n < at)
    BY <1>2, <2>2
  <2>4. Priority[r] = class
    BY <1>2, LoopOrder
  <2>5. Beats(kind, c, n, r, at)
    BY <2>2, <2>3, <2>4 DEF Beats, Name
  <2>6. QED
    BY <2>5 DEF Wins
<1>9. /\ (\E S : shadows \in Seq(S))'
      /\ DOMAIN shadows' = DOMAIN shadows \cup {Len(shadows) + 1}
      /\ \A i \in DOMAIN shadows : shadows'[i] = shadows[i]
      /\ shadows'[Len(shadows) + 1] = Event(kind, r, at)
  BY <1>6, EventAppended DEF BuildInv, EventsOf
<1>10. \A k \in Kinds, c \in Classes : \A n \in DOMAIN sources[c][k] :
         Event(k, c, n)' = Event(k, c, n)
  BY <1>4, <1>5, SameSources DEF Event, Shadow
<1>11. NamesIn'
  BY <1>4, <1>5, <1>6, <1>7, SameSources DEF NamesIn, BuildInv
<1>12. WinnersHeld'
  <2>1. SUFFICES ASSUME NEW k \in Kinds, NEW name \in DOMAIN Map(k)
                 PROVE  \E c \in Classes : \E n \in DOMAIN sources[c][k] :
                          /\ Visited(k, c, n)' /\ Wins(k, c, n)
                          /\ name = Name(c, k, n) /\ Map(k)[name] = Given(c, k, n)
    BY <1>4, <1>5, SameSources DEF WinnersHeld, HeldBy
  <2>2. PICK c \in Classes : \E n \in DOMAIN sources[c][k] :
          /\ Visited(k, c, n) /\ Wins(k, c, n)
          /\ name = Name(c, k, n) /\ Map(k)[name] = Given(c, k, n)
    BY <2>1 DEF BuildInv, WinnersHeld, HeldBy
  <2>3. QED
    BY <1>7, <2>2
<1>13. LosersIn'
  <2>1. SUFFICES ASSUME NEW k \in Kinds, NEW c \in Classes, NEW n \in DOMAIN sources[c][k],
                        Visited(k, c, n)', ~Wins(k, c, n)
                 PROVE  \E i \in DOMAIN shadows' : shadows'[i] = Event(k, c, n)
    BY <1>4, <1>10, SameSources DEF LosersIn
  <2>2. CASE Visited(k, c, n)
    <3>1. PICK i \in DOMAIN shadows : shadows[i] = Event(k, c, n)
      BY <2>1, <2>2 DEF BuildInv, LosersIn
    <3>2. QED
      BY <1>9, <3>1
  <2>3. CASE k = kind /\ c = r /\ n = at
    BY <1>9, <2>3
  <2>4. QED
    BY <1>7, <2>1, <2>2, <2>3
<1>14. EventsOf'
  <2>1. SUFFICES ASSUME NEW i \in DOMAIN shadows'
                 PROVE  \E k \in Kinds, c \in Classes : \E n \in DOMAIN sources[c][k] :
                          Visited(k, c, n)' /\ ~Wins(k, c, n) /\ shadows'[i] = Event(k, c, n)
    BY <1>4, <1>9, <1>10, SameSources DEF EventsOf
  <2>2. CASE i \in DOMAIN shadows
    <3>1. PICK k \in Kinds, c \in Classes : \E n \in DOMAIN sources[c][k] :
            Visited(k, c, n) /\ ~Wins(k, c, n) /\ shadows[i] = Event(k, c, n)
      BY <2>2 DEF BuildInv, EventsOf
    <3>2. QED
      BY <1>7, <1>9, <2>2, <3>1
  <2>3. CASE i = Len(shadows) + 1
    <3>1. PICK k \in Kinds, c \in Classes : k = kind /\ c = r
      BY <1>1, <1>2
    <3>2. PICK n \in DOMAIN sources[c][k] : n = at
      BY <1>2, <3>1
    <3>3. Visited(k, c, n)' /\ ~Wins(k, c, n)
      BY <1>7, <1>8, <3>1, <3>2
    <3>4. shadows'[i] = Event(k, c, n)
      BY <1>9, <2>3, <3>1, <3>2
    <3>5. QED
      BY <3>3, <3>4
  <2>4. QED
    BY <1>9, <2>1, <2>2, <2>3
<1>15. QED
  BY <1>3, <1>11, <1>12, <1>13, <1>14 DEF BuildInv

(* The end of a loop leaves the visited definitions what they were.        *)
LEMMA LoopStep ==
  ASSUME BuildInv, NextLoop
  PROVE  BuildInv'
<1>1. UNCHANGED <<sources, nodes, rels, shadows>> /\ LoopType
  BY DEF NextLoop, BuildInv
<1>2. LoopType'
  BY <1>1 DEF LoopType, NextLoop, Built, Kinds
<1>3. class \in 1 .. 3 /\ Resolution[class] \in Classes /\ Priority[Resolution[class]] = class
  BY <1>1, LoopOrder DEF LoopType, NextLoop, Built
<1>4. \A n \in DOMAIN sources[Resolution[class]][kind] : n < at
  <2>1. sources[Resolution[class]][kind] \in Seq(Definitions)
    BY <1>1, <1>3 DEF LoopType, Sources
  <2>2. at > Len(sources[Resolution[class]][kind])
    BY <1>1, <1>3, <2>1 DEF NextLoop, InLoop, Defs, LoopType
  <2>3. QED
    BY <1>1, <2>1, <2>2 DEF LoopType
<1>5. \A k \in Kinds, c \in Classes : \A n \in DOMAIN sources[c][k] :
        Visited(k, c, n)' <=> Visited(k, c, n)
  <2>1. SUFFICES ASSUME NEW k \in Kinds, NEW c \in Classes, NEW n \in DOMAIN sources[c][k]
                 PROVE  Visited(k, c, n)' <=> Visited(k, c, n)
    OBVIOUS
  <2>2. Priority[c] \in 1 .. 3 /\ (Priority[c] = class => c = Resolution[class])
    BY LoopOrder
  <2>3. n \in Nat \ {0}
    <3>1. sources[c][k] \in Seq(Definitions)
      BY <1>1 DEF LoopType, Sources
    <3>2. QED
      BY <3>1
  <2>4. CASE kind = "node"
    <3>1. kind' = "relationship" /\ class' = class /\ at' = 1
      BY <2>4 DEF NextLoop
    <3>2. QED
      BY <1>3, <1>4, <2>2, <2>3, <2>4, <3>1 DEF Visited, Kinds
  <2>5. CASE kind = "relationship"
    <3>1. kind' = "node" /\ class' = class + 1 /\ at' = 1
      BY <2>5 DEF NextLoop
    <3>2. QED
      BY <1>3, <1>4, <2>2, <2>3, <2>5, <3>1 DEF Visited, Kinds
  <2>6. QED
    BY <1>1, <2>4, <2>5 DEF LoopType, Kinds
<1>6. \A k : Map(k)' = Map(k)
  BY <1>1 DEF Map
<1>7. \A k, c, n : Event(k, c, n)' = Event(k, c, n)
  BY <1>1, <1>6, SameSources DEF Event, Shadow
<1>8. NamesIn' /\ WinnersHeld' /\ LosersIn' /\ EventsOf'
  <2>1. NamesIn'
    BY <1>1, <1>5, <1>6, SameSources DEF NamesIn, BuildInv
  <2>2. WinnersHeld'
    BY <1>1, <1>5, <1>6, SameSources DEF WinnersHeld, HeldBy, BuildInv
  <2>3. LosersIn'
    BY <1>1, <1>5, <1>7, SameSources DEF LosersIn, BuildInv
  <2>4. EventsOf'
    BY <1>1, <1>5, <1>7, SameSources DEF EventsOf, BuildInv
  <2>5. QED
    BY <2>1, <2>2, <2>3, <2>4
<1>9. QED
  BY <1>2, <1>8 DEF BuildInv

-----------------------------------------------------------------------------
LEMMA BuildInvInit == RegistryInit => BuildInv
<1>1. SUFFICES ASSUME RegistryInit PROVE BuildInv
  OBVIOUS
<1>2. LoopType
  BY <1>1 DEF RegistryInit, RegistryStart, LoopType, Kinds, Built
<1>3. \A k \in Kinds : DOMAIN Map(k) = {}
  BY <1>1 DEF RegistryInit, RegistryStart, Map, Empty
<1>4. \A k \in Kinds, c \in Classes : \A n \in DOMAIN sources[c][k] : ~Visited(k, c, n)
  <2>1. SUFFICES ASSUME NEW k \in Kinds, NEW c \in Classes, NEW n \in DOMAIN sources[c][k]
                 PROVE  ~Visited(k, c, n)
    OBVIOUS
  <2>2. sources[c][k] \in Seq(Definitions)
    BY <1>2 DEF LoopType, Sources
  <2>3. n \in Nat \ {0} /\ Priority[c] \in 1 .. 3
    BY <2>2, LoopOrder
  <2>4. QED
    BY <1>1, <2>3 DEF RegistryInit, RegistryStart, Visited
<1>5. EventsOf
  <2>1. shadows = << >>
    BY <1>1 DEF RegistryInit, RegistryStart
  <2>2. shadows \in Seq({})
    BY <2>1
  <2>3. QED
    BY <2>1, <2>2 DEF EventsOf
<1>6. QED
  BY <1>2, <1>3, <1>4, <1>5 DEF BuildInv, NamesIn, WinnersHeld, LosersIn

LEMMA BuildInvStutter ==
  ASSUME BuildInv, UNCHANGED registryVars
  PROVE  BuildInv'
<1>1. UNCHANGED <<sources, class, kind, at, nodes, rels, shadows>>
  BY DEF registryVars
<1>2. LoopType'
  BY <1>1 DEF BuildInv, LoopType, Built
<1>3. \A k, c, n : /\ Visited(k, c, n)' = Visited(k, c, n) /\ Map(k)' = Map(k)
                   /\ Event(k, c, n)' = Event(k, c, n)
  BY <1>1, SameSources DEF Visited, Map, Event, Shadow
<1>4. NamesIn' /\ WinnersHeld'
  BY <1>1, <1>3, SameSources DEF BuildInv, NamesIn, WinnersHeld, HeldBy
<1>5. LosersIn' /\ EventsOf'
  BY <1>1, <1>3, SameSources DEF BuildInv, LosersIn, EventsOf
<1>6. QED
  BY <1>2, <1>4, <1>5 DEF BuildInv

LEMMA BuildInvStep ==
  ASSUME BuildInv, [BuildStep]_registryVars
  PROVE  BuildInv'
BY AddCases, NewStep, ShadowStep, LoopStep, BuildInvStutter DEF BuildStep, BuildInv

(* The invariant of the three loops.                                       *)
THEOREM RegistryInvariant == RegistrySpec => []BuildInv
BY BuildInvInit, BuildInvStep, PTL DEF RegistrySpec

(* When the loops are over every definition has been visited.              *)
LEMMA AllVisited ==
  ASSUME LoopType, Built, NEW k \in Kinds, NEW c \in Classes, NEW n
  PROVE  Visited(k, c, n)
BY LoopOrder DEF Built, Visited

LEMMA WinnersFound == BuildInv => FirstMatchWins
<1>1. SUFFICES ASSUME BuildInv PROVE FirstMatchWins
  OBVIOUS
<1>2. SUFFICES ASSUME Built, NEW k \in Kinds, NEW c \in Classes, NEW n \in DOMAIN sources[c][k]
               PROVE  /\ sources[c][k][n].Name \in DOMAIN Map(k)
                      /\ Wins(k, c, n) => Map(k)[sources[c][k][n].Name] = Given(c, k, n)
  BY DEF FirstMatchWins
<1>3. Name(c, k, n) \in DOMAIN Map(k)
  BY <1>1, <1>2, AllVisited DEF BuildInv, NamesIn
<1>4. ASSUME Wins(k, c, n) PROVE Map(k)[Name(c, k, n)] = Given(c, k, n)
  <2>1. PICK d \in Classes : \E m \in DOMAIN sources[d][k] :
          /\ Wins(k, d, m) /\ Name(c, k, n) = Name(d, k, m)
          /\ Map(k)[Name(c, k, n)] = Given(d, k, m)
    BY <1>1, <1>3 DEF BuildInv, WinnersHeld, HeldBy
  <2>2. PICK m \in DOMAIN sources[d][k] :
          /\ Wins(k, d, m) /\ Name(c, k, n) = Name(d, k, m)
          /\ Map(k)[Name(c, k, n)] = Given(d, k, m)
    BY <2>1
  <2>3. c = d /\ n = m
    BY <1>1, <1>4, <2>2, OneWinner DEF BuildInv, LoopType
  <2>4. QED
    BY <2>2, <2>3
<1>5. QED
  BY <1>3, <1>4 DEF Name

LEMMA LosersFound == BuildInv => LosersReported
<1>1. SUFFICES ASSUME BuildInv, Built PROVE LosersReported
  BY DEF LosersReported
<1>2. ASSUME NEW k \in Kinds, NEW c \in Classes, NEW n \in DOMAIN sources[c][k],
             ~Wins(k, c, n)
      PROVE  \E i \in DOMAIN shadows :
               shadows[i] = Shadow(k, Map(k)[sources[c][k][n].Name], Given(c, k, n))
  BY <1>1, <1>2, AllVisited DEF BuildInv, LosersIn, Event, Name
<1>3. ASSUME NEW i \in DOMAIN shadows
      PROVE  \E k \in Kinds, c \in Classes : \E n \in DOMAIN sources[c][k] :
               /\ ~Wins(k, c, n)
               /\ shadows[i] = Shadow(k, Map(k)[sources[c][k][n].Name], Given(c, k, n))
  BY <1>1, <1>3 DEF BuildInv, EventsOf, Event, Name
<1>4. QED
  BY <1>2, <1>3 DEF LosersReported

(* For every number of definitions in every class: the definition found    *)
(* under a name is the one of highest precedence, the model file's before  *)
(* the path's before the binary's, the earlier before the later.           *)
THEOREM FirstMatch == RegistrySpec => []FirstMatchWins
BY WinnersFound, RegistryInvariant, PTL

(* And every definition that loses is reported, with the one that is found *)
(* in its place, and nothing else is.                                      *)
THEOREM EveryLoser == RegistrySpec => []LosersReported
BY LosersFound, RegistryInvariant, PTL

-----------------------------------------------------------------------------
(* Validate. *)

HIDE DefinitionsAssumption
Shape ==
  /\ HasLists(model)
  /\ component \in Nat \ {0}
  /\ component > 1 => Built
  /\ DOMAIN properties = DOMAIN model.Components
  /\ \A i \in DOMAIN model.Components :
       component <= i => properties[i] = model.Components[i].Properties

ValidateInv == Shape /\ GivenAssumedOrUnknown

(* The property of one component. *)
Accounted(i) ==
  LET c == model.Components[i]
  IN  /\ DOMAIN c.Properties \subseteq DOMAIN properties[i]
      /\ c.Type \in DOMAIN nodes => DOMAIN Declared(c) \subseteq DOMAIN properties[i]
      /\ \A name \in DOMAIN properties[i] :
           \/ IsGiven(c, name, properties[i][name])
           \/ /\ name \notin DOMAIN c.Properties
              /\ IF properties[i][name] = Null
                 THEN MissingProperty(c, name) \in knownUnknowns
                 ELSE Assumption(c, name, properties[i][name]) \in assumptions

LEMMA PerComponent ==
  GivenAssumedOrUnknown <=> \A i \in DOMAIN model.Components : i < component => Accounted(i)
BY DEF GivenAssumedOrUnknown, Accounted

LEMMA ValidateInvInit == ValidatorInit => ValidateInv
BY PerComponent, ModelsAssumption DEF ValidatorInit, ValidateInv, Shape, HasLists, IsList

(* A turn of the first loop accounts for its component. *)
LEMMA ComponentStep ==
  ASSUME ValidateInv, ValidateComponent
  PROVE  ValidateInv'
<1> DEFINE c == model.Components[component]
<1>1. /\ Built /\ UNCHANGED <<model, nodes, class>>
      /\ component \in DOMAIN model.Components
      /\ component' = component + 1
  BY DEF ValidateComponent, ValidateInv, Shape, HasLists, IsList, registryVars
<1>2. \A i \in DOMAIN model.Components : i # component => properties'[i] = properties[i]
  BY DEF ValidateComponent, ValidateInv, Shape
<1>3. knownUnknowns \subseteq knownUnknowns' /\ assumptions \subseteq assumptions'
  BY DEF ValidateComponent
<1>4. Shape'
  <2>1. DOMAIN properties' = DOMAIN properties
    BY DEF ValidateComponent
  <2>2. QED
    BY <1>1, <1>2, <2>1 DEF ValidateInv, Shape, HasLists, IsList, Built
<1>5. ASSUME NEW i \in DOMAIN model.Components, i < component
      PROVE  Accounted(i)'
  <2>1. Accounted(i) /\ properties'[i] = properties[i]
    BY <1>2, <1>5, PerComponent DEF ValidateInv, Shape
  <2>2. QED
    BY <1>1, <1>3, <2>1 DEF Accounted, Declared, IsGiven, MissingProperty, Assumption
<1>6. ASSUME NEW i \in DOMAIN model.Components, i = component
      PROVE  Accounted(i)'
  <2>1. properties[i] = c.Properties
    BY <1>6 DEF ValidateInv, Shape
  <2>2. CASE c.Type \notin DOMAIN nodes
    <3>1. properties'[i] = c.Properties
      BY <2>1, <2>2, <1>6 DEF ValidateComponent
    <3>2. QED
      BY <1>1, <1>6, <2>2, <3>1 DEF Accounted, IsGiven
  <2>3. CASE c.Type \in DOMAIN nodes
    <3>1. /\ properties'[i] = Filled(c)
          /\ \A name \in Unsaid(c) :
               IF Declared(c)[name] = Null
               THEN MissingProperty(c, name) \in knownUnknowns'
               ELSE Assumption(c, name, Declared(c)[name]) \in assumptions'
      BY <1>1, <1>6, <2>3 DEF ValidateComponent, ValidateInv, Shape
    <3>2. /\ DOMAIN properties'[i] = DOMAIN c.Properties \cup DOMAIN Declared(c)
          /\ \A name \in DOMAIN c.Properties : properties'[i][name] = c.Properties[name]
          /\ \A name \in Unsaid(c) : properties'[i][name] = Declared(c)[name]
          /\ Unsaid(c) = DOMAIN properties'[i] \ DOMAIN c.Properties
      BY <3>1 DEF Filled, Unsaid
    <3>3. ASSUME NEW name \in DOMAIN properties'[i]
          PROVE  \/ IsGiven(c, name, properties'[i][name])
                 \/ /\ name \notin DOMAIN c.Properties
                    /\ IF properties'[i][name] = Null
                       THEN MissingProperty(c, name) \in knownUnknowns'
                       ELSE Assumption(c, name, properties'[i][name]) \in assumptions'
      <4>1. CASE name \in DOMAIN c.Properties
        BY <3>2, <4>1 DEF IsGiven
      <4>2. CASE name \notin DOMAIN c.Properties
        BY <3>1, <3>2, <4>2
      <4>3. QED
        BY <4>1, <4>2
    <3>4. model.Components[i] = c /\ nodes'[c.Type].Properties = Declared(c)
      BY <1>1, <1>6 DEF Declared
    <3>5. QED
      BY <1>1, <3>2, <3>3, <3>4 DEF Accounted, Declared, IsGiven, MissingProperty, Assumption
  <2>4. QED
    BY <2>2, <2>3
<1>7. GivenAssumedOrUnknown'
  <2>1. ASSUME NEW i \in DOMAIN model.Components, i < component'
        PROVE  Accounted(i)'
    <3>1. i < component \/ i = component
      BY <1>1, <2>1 DEF ValidateInv, Shape, HasLists, IsList
    <3>2. QED
      BY <1>5, <1>6, <3>1
  <2>2. QED
    BY <1>1, <2>1, PerComponent DEF Accounted, GivenAssumedOrUnknown
<1>8. QED
  BY <1>4, <1>7 DEF ValidateInv

LEMMA ValidateInvStep ==
  ASSUME ValidateInv, [ValidatorNext]_<<registryVars, validatorVars>>
  PROVE  ValidateInv'
<1>1. CASE BuildStep /\ UNCHANGED validatorVars
  <2>1. ~Built
    BY <1>1 DEF BuildStep, AddNode, AddRelationship, NextLoop, InLoop
  <2>2. component = 1 /\ UNCHANGED <<model, properties, component>>
    BY <1>1, <2>1 DEF ValidateInv, Shape, validatorVars
  <2>3. Shape'
    BY <2>2 DEF ValidateInv, Shape
  <2>4. \A i \in DOMAIN model.Components : ~(i < component)
    BY <2>2 DEF ValidateInv, Shape, HasLists, IsList
  <2>5. GivenAssumedOrUnknown'
    BY <2>2, <2>4 DEF GivenAssumedOrUnknown
  <2>6. QED
    BY <2>3, <2>5 DEF ValidateInv
<1>2. CASE ValidateComponent
  BY <1>2, ComponentStep
<1>3. ASSUME UNCHANGED <<registryVars, model, properties, component, assumptions, knownUnknowns>>
      PROVE  ValidateInv'
  <2>1. UNCHANGED <<class, nodes, model, properties, component, assumptions, knownUnknowns>>
    BY <1>3 DEF registryVars
  <2>2. Shape'
    BY <2>1 DEF ValidateInv, Shape, Built
  <2>3. GivenAssumedOrUnknown'
    BY <2>1 DEF ValidateInv, GivenAssumedOrUnknown, Declared, IsGiven, MissingProperty,
                Assumption
  <2>4. QED
    BY <2>2, <2>3 DEF ValidateInv
<1>4. ASSUME ValidateRelationship \/ UNCHANGED <<registryVars, validatorVars>>
      PROVE  UNCHANGED <<registryVars, model, properties, component, assumptions, knownUnknowns>>
  BY <1>4 DEF ValidateRelationship, validatorVars
<1>5. QED
  BY <1>1, <1>2, <1>3, <1>4 DEF ValidatorNext, ValidateStep

(* For every registry and every model: of a component that was validated   *)
(* every value is the author's, or a default listed as an assumption, or   *)
(* nil and listed as a known unknown.                                      *)
THEOREM ValuesAccounted == ValidatorSpec => []GivenAssumedOrUnknown
<1>1. ValidateInv => GivenAssumedOrUnknown
  BY DEF ValidateInv
<1>2. QED
  BY <1>1, ValidateInvInit, ValidateInvStep, PTL DEF ValidatorSpec

-----------------------------------------------------------------------------
(* The command. *)

(* What the registry is built of. *)
SourcesTyped == sources \in [Classes -> DefinitionMaps]

(* Where the command is and what it has. *)
Staged ==
  /\ call \in Invocations /\ ModelDecoded(model) /\ SourcesTyped
  /\ phase \in {"parse", "load"} => RegistryStart
  /\ phase \in {"parse", "load", "build"} => CheckerInit
  /\ phase \in {"check", "write", "render"} => Validated
  /\ phase \in {"write", "render"} => Checked /\ ~aborted
  /\ phase = "render" => call.Command = "visualize"
  /\ phase = "parse" => model = NoModel /\ component = 1 /\ relationship = 1

(* What has been written is what the finished check gives. *)
Output ==
  /\ phase = "ok" /\ call.Command = "check" => report.State = "written"
  /\ report.State = "written" => phase = "ok" /\ Checked /\ ~aborted /\ report = Report
  /\ drawing.State = "written" =>
       phase \in {"render", "ok", "error"} /\ Checked /\ ~aborted /\ drawing = Drawing

-----------------------------------------------------------------------------
LEMMA TypedSources == SourcesTyped => sources \in Sources
BY DEF SourcesTyped, Sources, DefinitionMaps

LEMMA NoModelDecoded == ModelDecoded(NoModel)
BY DEF ModelDecoded, HasLists, IsList, NoModel

LEMMA StagedInit == Init => Staged /\ Output
<1>1. SUFFICES ASSUME Init PROVE Staged /\ Output
  OBVIOUS
<1>2. SourcesTyped
  <2>1. [k \in Kinds |-> << >>] \in [Kinds -> Seq(Definitions)]
    OBVIOUS
  <2>2. [k \in Kinds |-> << >>] \in DefinitionMaps
    BY <2>1 DEF DefinitionMaps, Kinds
  <2>3. QED
    BY <1>1, <2>2 DEF Init, SourcesTyped, NoSources
<1>3. QED
  BY <1>1, <1>2, NoModelDecoded DEF Init, Staged, Output, NotWritten

(* The variables of a part that a step leaves alone. *)
LEMMA SameCheck ==
  ASSUME UNCHANGED <<registryVars, validatorVars, checkerVars>>
  PROVE  /\ UNCHANGED <<RegistryStart, CheckerInit, SourcesTyped>>
         /\ UNCHANGED <<Validated, Checked, aborted, Report, Drawing>>
         /\ ModelDecoded(model)' = ModelDecoded(model)
<1>1. UNCHANGED <<sources, class, kind, at, nodes, rels, shadows>>
  BY DEF registryVars
<1>2. UNCHANGED <<model, properties, component, relationship, assumptions, knownUnknowns, warnings>>
  BY DEF validatorVars
<1>3. UNCHANGED <<checking, check, findings, indeterminate, unchecked, aborted>>
  BY DEF checkerVars
<1>4. UNCHANGED <<RegistryStart, CheckerInit, SourcesTyped>>
  BY <1>1, <1>3 DEF RegistryStart, CheckerInit, SourcesTyped
<1>5. UNCHANGED <<Validated, Checked, aborted>>
  BY <1>1, <1>2, <1>3 DEF Validated, Checked, Built
<1>6. UNCHANGED <<Report, Drawing>>
  BY <1>2, <1>3 DEF Report, Drawing, Summary
<1>7. ModelDecoded(model)' = ModelDecoded(model)
  BY <1>2
<1>8. QED
  BY <1>4, <1>5, <1>6, <1>7

LEMMA StagedStep ==
  ASSUME Staged, Output, [Next]_vars
  PROVE  Staged' /\ Output'
<1>1. CASE Parse
  <2>1. CASE Parses(call.File)
    <3>1. /\ [k \in Kinds |-> Inline(call.File, k)] \in DefinitionMaps
          /\ ModelDecoded(Model(call.File))
      BY <2>1, InvocationsAssumption DEF Staged
    <3>2. SourcesTyped'
      BY <1>1, <2>1, <3>1 DEF Parse, Staged, SourcesTyped
    <3>3. ModelDecoded(model')
      BY <1>1, <2>1, <3>1 DEF Parse, ValidateCalled
    <3>4. phase = "parse" /\ phase' = "load" /\ call' = call
      BY <1>1, <2>1 DEF Parse, GoTo
    <3>5. RegistryStart' /\ CheckerInit' /\ UNCHANGED <<report, drawing>>
      BY <1>1, <3>4 DEF Parse, Staged, RegistryStart, CheckerInit, checkerVars
    <3>6. QED
      BY <3>2, <3>3, <3>4, <3>5 DEF Staged, Output
  <2>2. CASE ~Parses(call.File)
    <3>1. phase = "parse" /\ phase' = "error" /\ call' = call
      BY <1>1, <2>2 DEF Parse, GoTo
    <3>2. SourcesTyped' /\ ModelDecoded(model)' /\ UNCHANGED <<report, drawing>>
      BY <1>1, <2>2 DEF Parse, Staged, SourcesTyped, validatorVars, ModelDecoded, HasLists, IsList
    <3>3. QED
      BY <3>1, <3>2 DEF Staged, Output
  <2>3. QED
    BY <2>1, <2>2
<1>2. CASE Load
  <2>1. /\ phase = "load" /\ call' = call /\ phase' \in {"build", "error"}
        /\ UNCHANGED <<report, drawing>>
    BY <1>2 DEF Load, GoTo
  <2>2. SourcesTyped'
    BY <1>2, <2>1, InvocationsAssumption DEF Load, Staged, SourcesTyped
  <2>3. CheckerInit' /\ ModelDecoded(model)'
    BY <1>2, <2>1 DEF Load, Staged, CheckerInit, checkerVars, validatorVars,
                      ModelDecoded, HasLists, IsList
  <2>4. QED
    BY <2>1, <2>2, <2>3 DEF Staged, Output
<1>3. CASE BuildRegistry \/ Validate
  <2>1. phase = "build" /\ UNCHANGED commandVars /\ UNCHANGED checkerVars
    BY <1>3 DEF BuildRegistry, Validate
  <2>2. SourcesTyped' /\ ModelDecoded(model)'
    BY <1>3 DEF BuildRegistry, Validate, BuildStep, ValidateStep, AddNode, AddRelationship,
                NextLoop, ValidateComponent, ValidateRelationship, registryVars, validatorVars,
                Staged, SourcesTyped, ModelDecoded, HasLists, IsList
  <2>3. CheckerInit'
    BY <2>1 DEF Staged, CheckerInit, checkerVars
  <2>4. QED
    BY <2>1, <2>2, <2>3 DEF Staged, Output, commandVars
<1>4. CASE Check
  <2>1. phase = "check" /\ UNCHANGED commandVars /\ UNCHANGED <<registryVars, validatorVars>>
    BY <1>4 DEF Check, CheckStep
  <2>2. SourcesTyped' /\ ModelDecoded(model)' /\ Validated'
    BY <2>1 DEF registryVars, validatorVars, Staged, SourcesTyped, ModelDecoded, HasLists,
                IsList, Validated, Built
  <2>3. QED
    BY <2>1, <2>2 DEF Staged, Output, commandVars
<1>5. CASE ValidateReturns
  <2>1. /\ phase = "build" /\ call' = call /\ Validated
        /\ phase' = IF call.Command = "validate" THEN "ok" ELSE "check"
        /\ UNCHANGED <<registryVars, validatorVars, checkerVars, report, drawing>>
    BY <1>5 DEF ValidateReturns, GoTo
  <2>2. QED
    BY <2>1, SameCheck DEF Staged, Output
<1>6. CASE CheckReturns
  <2>1. /\ phase = "check" /\ call' = call /\ (aborted \/ Checked)
        /\ phase' = IF aborted THEN "error" ELSE "write"
        /\ UNCHANGED <<registryVars, validatorVars, checkerVars, report, drawing>>
    BY <1>6 DEF CheckReturns, GoTo
  <2>2. QED
    BY <2>1, SameCheck DEF Staged, Output
<1>7. CASE WriteCheckedYAML
  <2>1. /\ phase = "write" /\ call.Command = "check" /\ call' = call
        /\ UNCHANGED <<registryVars, validatorVars, checkerVars, drawing>>
        /\ \/ report' = Report /\ phase' = "ok"
           \/ report' \in {NotWritten, Torn} /\ phase' = "error"
    BY <1>7 DEF WriteCheckedYAML, GoTo
  <2>2. Report.State = "written" /\ NotWritten.State # "written" /\ Torn.State # "written"
    BY DEF Report, NotWritten, Torn
  <2>3. Staged'
    BY <2>1, SameCheck DEF Staged
  <2>4. Output'
    BY <2>1, <2>2, SameCheck DEF Staged, Output
  <2>5. QED
    BY <2>3, <2>4
<1>8. CASE WriteDOT
  <2>1. /\ phase = "write" /\ call.Command = "visualize" /\ call' = call
        /\ UNCHANGED <<registryVars, validatorVars, checkerVars, report>>
        /\ \/ drawing' = Drawing /\ phase' = "render"
           \/ drawing' \in {NotWritten, Torn} /\ phase' = "error"
    BY <1>8 DEF WriteDOT, GoTo
  <2>2. NotWritten.State # "written" /\ Torn.State # "written"
    BY DEF NotWritten, Torn
  <2>3. Staged'
    BY <2>1, SameCheck DEF Staged
  <2>4. Output'
    BY <2>1, <2>2, SameCheck DEF Staged, Output
  <2>5. QED
    BY <2>3, <2>4
<1>9. CASE RenderSVG
  <2>1. /\ phase = "render" /\ call' = call /\ phase' \in {"ok", "error"}
        /\ UNCHANGED <<registryVars, validatorVars, checkerVars, report, drawing>>
    BY <1>9 DEF RenderSVG, GoTo
  <2>2. QED
    BY <2>1, SameCheck DEF Staged, Output
<1>10. CASE UNCHANGED vars
  <2>1. UNCHANGED <<registryVars, validatorVars, checkerVars, call, phase, report, drawing>>
        /\ UNCHANGED <<model, component, relationship>>
    BY <1>10 DEF vars, commandVars, validatorVars
  <2>2. QED
    BY <2>1, SameCheck DEF Staged, Output
<1>11. QED
  BY <1>1, <1>2, <1>3, <1>4, <1>5, <1>6, <1>7, <1>8, <1>9, <1>10 DEF Next, Finished

-----------------------------------------------------------------------------
(* The registry and Validate in a command. *)

(* A step of the command that is none of the registry's starts it or       *)
(* leaves it alone.                                                        *)
LEMMA BuildInvCommand ==
  ASSUME Staged, Staged', BuildInv, [Next]_vars
  PROVE  RegistryInit' \/ BuildInv'
<1>0. SourcesTyped' => (sources \in Sources)'
  BY DEF SourcesTyped, Sources, DefinitionMaps
<1>1. CASE phase' \in {"parse", "load"}
  BY <1>0, <1>1 DEF Staged, RegistryInit
<1>2. CASE Load
  <2>1. RegistryStart' /\ SourcesTyped'
    BY <1>2 DEF Load, Staged, RegistryStart
  <2>2. QED
    BY <1>0, <2>1 DEF RegistryInit
<1>3. CASE UNCHANGED registryVars
  BY <1>3, BuildInvStutter
<1>4. CASE BuildRegistry
  BY <1>4, BuildInvStep DEF BuildRegistry
<1>5. CASE Parse /\ ~Parses(call.File)
  BY <1>5, <1>3 DEF Parse, registryVars
<1>6. CASE Parse /\ Parses(call.File)
  BY <1>1, <1>6 DEF Parse, GoTo
<1>7. QED
  BY <1>2, <1>3, <1>4, <1>5, <1>6
     DEF Next, Validate, ValidateStep, ValidateComponent, ValidateRelationship, ValidateReturns,
         Check, CheckStep, CheckReturns, WriteCheckedYAML, WriteDOT, RenderSVG, Finished, vars

THEOREM CommandBuilds == Spec => [](Staged /\ Output /\ BuildInv)
<1>1. Init => RegistryInit
  BY StagedInit, TypedSources DEF Staged, Init, RegistryInit
<1>2. QED
  BY <1>1, StagedInit, StagedStep, BuildInvInit, BuildInvCommand, PTL DEF Spec

-----------------------------------------------------------------------------
(* Validate in a command. *)

(* Every complaint of the turns that were taken is in the warnings. *)
Warned ==
  /\ relationship \in Nat \ {0}
  /\ relationship > 1 => Built
  /\ \A i \in DOMAIN model.Components :
       i < component /\ model.Components[i].Type \notin DOMAIN nodes =>
         Unrecognized("type", model.Components[i].Type) \in warnings
  /\ \A j \in DOMAIN model.Relationships :
       LET rel == model.Relationships[j]
           Resolve == rels[rel.Template].Resolve
       IN  j < relationship /\ rel.Template \in DOMAIN rels =>
             \A v \in DOMAIN Resolve :
               Complaint(rel, Resolve[v]) # "none" =>
                 BindingWarning(Complaint(rel, Resolve[v]), rel, v) \in warnings

LEMMA SameComplaints ==
  ASSUME UNCHANGED <<model, nodes>>
  PROVE  \A rel, binding : Complaint(rel, binding)' = Complaint(rel, binding)
BY DEF Complaint, Undeclared, HasEdge, Places, Declared

LEMMA WarnedFresh ==
  ASSUME HasLists(model), component = 1, relationship = 1
  PROVE  Warned
<1>1. \A i \in DOMAIN model.Components : ~(i < 1)
  BY DEF HasLists, IsList
<1>2. \A j \in DOMAIN model.Relationships : ~(j < 1)
  BY DEF HasLists, IsList
<1>3. QED
  BY <1>1, <1>2 DEF Warned

LEMMA WarnedSame ==
  ASSUME Warned, UNCHANGED <<class, nodes, rels, model, component, relationship>>,
         warnings \subseteq warnings'
  PROVE  Warned'
BY SameComplaints DEF Warned, Built, Unrecognized, BindingWarning

LEMMA WarnedComponent ==
  ASSUME HasLists(model), component \in Nat, Warned, ValidateComponent
  PROVE  Warned'
<1>1. /\ Built /\ component' = component + 1
      /\ UNCHANGED <<class, nodes, rels, model, relationship>>
      /\ warnings \subseteq warnings'
      /\ LET c == model.Components[component]
         IN  c.Type \notin DOMAIN nodes => Unrecognized("type", c.Type) \in warnings'
  BY DEF ValidateComponent, registryVars
<1>2. ASSUME NEW i \in DOMAIN model.Components, i < component',
             model.Components[i].Type \notin DOMAIN nodes
      PROVE  Unrecognized("type", model.Components[i].Type) \in warnings'
  <2>1. i < component \/ i = component
    BY <1>1, <1>2 DEF HasLists, IsList
  <2>2. QED
    BY <1>1, <1>2, <2>1 DEF Warned
<1>3. QED
  BY <1>1, <1>2, SameComplaints DEF Warned, Built, Unrecognized, BindingWarning

LEMMA WarnedRelationship ==
  ASSUME HasLists(model), Warned, ValidateRelationship
  PROVE  Warned'
<1> DEFINE Of(rel, v) == BindingWarning(Complaint(rel, rels[rel.Template].Resolve[v]), rel, v)
           Wrong(rel, v) == Complaint(rel, rels[rel.Template].Resolve[v]) # "none"
<1>1. /\ Built /\ relationship' = relationship + 1
      /\ UNCHANGED <<class, nodes, rels, model, component>>
      /\ warnings \subseteq warnings'
  BY DEF ValidateRelationship, registryVars
<1>2. LET rel == model.Relationships[relationship]
      IN  rel.Template \in DOMAIN rels =>
            \A v \in DOMAIN rels[rel.Template].Resolve : Wrong(rel, v) => Of(rel, v) \in warnings'
  BY DEF ValidateRelationship
<1>3. ASSUME NEW j \in DOMAIN model.Relationships, j < relationship',
             model.Relationships[j].Template \in DOMAIN rels
      PROVE  LET rel == model.Relationships[j]
             IN  \A v \in DOMAIN rels[rel.Template].Resolve :
                   Wrong(rel, v) => Of(rel, v) \in warnings'
  <2>1. j < relationship \/ j = relationship
    BY <1>1, <1>3 DEF HasLists, IsList, Warned
  <2>2. CASE j < relationship
    BY <1>1, <1>3, <2>2 DEF Warned
  <2>3. CASE j = relationship
    BY <1>2, <1>3, <2>3
  <2>4. QED
    BY <2>1, <2>2, <2>3
<1>4. QED
  BY <1>1, <1>3, SameComplaints DEF Warned, Built, Unrecognized, BindingWarning

LEMMA ValidateInvFresh ==
  ASSUME HasLists(model), component = 1,
         properties = [i \in DOMAIN model.Components |-> model.Components[i].Properties]
  PROVE  ValidateInv
<1>1. \A i \in DOMAIN model.Components : ~(i < component)
  BY DEF HasLists, IsList
<1>2. QED
  BY <1>1 DEF ValidateInv, Shape, GivenAssumedOrUnknown

LEMMA ValidateInvSame ==
  ASSUME ValidateInv,
         UNCHANGED <<class, nodes, model, properties, component, assumptions, knownUnknowns>>
  PROVE  ValidateInv'
<1>1. Shape'
  BY DEF ValidateInv, Shape, HasLists, IsList, Built
<1>2. GivenAssumedOrUnknown'
  BY DEF ValidateInv, GivenAssumedOrUnknown, Declared, IsGiven, MissingProperty, Assumption
<1>3. QED
  BY <1>1, <1>2 DEF ValidateInv

LEMMA ValidateInit == Init => ValidateInv /\ Warned
<1>1. SUFFICES ASSUME Init PROVE ValidateInv /\ Warned
  OBVIOUS
<1>2. HasLists(model)
  BY <1>1, NoModelDecoded DEF Init, ModelDecoded
<1>3. properties = [i \in DOMAIN model.Components |-> model.Components[i].Properties]
  BY <1>1 DEF Init, NoModel
<1>4. QED
  BY <1>1, <1>2, <1>3, ValidateInvFresh, WarnedFresh DEF Init

(* Validate is called afresh, or takes a turn, or is left alone. *)
LEMMA ValidateCommandStep ==
  ASSUME Staged, Staged', ValidateInv, Warned, [Next]_vars
  PROVE  ValidateInv' /\ Warned'
<1>0. HasLists(model) /\ HasLists(model')
  BY DEF Staged, ModelDecoded, HasLists, IsList
<1>1. CASE Parse /\ Parses(call.File)
  <2>1. /\ component' = 1 /\ relationship' = 1
        /\ properties' = [i \in DOMAIN model'.Components |-> model'.Components[i].Properties]
    BY <1>1 DEF Parse, ValidateCalled
  <2>2. \A i \in DOMAIN model'.Components : ~(i < component')
    BY <1>0, <2>1 DEF HasLists, IsList
  <2>3. \A j \in DOMAIN model'.Relationships : ~(j < relationship')
    BY <1>0, <2>1 DEF HasLists, IsList
  <2>4. ValidateInv'
    BY <1>0, <2>1, <2>2 DEF ValidateInv, Shape, GivenAssumedOrUnknown, HasLists, IsList
  <2>5. Warned'
    BY <2>1, <2>3, <2>2 DEF Warned
  <2>6. QED
    BY <2>4, <2>5
<1>2. CASE BuildRegistry
  <2>1. BuildStep /\ UNCHANGED validatorVars
    BY <1>2 DEF BuildRegistry
  <2>2. ~Built
    BY <2>1 DEF BuildStep, AddNode, AddRelationship, NextLoop, InLoop
  <2>3. component = 1 /\ relationship = 1 /\ UNCHANGED <<model, component, relationship>>
    BY <2>1, <2>2 DEF ValidateInv, Shape, Warned, validatorVars
  <2>4. ValidateInv'
    BY <2>1, ValidateInvStep DEF ValidatorNext
  <2>5. \A i \in DOMAIN model.Components : ~(i < component)
    BY <1>0, <2>3 DEF HasLists, IsList
  <2>6. \A j \in DOMAIN model.Relationships : ~(j < relationship)
    BY <1>0, <2>3 DEF HasLists, IsList
  <2>7. Warned'
    BY <2>3, <2>5, <2>6 DEF Warned
  <2>8. QED
    BY <2>4, <2>7
<1>3. CASE Validate
  <2>1. ValidateComponent \/ ValidateRelationship
    BY <1>3 DEF Validate, ValidateStep
  <2>2. ValidateInv'
    BY <2>1, ValidateInvStep DEF ValidatorNext, ValidateStep
  <2>3. component \in Nat
    BY DEF ValidateInv, Shape
  <2>4. Warned'
    BY <1>0, <2>1, <2>3, WarnedComponent, WarnedRelationship
  <2>5. QED
    BY <2>2, <2>4
<1>4. CASE UNCHANGED <<class, nodes, rels, validatorVars>>
  <2>1. UNCHANGED <<model, properties, component, relationship, assumptions, knownUnknowns,
                    warnings>>
    BY <1>4 DEF validatorVars
  <2>2. QED
    BY <1>4, <2>1, ValidateInvSame, WarnedSame
<1>5. ASSUME UNCHANGED <<registryVars, validatorVars>>
      PROVE  UNCHANGED <<class, nodes, rels, validatorVars>>
  BY <1>5 DEF registryVars
<1>6. CASE (Parse /\ ~Parses(call.File)) \/ Load
  BY <1>4, <1>6 DEF Parse, Load
<1>7. QED
  BY <1>1, <1>2, <1>3, <1>4, <1>5, <1>6
     DEF Next, ValidateReturns, Check, CheckStep, CheckReturns, WriteCheckedYAML, WriteDOT,
         RenderSVG, Finished, vars

THEOREM CommandValidates == Spec => [](Staged /\ ValidateInv /\ Warned)
BY ValidateInit, ValidateCommandStep, CommandBuilds, PTL DEF Spec

-----------------------------------------------------------------------------
(* The evaluator. *)

(* A set of natural numbers has a least one. *)
LEMMA Least ==
  ASSUME NEW T, T \subseteq Nat, T # {}
  PROVE  \E m \in T : \A k \in T : m <= k
<1> DEFINE L == {p \in Nat \X Nat : p[1] < p[2]}
<1>1. IsWellFoundedOn(L, Nat)
  BY NatLessThanWellFounded DEF OpToRel
<1>. HIDE DEF L
<1>2. PICK m \in T : \A k \in T : <<k, m>> \notin L
  BY <1>1, WFMin
<1>3. ASSUME NEW k \in T PROVE m <= k
  <2>1. k \in Nat /\ m \in Nat
    OBVIOUS
  <2>2. <<k, m>> \notin L
    BY <1>2
  <2>3. QED
    BY <2>1, <2>2 DEF L
<1>4. QED
  BY <1>3

(* A tree of which every node has its operands before it. *)
Tree(e) == IsExpression(e) /\ e # NoNode

(* The values of the operands of a node, taken from those of all nodes. *)
Args(e, value, k) == [i \in DOMAIN e[k].Operands |-> value[k - e[k].Operands[i]]]

(* value says what the first m nodes evaluate to. *)
Evaluates(e, env, value, m) ==
  value = [k \in 1 .. m |-> EvalNode(e[k], Args(e, value, k), env)]

LEMMA OperandsBefore ==
  ASSUME NEW e, Tree(e), NEW k \in 1 .. Len(e), NEW i \in DOMAIN e[k].Operands
  PROVE  /\ k - e[k].Operands[i] \in 1 .. k - 1
         /\ k - e[k].Operands[i] \in 1 .. Len(e)
<1>1. Len(e) \in Nat /\ DOMAIN e = 1 .. Len(e) /\ e[k].Operands[i] \in 1 .. k - 1
  BY DEF Tree, IsExpression
<1>2. QED
  BY <1>1

(* The values of operands do not change when those after them are added.   *)
LEMMA SameArgs ==
  ASSUME NEW e, Tree(e), NEW k \in 1 .. Len(e), NEW f, NEW g,
         \A j \in 1 .. k - 1 : f[j] = g[j]
  PROVE  Args(e, f, k) = Args(e, g, k)
BY OperandsBefore DEF Args

(* There is such a function, so Values, which chooses one, is one. *)
LEMMA EvaluatesExists ==
  ASSUME NEW e, NEW env, Tree(e), NEW m \in Nat, m <= Len(e)
  PROVE  \E value : Evaluates(e, env, value, m)
<1> DEFINE Fails(n) == n <= Len(e) /\ ~\E value : Evaluates(e, env, value, n)
           T == {n \in Nat : Fails(n)}
           Node(value, k) == EvalNode(e[k], Args(e, value, k), env)
<1>1. SUFFICES ASSUME T # {} PROVE FALSE
  OBVIOUS
<1>2. PICK n \in T : \A j \in T : n <= j
  BY <1>1, Least
<1>3. Len(e) \in Nat /\ n \in Nat /\ n <= Len(e)
  BY DEF Tree, IsExpression
<1>4. CASE n = 0
  <2>1. Evaluates(e, env, [k \in 1 .. 0 |-> 0], 0)
    BY DEF Evaluates
  <2>2. QED
    BY <1>2, <1>4, <2>1
<1>5. CASE n > 0
  <2>1. n - 1 \in Nat /\ n - 1 <= Len(e) /\ n - 1 \notin T
    BY <1>2, <1>3, <1>5
  <2>2. PICK f : Evaluates(e, env, f, n - 1)
    BY <2>1
  <2>3. \A k \in 1 .. n - 1 : f[k] = Node(f, k)
    BY <2>2 DEF Evaluates
  <2> DEFINE g == [k \in 1 .. n |-> IF k = n THEN Node(f, n) ELSE f[k]]
  <2>4. /\ g = [k \in 1 .. n |-> g[k]]
        /\ g[n] = Node(f, n)
        /\ \A k \in 1 .. n - 1 : g[k] = f[k]
    BY <1>3, <1>5
  <2>. HIDE DEF g
  <2>5. ASSUME NEW k \in 1 .. n PROVE g[k] = Node(g, k)
    <3>1. Args(e, f, k) = Args(e, g, k)
      <4>1. k \in 1 .. Len(e) /\ \A j \in 1 .. k - 1 : j \in 1 .. n - 1
        BY <1>3
      <4>2. \A j \in 1 .. k - 1 : f[j] = g[j]
        BY <2>4, <4>1
      <4>3. QED
        BY <4>1, <4>2, SameArgs
    <3>2. k = n \/ k \in 1 .. n - 1
      BY <1>3
    <3>3. QED
      BY <2>3, <2>4, <3>1, <3>2
  <2>6. Evaluates(e, env, g, n)
    BY <2>4, <2>5 DEF Evaluates
  <2>7. QED
    BY <1>2, <2>6
<1>6. QED
  BY <1>3, <1>4, <1>5

(* What evalNode does: it evaluates the operands, and then the node. *)
LEMMA ValuesStep ==
  ASSUME NEW e, NEW env, Tree(e), NEW k \in 1 .. Len(e)
  PROVE  Values(e, env)[k] = EvalNode(e[k], Args(e, Values(e, env), k), env)
<1>1. Len(e) \in Nat /\ DOMAIN e = 1 .. Len(e)
  BY DEF Tree, IsExpression
<1>2. Values(e, env) = CHOOSE value : Evaluates(e, env, value, Len(e))
  BY <1>1 DEF Values, Evaluates, Args
<1>3. Evaluates(e, env, Values(e, env), Len(e))
  <2>1. \E value : Evaluates(e, env, value, Len(e))
    <3>1. Len(e) \in Nat /\ Len(e) <= Len(e)
      BY <1>1
    <3>2. QED
      BY <3>1, EvaluatesExists
  <2>2. QED
    BY <1>2, <2>1
<1>4. QED
  BY <1>3 DEF Evaluates

-----------------------------------------------------------------------------
(* Kinds of values. *)

(* What an evaluation may come to. *)
ResultKinds == {"error", "null", "value"}

NodeOps == {"number", "ident", "neg", "call"} \cup ComparisonOps \cup ArithmeticOps

LEMMA StrictKinds ==
  ASSUME NEW a, NEW b, NEW result, a.Kind \in ResultKinds, b.Kind \in ResultKinds,
         a.Kind = "value" /\ b.Kind = "value" => result.Kind \in ResultKinds
  PROVE  /\ Strict(a, b, result).Kind \in ResultKinds
         /\ Strict(a, b, result).Kind = "value" =>
              a.Kind = "value" /\ b.Kind = "value" /\ Strict(a, b, result) = result
<1>1. CASE a.Kind = "error" \/ b.Kind = "error"
  BY <1>1 DEF Strict, Error, ResultKinds
<1>2. CASE "error" \notin {a.Kind, b.Kind} /\ "null" \in {a.Kind, b.Kind}
  BY <1>2 DEF Strict, Null, ResultKinds
<1>3. CASE a.Kind = "value" /\ b.Kind = "value"
  BY <1>3 DEF Strict
<1>4. QED
  BY <1>1, <1>2, <1>3 DEF ResultKinds

LEMMA ApplyKinds ==
  ASSUME NEW op \in ComparisonOps \cup ArithmeticOps, NEW a, NEW b
  PROVE  Apply(op, a, b).Kind \in ResultKinds
<1>1. CASE op \in ComparisonOps
  <2>1. Apply(op, a, b) \in {Value(1, 1), Value(0, 1)}
    BY <1>1 DEF Apply, ComparisonOps
  <2>2. QED
    BY <2>1 DEF Value, ResultKinds
<1>2. CASE op \in ArithmeticOps \ {"/"}
  BY <1>2 DEF Apply, ComparisonOps, ArithmeticOps, Value, ResultKinds
<1>3. CASE op = "/"
  <2>1. Apply(op, a, b) = Divide(a, b)
    BY <1>3 DEF Apply, ComparisonOps
  <2>2. QED
    BY <2>1 DEF Divide, Error, Value, ResultKinds
<1>4. QED
  BY <1>1, <1>2, <1>3

LEMMA CallKinds ==
  ASSUME NEW name, NEW args, \A i \in DOMAIN args : args[i].Kind \in ResultKinds
  PROVE  /\ Call(name, args).Kind \in ResultKinds
         /\ name # "max" /\ Call(name, args).Kind = "value" =>
              /\ name = "min" /\ DOMAIN args = {1, 2}
              /\ args[1].Kind = "value" /\ args[2].Kind = "value"
<1> DEFINE a == args[1] b == args[2]
           lesser == IF Holds("<=", a, b) THEN a ELSE b
           greater == IF Holds(">=", a, b) THEN a ELSE b
<1>1. CASE name \notin {"max", "min"} \/ DOMAIN args # {1, 2}
  BY <1>1 DEF Call, Error, ResultKinds
<1>2. CASE name = "min" /\ DOMAIN args = {1, 2}
  <2>1. Call(name, args) = Strict(a, b, lesser)
    BY <1>2 DEF Call
  <2>2. lesser.Kind \in ResultKinds
    BY <1>2
  <2>. HIDE DEF lesser
  <2>3. QED
    BY <1>2, <2>1, <2>2, StrictKinds
<1>3. CASE name = "max" /\ DOMAIN args = {1, 2}
  <2>1. a.Kind \in ResultKinds /\ b.Kind \in ResultKinds /\ greater.Kind \in ResultKinds
    BY <1>3
  <2>2. Call(name, args) \in {a, b, Strict(a, b, greater)}
    BY <1>3 DEF Call
  <2>. HIDE DEF greater
  <2>3. QED
    BY <1>3, <2>1, <2>2, StrictKinds
<1>4. QED
  BY <1>1, <1>2, <1>3

(* The operands a node has according to its operator. *)
FitsNode(node, args) ==
  /\ node.Op \in NodeOps
  /\ node.Op = "neg" => DOMAIN args = {1}
  /\ node.Op \in ComparisonOps \cup ArithmeticOps => DOMAIN args = {1, 2}

(* Whatever the operands are, a node comes to an error, a null or a value. *)
LEMMA NodeKinds ==
  ASSUME NEW node, NEW args, NEW env, FitsNode(node, args),
         \A i \in DOMAIN args : args[i].Kind \in ResultKinds
  PROVE  EvalNode(node, args, env).Kind \in ResultKinds
<1>1. CASE node.Op = "number"
  BY <1>1 DEF EvalNode, ComparisonOps, ArithmeticOps, Value, ResultKinds
<1>2. CASE node.Op = "ident"
  <2>1. EvalNode(node, args, env) = Lookup(node.Name, env)
    BY <1>2 DEF EvalNode, ComparisonOps, ArithmeticOps
  <2>2. QED
    BY <2>1 DEF Lookup, Error, ResultKinds
<1>3. CASE node.Op = "neg"
  <2>1. EvalNode(node, args, env) = Negative(args[1]) /\ args[1].Kind \in ResultKinds
    BY <1>3 DEF EvalNode, ComparisonOps, ArithmeticOps, FitsNode
  <2>2. QED
    BY <2>1 DEF Negative, Value, ResultKinds
<1>4. CASE node.Op = "call"
  <2>1. EvalNode(node, args, env) = Call(node.Name, args)
    BY <1>4 DEF EvalNode, ComparisonOps, ArithmeticOps
  <2>2. QED
    BY <2>1, CallKinds
<1>5. CASE node.Op \in ComparisonOps \cup ArithmeticOps
  <2>1. EvalNode(node, args, env) = Strict(args[1], args[2], Apply(node.Op, args[1], args[2]))
    BY <1>5 DEF EvalNode, ComparisonOps, ArithmeticOps
  <2>2. args[1].Kind \in ResultKinds /\ args[2].Kind \in ResultKinds
    BY <1>5 DEF FitsNode
  <2>3. QED
    BY <1>5, <2>1, <2>2, ApplyKinds, StrictKinds
<1>6. QED
  BY <1>1, <1>2, <1>3, <1>4, <1>5 DEF FitsNode, NodeOps

(* env with more of its nulls known. *)
Completes(fuller, env) ==
  /\ DOMAIN fuller = DOMAIN env
  /\ \A v \in DOMAIN env : env[v] # Null => fuller[v] = env[v]

(* A node that has a value read no null, unless it calls max: it has the   *)
(* same value when its operands keep theirs.                               *)
LEMMA NodeStable ==
  ASSUME NEW node, NEW args, NEW others, NEW env, NEW fuller,
         FitsNode(node, args), ~(node.Op = "call" /\ node.Name = "max"),
         Completes(fuller, env), DOMAIN others = DOMAIN args,
         \A i \in DOMAIN args : args[i].Kind \in ResultKinds,
         \A i \in DOMAIN args : args[i].Kind = "value" => others[i] = args[i],
         EvalNode(node, args, env).Kind = "value"
  PROVE  EvalNode(node, others, fuller) = EvalNode(node, args, env)
<1>1. CASE node.Op = "number"
  BY <1>1 DEF EvalNode, ComparisonOps, ArithmeticOps
<1>2. CASE node.Op = "ident"
  <2>1. \A o, n : EvalNode(node, o, n) = Lookup(node.Name, n)
    BY <1>2 DEF EvalNode, ComparisonOps, ArithmeticOps
  <2>2. Lookup(node.Name, env).Kind = "value"
    BY <2>1
  <2>3. node.Name \in DOMAIN env /\ env[node.Name] # Null
    BY <2>2 DEF Lookup, Property, Null, Error
  <2>4. Property(fuller, node.Name) = Property(env, node.Name)
    BY <2>3 DEF Property, Completes
  <2>5. QED
    BY <2>1, <2>4 DEF Lookup
<1>3. CASE node.Op = "neg"
  <2>1. \A o, n : EvalNode(node, o, n) = Negative(o[1])
    BY <1>3 DEF EvalNode, ComparisonOps, ArithmeticOps
  <2>2. Negative(args[1]).Kind = "value" /\ 1 \in DOMAIN args
    BY <1>3, <2>1 DEF FitsNode
  <2>3. args[1].Kind = "value"
    BY <2>2 DEF Negative
  <2>4. QED
    BY <2>1, <2>2, <2>3
<1>4. CASE node.Op = "call"
  <2>1. \A o, n : EvalNode(node, o, n) = Call(node.Name, o)
    BY <1>4 DEF EvalNode, ComparisonOps, ArithmeticOps
  <2>2. /\ DOMAIN args = {1, 2} /\ args[1].Kind = "value" /\ args[2].Kind = "value"
        /\ node.Name = "min"
    BY <1>4, <2>1, CallKinds
  <2>3. others[1] = args[1] /\ others[2] = args[2] /\ DOMAIN others = {1, 2}
    BY <2>2
  <2>4. Call("min", others) = Call("min", args)
    BY <2>2, <2>3 DEF Call
  <2>5. QED
    BY <2>1, <2>2, <2>4
<1>5. CASE node.Op \in ComparisonOps \cup ArithmeticOps
  <2>1. \A o, n : EvalNode(node, o, n) = Strict(o[1], o[2], Apply(node.Op, o[1], o[2]))
    BY <1>5 DEF EvalNode, ComparisonOps, ArithmeticOps
  <2>2. DOMAIN args = {1, 2} /\ args[1].Kind \in ResultKinds /\ args[2].Kind \in ResultKinds
    BY <1>5 DEF FitsNode
  <2>3. Strict(args[1], args[2], Apply(node.Op, args[1], args[2])).Kind = "value"
    BY <2>1
  <2>4. args[1].Kind = "value" /\ args[2].Kind = "value"
    BY <1>5, <2>2, <2>3, ApplyKinds, StrictKinds
  <2>5. others[1] = args[1] /\ others[2] = args[2]
    BY <2>2, <2>4
  <2>6. QED
    BY <2>1, <2>5
<1>6. QED
  BY <1>1, <1>2, <1>3, <1>4, <1>5 DEF FitsNode, NodeOps

LEMMA TreeFits ==
  ASSUME NEW e, Tree(e), NEW value, NEW k \in 1 .. Len(e)
  PROVE  FitsNode(e[k], Args(e, value, k))
BY DEF Tree, IsExpression, FitsNode, Args, NodeOps

(* What holds of a node when it holds of those before it holds of all.     *)
LEMMA EveryKind ==
  ASSUME NEW e, NEW env, Tree(e)
  PROVE  \A k \in 1 .. Len(e) : Values(e, env)[k].Kind \in ResultKinds
<1> DEFINE value == Values(e, env)
           T == {k \in 1 .. Len(e) : value[k].Kind \notin ResultKinds}
<1>1. SUFFICES ASSUME T # {} PROVE FALSE
  OBVIOUS
<1>2. T \subseteq Nat
  OBVIOUS
<1>3. PICK k \in T : \A j \in T : k <= j
  BY <1>1, <1>2, Least
<1>4. value[k] = EvalNode(e[k], Args(e, value, k), env) /\ FitsNode(e[k], Args(e, value, k))
  BY ValuesStep, TreeFits
<1>. HIDE DEF value
<1>5. ASSUME NEW i \in DOMAIN Args(e, value, k)
      PROVE  Args(e, value, k)[i].Kind \in ResultKinds
  <2>1. i \in DOMAIN e[k].Operands /\ Args(e, value, k)[i] = value[k - e[k].Operands[i]]
    BY DEF Args
  <2>2. k - e[k].Operands[i] \in 1 .. k - 1 /\ k - e[k].Operands[i] \in 1 .. Len(e)
    BY <2>1, OperandsBefore
  <2>3. k - e[k].Operands[i] \notin T
    BY <1>2, <1>3, <2>2
  <2>4. QED
    BY <2>1, <2>2, <2>3
<1>6. value[k].Kind \in ResultKinds
  BY <1>4, <1>5, NodeKinds
<1>7. QED
  BY <1>6

(* A value found while there are nulls is the value whatever they are.     *)
LEMMA EveryValueStable ==
  ASSUME NEW e, NEW env, NEW fuller, Tree(e), ~UsesMax(e), Completes(fuller, env)
  PROVE  \A k \in 1 .. Len(e) :
           Values(e, env)[k].Kind = "value" => Values(e, fuller)[k] = Values(e, env)[k]
<1> DEFINE value == Values(e, env) other == Values(e, fuller)
           T == {k \in 1 .. Len(e) : value[k].Kind = "value" /\ other[k] # value[k]}
<1>1. SUFFICES ASSUME T # {} PROVE FALSE
  OBVIOUS
<1>2. T \subseteq Nat
  OBVIOUS
<1>3. PICK k \in T : \A j \in T : k <= j
  BY <1>1, <1>2, Least
<1> DEFINE args == Args(e, value, k) others == Args(e, other, k)
<1>4. /\ value[k] = EvalNode(e[k], args, env) /\ other[k] = EvalNode(e[k], others, fuller)
      /\ FitsNode(e[k], args) /\ DOMAIN others = DOMAIN args
  BY ValuesStep, TreeFits DEF Args
<1>5. \A j \in 1 .. Len(e) : value[j].Kind \in ResultKinds
  BY EveryKind
<1>. HIDE DEF value, other
<1>6. ASSUME NEW i \in DOMAIN args
      PROVE  /\ args[i].Kind \in ResultKinds
             /\ args[i].Kind = "value" => others[i] = args[i]
  <2> DEFINE j == k - e[k].Operands[i]
  <2>1. i \in DOMAIN e[k].Operands /\ args[i] = value[j] /\ others[i] = other[j]
    BY DEF Args
  <2>2. j \in 1 .. k - 1 /\ j \in 1 .. Len(e)
    BY <2>1, OperandsBefore
  <2>3. j \notin T
    BY <1>2, <1>3, <2>2
  <2>4. QED
    BY <1>5, <2>1, <2>2, <2>3
<1>7. ~(e[k].Op = "call" /\ e[k].Name = "max")
  BY DEF UsesMax, Tree, IsExpression
<1>. HIDE DEF args, others
<1>8. other[k] = value[k]
  BY <1>3, <1>4, <1>6, <1>7, NodeStable
<1>9. QED
  BY <1>3, <1>8

LEMMA RootIn ==
  ASSUME NEW e, Tree(e)
  PROVE  Len(e) \in 1 .. Len(e) /\ Root(e).Op \in NodeOps
BY DEF Tree, IsExpression, Root, NodeOps

LEMMA CompareCases ==
  ASSUME NEW e, NEW env, IsExpression(e)
  PROVE  /\ Compare(e, env) \in {"error", "indeterminate", "holds", "fails"}
         /\ Compare(e, env) \in {"holds", "fails"} =>
              /\ Tree(e) /\ Root(e).Op \in ComparisonOps
              /\ Values(e, env)[Len(e)].Kind = "value"
<1> DEFINE result == Values(e, env)[Len(e)]
<1>1. CASE Root(e).Op \notin ComparisonOps
  BY <1>1 DEF Compare
<1>2. CASE Root(e).Op \in ComparisonOps
  <2>1. e # NoNode
    BY <1>2 DEF NoNode, Root, ComparisonOps
  <2>2. Tree(e) /\ result.Kind \in ResultKinds
    BY <2>1, EveryKind, RootIn DEF Tree
  <2>. HIDE DEF result
  <2>3. Compare(e, env) =
          CASE result.Kind = "error" -> "error"
            [] result.Kind = "null" -> "indeterminate"
            [] result.Kind = "value" -> IF result.N = 1 THEN "holds" ELSE "fails"
    BY <1>2 DEF Compare, result
  <2>4. QED
    BY <1>2, <2>2, <2>3 DEF ResultKinds, result
<1>3. QED
  BY <1>1, <1>2

(* A comparison decided with nulls is decided for good. *)
LEMMA CompareStable ==
  ASSUME NEW e, NEW env, NEW fuller, IsExpression(e), ~UsesMax(e), Completes(fuller, env),
         Compare(e, env) \in {"holds", "fails"}
  PROVE  Compare(e, fuller) = Compare(e, env)
<1>1. Tree(e) /\ Root(e).Op \in ComparisonOps /\ Values(e, env)[Len(e)].Kind = "value"
  BY CompareCases
<1>2. Values(e, fuller)[Len(e)] = Values(e, env)[Len(e)]
  BY <1>1, RootIn, EveryValueStable
<1>3. QED
  BY <1>2 DEF Compare

-----------------------------------------------------------------------------
(* The loop over the checks. *)

RelOf(i) == model.Relationships[i]
ChkOf(i, k) == rels[RelOf(i).Template].Checks[k]
OutcomeOf(i, k) == Outcome(ChkOf(i, k), Bound(RelOf(i)))

(* The k-th check of the i-th relationship is one that is evaluated, and   *)
(* the loops have gone past it.                                            *)
IsCheck(i, k) ==
  /\ i \in DOMAIN model.Relationships /\ Evaluable(RelOf(i))
  /\ k \in DOMAIN rels[RelOf(i).Template].Checks
Passed(i, k) == IsCheck(i, k) /\ (i < checking \/ (i = checking /\ k < check))

FoundBy(f, i, k) == f.Rel = RelOf(i) /\ f.Check = ChkOf(i, k).Name

FindingsExact ==
  /\ \A f \in findings : \E i, k : Passed(i, k) /\ OutcomeOf(i, k) = "fails" /\ FoundBy(f, i, k)
  /\ \A i, k : Passed(i, k) /\ OutcomeOf(i, k) = "fails" => \E f \in findings : FoundBy(f, i, k)

UnknownsExact ==
  /\ \A x \in indeterminate :
       \E i, k : /\ Passed(i, k) /\ OutcomeOf(i, k) = "indeterminate"
                 /\ x = Indeterminate(RelOf(i), ChkOf(i, k))
  /\ \A i, k : Passed(i, k) /\ OutcomeOf(i, k) = "indeterminate" =>
       Indeterminate(RelOf(i), ChkOf(i, k)) \in indeterminate

(* Only the last check before the loops were left was an error. *)
ErrorsLast ==
  \A i, k : Passed(i, k) /\ OutcomeOf(i, k) = "error" => aborted /\ i = checking /\ k = check - 1

TemplatesTold ==
  \A i \in DOMAIN model.Relationships :
    i < checking /\ RelOf(i).Template \notin DOMAIN rels =>
      Unrecognized("template", RelOf(i).Template) \in unchecked

CheckInv ==
  /\ checking \in Nat \ {0} /\ check \in Nat \ {0}
  /\ FindingsExact /\ UnknownsExact /\ ErrorsLast /\ TemplatesTold

(* The definitions of the sources have lists of checks, and so have those  *)
(* of the registry.                                                        *)
LEMMA ChecksAreLists ==
  ASSUME SourcesTyped, BuildInv, NEW t \in DOMAIN rels
  PROVE  /\ IsList(rels[t].Checks)
         /\ \A k \in DOMAIN rels[t].Checks : IsExpression(parseExpr(rels[t].Checks[k].Expression))
<1>1. "relationship" \in Kinds /\ Map("relationship") = rels
  BY DEF Kinds, Map
<1>2. HeldBy("relationship", t)
  BY <1>1 DEF BuildInv, WinnersHeld
<1>3. PICK c \in Classes : \E n \in DOMAIN sources[c]["relationship"] :
        rels[t] = Given(c, "relationship", n)
  BY <1>1, <1>2 DEF HeldBy
<1>4. PICK n \in DOMAIN sources[c]["relationship"] : rels[t] = Given(c, "relationship", n)
  BY <1>3
<1> DEFINE d == sources[c]["relationship"][n]
<1>5. sources[c] \in DefinitionMaps
  BY DEF SourcesTyped
<1>6. sources[c]["relationship"] \in Seq(Definitions)
  BY <1>1, <1>5 DEF DefinitionMaps
<1>7. d \in Definitions /\ "Checks" \in DOMAIN d
  BY <1>4, <1>5, <1>6 DEF DefinitionMaps
<1>8. IsList(d.Checks) /\ \A k \in DOMAIN d.Checks : IsExpression(parseExpr(d.Checks[k].Expression))
  BY <1>7, ChecksAssumption
<1>9. rels[t].Checks = d.Checks
  BY <1>4, <1>7 DEF Given
<1>10. QED
  BY <1>8, <1>9

(* What a check is evaluated with depends on what Validate left behind.    *)
LEMMA SameResolution ==
  ASSUME UNCHANGED <<model, properties, rels>>
  PROVE  \A rel : Bound(rel)' = Bound(rel) /\ Evaluable(rel)' = Evaluable(rel)
<1>1. \A rel, binding : Resolved(rel, binding)' = Resolved(rel, binding)
  BY DEF Resolved, EdgeProperties, Place, Places, HasEdge
<1>2. \A rel : Bound(rel)' = Bound(rel)
  BY <1>1 DEF Bound
<1>3. QED
  BY <1>2 DEF Evaluable, HasText, Places

LEMMA SameChecks ==
  ASSUME UNCHANGED <<model, properties, rels>>
  PROVE  /\ \A i : RelOf(i)' = RelOf(i)
         /\ \A i, k : ChkOf(i, k)' = ChkOf(i, k) /\ OutcomeOf(i, k)' = OutcomeOf(i, k)
         /\ \A i, k : IsCheck(i, k)' = IsCheck(i, k)
         /\ \A f, i, k : FoundBy(f, i, k)' = FoundBy(f, i, k)
<1>1. \A i : RelOf(i)' = RelOf(i)
  BY DEF RelOf
<1>2. \A i, k : ChkOf(i, k)' = ChkOf(i, k)
  BY <1>1 DEF ChkOf
<1>3. \A i, k : OutcomeOf(i, k)' = OutcomeOf(i, k)
  BY <1>1, <1>2, SameResolution DEF OutcomeOf, Outcome
<1>4. \A i, k : IsCheck(i, k)' = IsCheck(i, k)
  BY <1>1, SameResolution DEF IsCheck
<1>5. \A f, i, k : FoundBy(f, i, k)' = FoundBy(f, i, k)
  BY <1>1, <1>2 DEF FoundBy
<1>6. QED
  BY <1>1, <1>2, <1>3, <1>4, <1>5

LEMMA CheckInvFresh ==
  ASSUME HasLists(model), CheckerInit, BuildInv, SourcesTyped
  PROVE  CheckInv
<1>1. ASSUME NEW i, NEW k PROVE ~Passed(i, k)
  <2>1. SUFFICES ASSUME Passed(i, k) PROVE FALSE
    OBVIOUS
  <2>2. i \in Nat \ {0} /\ k \in Nat \ {0}
    BY <2>1, ChecksAreLists DEF Passed, IsCheck, HasLists, IsList, Evaluable
  <2>3. QED
    BY <2>1, <2>2 DEF Passed, CheckerInit
<1>2. \A i \in DOMAIN model.Relationships : ~(i < checking)
  BY DEF CheckerInit, HasLists, IsList
<1>3. QED
  BY <1>1, <1>2 DEF CheckInv, FindingsExact, UnknownsExact, ErrorsLast, TemplatesTold, CheckerInit

LEMMA CheckInvSame ==
  ASSUME CheckInv, UNCHANGED <<model, properties, rels, checkerVars>>
  PROVE  CheckInv'
<1>1. UNCHANGED <<checking, check, findings, indeterminate, unchecked, aborted>>
  BY DEF checkerVars
<1>2. \A i, k : Passed(i, k)' = Passed(i, k)
  BY <1>1, SameChecks DEF Passed
<1>3. FindingsExact'
  BY <1>1, <1>2, SameChecks DEF CheckInv, FindingsExact
<1>4. UnknownsExact'
  BY <1>1, <1>2, SameChecks DEF CheckInv, UnknownsExact, Indeterminate
<1>5. ErrorsLast'
  BY <1>1, <1>2, SameChecks DEF CheckInv, ErrorsLast
<1>6. TemplatesTold'
  BY <1>1, SameChecks DEF CheckInv, TemplatesTold, Unrecognized
<1>7. QED
  BY <1>1, <1>3, <1>4, <1>5, <1>6 DEF CheckInv

(* A turn of the inner loop goes past one check. *)
LEMMA EvaluateStep ==
  ASSUME HasLists(model), BuildInv, SourcesTyped, CheckInv, EvaluateCheck,
         UNCHANGED <<registryVars, validatorVars>>
  PROVE  CheckInv'
<1>0. UNCHANGED <<model, properties, rels>>
  BY DEF registryVars, validatorVars
<1>a. PICK i, k : i = checking /\ k = check
  OBVIOUS
<1>1. /\ checking' = i /\ check' = k + 1 /\ unchecked' = unchecked
      /\ checking \in Nat \ {0} /\ check \in Nat \ {0} /\ aborted = FALSE
  BY <1>a DEF EvaluateCheck, InCheck, CheckInv
<1>2. IsCheck(i, k)
  <2>1. i \in DOMAIN model.Relationships /\ RelOf(i) = Rel
    <3>1. checking <= Len(model.Relationships)
      BY DEF EvaluateCheck, InCheck
    <3>2. QED
      BY <1>a, <1>1, <3>1 DEF HasLists, IsList, RelOf, Rel
  <2>2. Evaluable(Rel) /\ k <= Len(rels[Rel.Template].Checks)
    BY <1>a DEF EvaluateCheck, HasChecks
  <2>3. IsList(rels[Rel.Template].Checks)
    BY <2>2, ChecksAreLists DEF Evaluable
  <2>4. QED
    BY <1>a, <1>1, <2>1, <2>2, <2>3 DEF IsCheck, IsList
<1>3. ASSUME NEW j, NEW l
      PROVE  Passed(j, l)' <=> Passed(j, l) \/ (j = i /\ l = k)
  <2>1. CASE IsCheck(j, l)
    <3>1. l \in Nat /\ j \in Nat
      BY <2>1, ChecksAreLists DEF IsCheck, HasLists, IsList, Evaluable
    <3>2. QED
      BY <1>a, <1>0, <1>1, <2>1, <3>1, SameChecks DEF Passed
  <2>2. CASE ~IsCheck(j, l)
    BY <1>a, <1>0, <1>2, <2>2, SameChecks DEF Passed
  <2>3. QED
    BY <2>1, <2>2
<1>4. /\ aborted' = (OutcomeOf(i, k) = "error")
      /\ indeterminate' = indeterminate \cup
           (IF OutcomeOf(i, k) = "indeterminate"
            THEN {Indeterminate(RelOf(i), ChkOf(i, k))} ELSE {})
      /\ OutcomeOf(i, k) = "fails" =>
           \E text : findings' = findings \cup {Finding(RelOf(i), ChkOf(i, k), text)}
      /\ OutcomeOf(i, k) # "fails" => findings' = findings
  BY <1>a DEF EvaluateCheck, OutcomeOf, RelOf, ChkOf, Rel
<1>5. FindingsExact'
  <2>1. CASE OutcomeOf(i, k) = "fails"
    <3>1. PICK text : findings' = findings \cup {Finding(RelOf(i), ChkOf(i, k), text)}
      BY <1>4, <2>1
    <3> DEFINE new == Finding(RelOf(i), ChkOf(i, k), text)
    <3>2. FoundBy(new, i, k)
      BY DEF FoundBy, Finding
    <3>. HIDE DEF new
    <3>3. findings' = findings \cup {new}
      BY <3>1 DEF new
    <3>4. Passed(i, k)' /\ \A j, l : Passed(j, l) => Passed(j, l)'
      BY <1>3
    <3>5. ASSUME NEW f \in findings'
          PROVE  \E j, l : Passed(j, l)' /\ OutcomeOf(j, l) = "fails" /\ FoundBy(f, j, l)
      <4>1. CASE f = new
        BY <2>1, <3>2, <3>4, <4>1
      <4>2. CASE f \in findings
        <5>1. PICK j, l : Passed(j, l) /\ OutcomeOf(j, l) = "fails" /\ FoundBy(f, j, l)
          BY <4>2 DEF CheckInv, FindingsExact
        <5>2. QED
          BY <3>4, <5>1
      <4>3. QED
        BY <3>3, <4>1, <4>2
    <3>6. ASSUME NEW j, NEW l, Passed(j, l)', OutcomeOf(j, l) = "fails"
          PROVE  \E f \in findings' : FoundBy(f, j, l)
      <4>1. CASE Passed(j, l)
        <5>1. PICK f \in findings : FoundBy(f, j, l)
          BY <3>6, <4>1 DEF CheckInv, FindingsExact
        <5>2. QED
          BY <3>3, <5>1
      <4>2. CASE j = i /\ l = k
        BY <3>2, <3>3, <4>2
      <4>3. QED
        BY <1>3, <3>6, <4>1, <4>2
    <3>7. QED
      BY <1>0, <3>5, <3>6, SameChecks DEF FindingsExact
  <2>2. CASE OutcomeOf(i, k) # "fails"
    BY <1>0, <1>3, <1>4, <2>2, SameChecks DEF CheckInv, FindingsExact
  <2>3. QED
    BY <2>1, <2>2
<1>6. UnknownsExact'
  <2>0. \A j, l : Indeterminate(RelOf(j), ChkOf(j, l))' = Indeterminate(RelOf(j), ChkOf(j, l))
    BY <1>0, SameChecks DEF Indeterminate
  <2>1. CASE OutcomeOf(i, k) = "indeterminate"
    BY <1>0, <1>3, <1>4, <2>0, <2>1, SameChecks DEF CheckInv, UnknownsExact
  <2>2. CASE OutcomeOf(i, k) # "indeterminate"
    BY <1>0, <1>3, <1>4, <2>0, <2>2, SameChecks DEF CheckInv, UnknownsExact
  <2>3. QED
    BY <2>1, <2>2
<1>7. ErrorsLast'
  <2>1. ASSUME NEW j, NEW l, Passed(j, l)', OutcomeOf(j, l) = "error"
        PROVE  aborted' /\ j = checking' /\ l = check' - 1
    <3>1. ~Passed(j, l)
      BY <1>a, <1>1, <2>1 DEF CheckInv, ErrorsLast
    <3>2. j = i /\ l = k
      BY <1>3, <2>1, <3>1
    <3>3. l = check' - 1
      BY <1>a, <1>1, <3>2     <3>4. QED
      BY <1>a, <1>1, <1>4, <2>1, <3>2, <3>3
  <2>2. QED
    BY <1>0, <2>1, SameChecks DEF ErrorsLast
<1>8. TemplatesTold'
  BY <1>a, <1>0, <1>1, SameChecks DEF CheckInv, TemplatesTold, Unrecognized
<1>9. QED
  BY <1>a, <1>1, <1>5, <1>6, <1>7, <1>8 DEF CheckInv

(* A turn of the outer loop goes past none: those of the relationship are  *)
(* behind, or it has none that is evaluated.                               *)
LEMMA NextStep ==
  ASSUME HasLists(model), BuildInv, SourcesTyped, CheckInv, NextRelationship,
         UNCHANGED <<registryVars, validatorVars>>
  PROVE  CheckInv'
<1>0. UNCHANGED <<model, properties, rels>>
  BY DEF registryVars, validatorVars
<1>1. /\ checking' = checking + 1 /\ check' = 1 /\ UNCHANGED <<findings, indeterminate, aborted>>
      /\ checking \in Nat \ {0} /\ check \in Nat \ {0} /\ aborted = FALSE
  BY DEF NextRelationship, InCheck, CheckInv
<1>2. ASSUME NEW i, NEW k
      PROVE  Passed(i, k)' <=> Passed(i, k)
  <2>1. CASE ~IsCheck(i, k)
    BY <1>0, <2>1, SameChecks DEF Passed
  <2>2. CASE IsCheck(i, k)
    <3>1. IsList(rels[RelOf(i).Template].Checks)
      BY <2>2, ChecksAreLists DEF IsCheck, Evaluable
    <3>2. i \in Nat \ {0} /\ k \in Nat \ {0} /\ k <= Len(rels[RelOf(i).Template].Checks)
      BY <2>2, <3>1 DEF IsCheck, HasLists, IsList
    <3>3. i = checking => k < check
      <4>1. ASSUME i = checking PROVE ~(check <= Len(rels[RelOf(i).Template].Checks))
        BY <2>2, <4>1 DEF NextRelationship, HasChecks, Rel, RelOf, IsCheck
      <4>2. QED
        BY <1>1, <3>1, <3>2, <4>1 DEF IsList
    <3>4. QED
      BY <1>0, <1>1, <2>2, <3>2, <3>3, SameChecks DEF Passed
  <2>3. QED
    BY <2>1, <2>2
<1>3. FindingsExact'
  BY <1>0, <1>1, <1>2, SameChecks DEF CheckInv, FindingsExact
<1>4. UnknownsExact'
  <2>1. \A j, l : Indeterminate(RelOf(j), ChkOf(j, l))' = Indeterminate(RelOf(j), ChkOf(j, l))
    BY <1>0, SameChecks DEF Indeterminate
  <2>2. QED
    BY <1>0, <1>1, <1>2, <2>1, SameChecks DEF CheckInv, UnknownsExact
<1>5. ErrorsLast'
  BY <1>0, <1>1, <1>2, SameChecks DEF CheckInv, ErrorsLast
<1>6. TemplatesTold'
  <2>1. unchecked \subseteq unchecked' /\
        (Rel.Template \notin DOMAIN rels => Unrecognized("template", Rel.Template) \in unchecked')
    BY DEF NextRelationship
  <2>2. ASSUME NEW i \in DOMAIN model.Relationships, i < checking',
               RelOf(i).Template \notin DOMAIN rels
        PROVE  Unrecognized("template", RelOf(i).Template) \in unchecked'
    <3>1. i < checking \/ i = checking
      BY <1>1, <2>2 DEF HasLists, IsList
    <3>2. QED
      BY <2>1, <2>2, <3>1 DEF CheckInv, TemplatesTold, Rel, RelOf
  <2>3. QED
    BY <1>0, <2>2, SameChecks DEF TemplatesTold, Unrecognized
<1>7. QED
  BY <1>1, <1>3, <1>4, <1>5, <1>6 DEF CheckInv

LEMMA CheckInvStep ==
  ASSUME Staged, Staged', BuildInv, BuildInv', CheckInv, [Next]_vars
  PROVE  CheckInv'
<1>1. HasLists(model) /\ HasLists(model)' /\ SourcesTyped /\ SourcesTyped'
  BY DEF Staged, ModelDecoded
<1>2. CASE phase' \in {"parse", "load", "build"}
  <2>1. CheckerInit'
    BY <1>2 DEF Staged
  <2>2. (HasLists(model) /\ CheckerInit /\ BuildInv /\ SourcesTyped => CheckInv)'
    BY CheckInvFresh, PTL
  <2>3. QED
    BY <1>1, <2>1, <2>2
<1>3. CASE Check
  <2>1. UNCHANGED <<registryVars, validatorVars>> /\ (EvaluateCheck \/ NextRelationship)
    BY <1>3 DEF Check, CheckStep
  <2>2. QED
    BY <1>1, <2>1, EvaluateStep, NextStep
<1>4. CASE UNCHANGED <<registryVars, validatorVars, checkerVars>>
  <2>1. UNCHANGED <<model, properties, rels, checkerVars>>
    BY <1>4 DEF registryVars, validatorVars
  <2>2. QED
    BY <2>1, CheckInvSame
<1>5. CASE Parse \/ Load
  <2>1. CASE phase' = "error"
    <3>1. UNCHANGED <<model, properties, rels, checkerVars>>
      BY <1>5, <2>1 DEF Parse, Load, GoTo, validatorVars
    <3>2. QED
      BY <3>1, CheckInvSame
  <2>2. QED
    BY <1>2, <1>5, <2>1 DEF Parse, Load, GoTo
<1>6. CASE BuildRegistry \/ Validate
  BY <1>2, <1>6 DEF BuildRegistry, Validate, commandVars
<1>7. QED
  BY <1>3, <1>4, <1>5, <1>6
     DEF Next, ValidateReturns, CheckReturns, WriteCheckedYAML, WriteDOT, RenderSVG, Finished, vars

(* What holds of a command whenever it is looked at. *)
CommandInv ==
  Staged /\ Output /\ BuildInv /\ ValidateInv /\ Warned /\ CheckInv

THEOREM CommandInvariant == Spec => []CommandInv
<1>1. Init => CheckerInit
  BY DEF Init
<1>2. ASSUME Staged, BuildInv, CheckerInit PROVE CheckInv
  BY <1>2, CheckInvFresh DEF Staged, ModelDecoded
<1>3. Init => CheckInv
  BY <1>1, <1>2, StagedInit, BuildInvInit, TypedSources DEF Staged, Init, RegistryInit
<1>4. QED
  BY <1>3, CheckInvStep, CommandBuilds, CommandValidates, PTL DEF Spec, CommandInv

-----------------------------------------------------------------------------
(* What the finished check has evaluated. *)

LEMMA AppliesWhenEvaluable ==
  ASSUME NEW rel
  PROVE  Applies(rel) <=> Evaluable(rel)
<1>1. \A name : name \in ComponentNames(model) <=> Places(name) # {}
  BY DEF ComponentNames, Places
<1>2. QED
  BY <1>1 DEF Applies, Evaluable

LEMMA PassedWhole ==
  ASSUME NEW i, NEW k, Passed(i, k)
  PROVE  /\ RelOf(i) \in Relationships /\ Applies(RelOf(i))
         /\ ChkOf(i, k) \in Checks(RelOf(i))
BY AppliesWhenEvaluable DEF Passed, IsCheck, Relationships, Checks, RelOf, ChkOf

LEMMA AllPassed ==
  ASSUME HasLists(model), CheckInv, Checked,
         NEW rel \in Relationships, Applies(rel), NEW chk \in Checks(rel)
  PROVE  \E i, k : Passed(i, k) /\ RelOf(i) = rel /\ ChkOf(i, k) = chk
<1>1. PICK i \in DOMAIN model.Relationships : rel = RelOf(i)
  BY DEF Relationships, RelOf
<1>2. PICK k \in DOMAIN rels[rel.Template].Checks : chk = ChkOf(i, k)
  BY <1>1 DEF Checks, ChkOf
<1>3. i < checking
  BY DEF Checked, CheckInv, HasLists, IsList
<1>4. QED
  BY <1>1, <1>2, <1>3, AppliesWhenEvaluable DEF Passed, IsCheck

(* A finding for every check that fails, and for no other. *)
LEMMA FoundWhenFails ==
  ASSUME HasLists(model), CheckInv, Checked
  PROVE  /\ \A f \in findings :
              \E rel \in Relationships : \E chk \in Checks(rel) :
                /\ Applies(rel) /\ Outcome(chk, Bound(rel)) = "fails"
                /\ f.Rel = rel /\ f.Check = chk.Name
         /\ \A rel \in Relationships : \A chk \in Checks(rel) :
              Applies(rel) /\ Outcome(chk, Bound(rel)) = "fails" =>
                \E f \in findings : f.Rel = rel /\ f.Check = chk.Name
<1>1. ASSUME NEW f \in findings
      PROVE  \E rel \in Relationships : \E chk \in Checks(rel) :
               /\ Applies(rel) /\ Outcome(chk, Bound(rel)) = "fails"
               /\ f.Rel = rel /\ f.Check = chk.Name
  <2>1. PICK i, k : Passed(i, k) /\ OutcomeOf(i, k) = "fails" /\ FoundBy(f, i, k)
    BY DEF CheckInv, FindingsExact
  <2>2. QED
    BY <2>1, PassedWhole DEF OutcomeOf, FoundBy
<1>2. ASSUME NEW rel \in Relationships, NEW chk \in Checks(rel),
             Applies(rel), Outcome(chk, Bound(rel)) = "fails"
      PROVE  \E f \in findings : f.Rel = rel /\ f.Check = chk.Name
  <2>1. PICK i, k : Passed(i, k) /\ RelOf(i) = rel /\ ChkOf(i, k) = chk
    BY <1>2, AllPassed
  <2>2. QED
    BY <1>2, <2>1 DEF CheckInv, FindingsExact, OutcomeOf, FoundBy
<1>3. QED
  BY <1>1, <1>2

LEMMA UnknownWhenNull ==
  ASSUME HasLists(model), CheckInv, Checked
  PROVE  /\ \A x \in indeterminate :
              \E rel \in Relationships : \E chk \in Checks(rel) :
                /\ Applies(rel) /\ Outcome(chk, Bound(rel)) = "indeterminate"
                /\ x = Indeterminate(rel, chk)
         /\ \A rel \in Relationships : \A chk \in Checks(rel) :
              Applies(rel) /\ Outcome(chk, Bound(rel)) = "indeterminate" =>
                Indeterminate(rel, chk) \in indeterminate
<1>1. ASSUME NEW x \in indeterminate
      PROVE  \E rel \in Relationships : \E chk \in Checks(rel) :
               /\ Applies(rel) /\ Outcome(chk, Bound(rel)) = "indeterminate"
               /\ x = Indeterminate(rel, chk)
  <2>1. PICK i, k : /\ Passed(i, k) /\ OutcomeOf(i, k) = "indeterminate"
                    /\ x = Indeterminate(RelOf(i), ChkOf(i, k))
    BY DEF CheckInv, UnknownsExact
  <2>2. QED
    BY <2>1, PassedWhole DEF OutcomeOf
<1>2. ASSUME NEW rel \in Relationships, NEW chk \in Checks(rel),
             Applies(rel), Outcome(chk, Bound(rel)) = "indeterminate"
      PROVE  Indeterminate(rel, chk) \in indeterminate
  <2>1. PICK i, k : Passed(i, k) /\ RelOf(i) = rel /\ ChkOf(i, k) = chk
    BY <1>2, AllPassed
  <2>2. QED
    BY <1>2, <2>1 DEF CheckInv, UnknownsExact, OutcomeOf
<1>3. QED
  BY <1>1, <1>2

LEMMA NoneInError ==
  ASSUME HasLists(model), CheckInv, Checked, ~aborted,
         NEW rel \in Relationships, Applies(rel), NEW chk \in Checks(rel)
  PROVE  Outcome(chk, Bound(rel)) # "error"
<1>1. PICK i, k : Passed(i, k) /\ RelOf(i) = rel /\ ChkOf(i, k) = chk
  BY AllPassed
<1>2. QED
  BY <1>1 DEF CheckInv, ErrorsLast, OutcomeOf

LEMMA ReportIsExact == CommandInv => ReportExact
<1>1. SUFFICES ASSUME CommandInv, report.State = "written" PROVE ReportExact
  BY DEF CommandInv, Output, ReportExact
<1>2. /\ HasLists(model) /\ CheckInv /\ Checked /\ ~aborted
      /\ report.Findings = findings
      /\ report.KnownUnknowns = knownUnknowns \cup indeterminate
      /\ report.Warnings = warnings \cup unchecked
  BY <1>1 DEF CommandInv, Staged, ModelDecoded, Output, Report
<1> DEFINE All == UNION {{rel} \X Checks(rel) : rel \in {r \in Relationships : Applies(r)}}
           With(outcome) == {pair \in All : Outcome(pair[2], Bound(pair[1])) = outcome}
<1>3. \A pair \in All : /\ pair[1] \in Relationships /\ Applies(pair[1])
                        /\ pair[2] \in Checks(pair[1])
  OBVIOUS
<1>4. \A rel \in Relationships : \A chk \in Checks(rel) :
        Applies(rel) => <<rel, chk>> \in All
  OBVIOUS
<1>. HIDE DEF All
<1>5. {<<f.Rel, f.Check>> : f \in findings}
        = {<<pair[1], pair[2].Name>> : pair \in With("fails")}
  <2>1. ASSUME NEW f \in findings
        PROVE  <<f.Rel, f.Check>> \in {<<pair[1], pair[2].Name>> : pair \in With("fails")}
    <3>1. PICK rel \in Relationships : \E chk \in Checks(rel) :
            /\ Applies(rel) /\ Outcome(chk, Bound(rel)) = "fails"
            /\ f.Rel = rel /\ f.Check = chk.Name
      BY <1>2, FoundWhenFails
    <3>2. PICK chk \in Checks(rel) :
            /\ Applies(rel) /\ Outcome(chk, Bound(rel)) = "fails"
            /\ f.Rel = rel /\ f.Check = chk.Name
      BY <3>1
    <3>3. <<rel, chk>> \in With("fails")
      BY <1>4, <3>2
    <3>4. QED
      BY <3>2, <3>3
  <2>2. ASSUME NEW pair \in With("fails")
        PROVE  <<pair[1], pair[2].Name>> \in {<<f.Rel, f.Check>> : f \in findings}
    <3>1. PICK f \in findings : f.Rel = pair[1] /\ f.Check = pair[2].Name
      BY <1>2, <1>3, FoundWhenFails
    <3>2. QED
      BY <3>1
  <2>. HIDE DEF With
  <2>3. QED
    BY <2>1, <2>2
<1>6. indeterminate = {Indeterminate(pair[1], pair[2]) : pair \in With("indeterminate")}
  <2>1. ASSUME NEW x \in indeterminate
        PROVE  x \in {Indeterminate(pair[1], pair[2]) : pair \in With("indeterminate")}
    <3>1. PICK rel \in Relationships : \E chk \in Checks(rel) :
            /\ Applies(rel) /\ Outcome(chk, Bound(rel)) = "indeterminate"
            /\ x = Indeterminate(rel, chk)
      BY <1>2, UnknownWhenNull
    <3>2. PICK chk \in Checks(rel) :
            /\ Applies(rel) /\ Outcome(chk, Bound(rel)) = "indeterminate"
            /\ x = Indeterminate(rel, chk)
      BY <3>1
    <3>3. <<rel, chk>> \in With("indeterminate")
      BY <1>4, <3>2
    <3>4. QED
      BY <3>2, <3>3
  <2>2. ASSUME NEW pair \in With("indeterminate")
        PROVE  Indeterminate(pair[1], pair[2]) \in indeterminate
    BY <1>2, <1>3, UnknownWhenNull
  <2>. HIDE DEF With
  <2>3. QED
    BY <2>1, <2>2
<1>7. With("error") = {}
  BY <1>2, <1>3, NoneInError
<1>8. ASSUME NEW rel \in Relationships, rel.Template \notin DOMAIN rels
      PROVE  Unrecognized("template", rel.Template) \in report.Warnings
  <2>1. PICK i \in DOMAIN model.Relationships : rel = RelOf(i)
    BY DEF Relationships, RelOf
  <2>2. i < checking
    BY <1>2 DEF Checked, CheckInv, HasLists, IsList
  <2>3. QED
    BY <1>2, <1>8, <2>1, <2>2 DEF CheckInv, TemplatesTold
<1>9. phase = "ok" /\ call.Command = "check" => report.State = "written"
  BY <1>1
<1>10. QED
  BY <1>2, <1>5, <1>6, <1>7, <1>8, <1>9 DEF ReportExact, With, All

(* A report holds what the checks came to, for any definitions and model.  *)
THEOREM ReportsExactly == Spec => []ReportExact
BY CommandInvariant, ReportIsExact, PTL

-----------------------------------------------------------------------------
(* What a null says. *)

(* The component at a side of a relationship that is evaluated. *)
LEMMA SidePlace ==
  ASSUME NEW rel, Applies(rel), NEW scope
  PROVE  /\ Place(Side(rel, scope)) \in DOMAIN model.Components
         /\ Place(Side(rel, scope)) \in Places(Side(rel, scope))
         /\ ComponentAt(rel, scope).Name = Side(rel, scope)
<1>1. Places(Side(rel, scope)) # {}
  BY AppliesWhenEvaluable DEF Evaluable, Side
<1>2. Place(Side(rel, scope)) \in Places(Side(rel, scope))
  BY <1>1 DEF Place
<1>3. QED
  BY <1>2 DEF Places, ComponentAt

(* After Validate a side without a value for a property either has a type  *)
(* that is not known or that does not declare it, or was given a null, or  *)
(* the missing property is a known unknown.                                *)
LEMMA NullOfComponent ==
  ASSUME Staged, ValidateInv, Validated, NEW rel, Applies(rel),
         NEW scope, NEW property,
         Property(properties[Place(Side(rel, scope))], property) = Null
  PROVE  LET c == ComponentAt(rel, scope)
         IN  \/ IsGiven(c, property, Null)
             \/ /\ property \notin DOMAIN c.Properties
                /\ MissingProperty(c, property) \in knownUnknowns
             \/ c.Type \notin DOMAIN nodes
             \/ c.Type \in DOMAIN nodes /\ Undeclared(Side(rel, scope), property)
<1> DEFINE p == Place(Side(rel, scope)) c == ComponentAt(rel, scope)
<1>1. p \in DOMAIN model.Components /\ p \in Places(Side(rel, scope)) /\ c = model.Components[p]
  BY SidePlace DEF ComponentAt
<1>2. p < component
  BY <1>1 DEF Validated, Staged, ModelDecoded, HasLists, IsList, ValidateInv, Shape
<1>. HIDE DEF p, c
<1>3. /\ c.Type \in DOMAIN nodes => DOMAIN Declared(c) \subseteq DOMAIN properties[p]
      /\ \A name \in DOMAIN properties[p] :
           \/ IsGiven(c, name, properties[p][name])
           \/ /\ name \notin DOMAIN c.Properties
              /\ properties[p][name] = Null => MissingProperty(c, name) \in knownUnknowns
  BY <1>1, <1>2 DEF ValidateInv, GivenAssumedOrUnknown
<1>4. Property(properties[p], property) = Null
  BY DEF p
<1>5. CASE property \in DOMAIN properties[p]
  <2>1. properties[p][property] = Null
    BY <1>4, <1>5 DEF Property
  <2>2. QED
    BY <1>3, <1>5, <2>1 DEF c
<1>6. CASE property \notin DOMAIN properties[p] /\ c.Type \in DOMAIN nodes
  <2>1. property \notin DOMAIN Declared(c)
    BY <1>3, <1>6
  <2>2. Undeclared(Side(rel, scope), property)
    BY <1>1, <1>6, <2>1 DEF Undeclared
  <2>3. QED
    BY <1>6, <2>2 DEF c
<1>7. QED
  BY <1>5, <1>6 DEF c

LEMMA NullTold == CommandInv => NullIsTold
<1>1. SUFFICES ASSUME CommandInv, report.State = "written",
                      NEW rel \in Relationships, Applies(rel),
                      NEW v \in DOMAIN rels[rel.Template].Resolve, Bound(rel)[v] = Null
               PROVE  Told(rel, v, rels[rel.Template].Resolve[v], report.KnownUnknowns,
                           report.Warnings)
  BY DEF NullIsTold
<1>2. /\ Staged /\ ValidateInv /\ Warned /\ Validated
      /\ report.KnownUnknowns = knownUnknowns \cup indeterminate
      /\ report.Warnings = warnings \cup unchecked
  BY <1>1 DEF CommandInv, Output, Report, Checked
<1> DEFINE binding == rels[rel.Template].Resolve[v]
<1>3. Resolved(rel, binding) = Null
  BY <1>1 DEF Bound
<1>4. rel.Template \in DOMAIN rels
  BY <1>1 DEF Applies
<1>5. ASSUME Complaint(rel, binding) # "none"
      PROVE  BindingWarning(Complaint(rel, binding), rel, v) \in report.Warnings
  <2>1. PICK j \in DOMAIN model.Relationships : rel = model.Relationships[j]
    BY DEF Relationships
  <2>2. j < relationship
    BY <1>2 DEF Validated, Staged, ModelDecoded, HasLists, IsList, Warned
  <2>3. QED
    BY <1>2, <1>4, <1>5, <2>1, <2>2 DEF Warned
<1>6. CASE binding.Scope = "malformed"
  <2>1. Complaint(rel, binding) = "malformed"
    BY <1>6 DEF Complaint
  <2>2. QED
    BY <1>5, <1>6, <2>1 DEF Told
<1>7. CASE binding.Scope \in {"upstream", "downstream"}
  <2> DEFINE c == ComponentAt(rel, binding.Scope) p == Place(Side(rel, binding.Scope))
  <2>1. Property(properties[p], binding.Property) = Null
    BY <1>3, <1>7 DEF Resolved, Side
  <2>2. \/ IsGiven(c, binding.Property, Null)
        \/ MissingProperty(c, binding.Property) \in knownUnknowns
        \/ c.Type \notin DOMAIN nodes
        \/ Undeclared(Side(rel, binding.Scope), binding.Property)
    BY <1>1, <1>2, <2>1, NullOfComponent
  <2>3. c.Type \notin DOMAIN nodes => Unrecognized("type", c.Type) \in warnings
    <3>1. p \in DOMAIN model.Components /\ c = model.Components[p]
      BY <1>1, SidePlace DEF ComponentAt
    <3>2. p < component
      BY <1>2, <3>1 DEF Validated, Staged, ModelDecoded, HasLists, IsList, ValidateInv, Shape
    <3>3. QED
      BY <1>2, <3>1, <3>2 DEF Warned
  <2>4. Undeclared(Side(rel, binding.Scope), binding.Property) =>
          Complaint(rel, binding) = "undeclared"
    BY <1>7 DEF Complaint
  <2>5. Told(rel, v, binding, report.KnownUnknowns, report.Warnings)
          <=> \/ IsGiven(c, binding.Property, Null)
              \/ MissingProperty(c, binding.Property) \in report.KnownUnknowns
              \/ BindingWarning("undeclared", rel, v) \in report.Warnings
              \/ Unrecognized("type", c.Type) \in report.Warnings
    BY <1>7 DEF Told
  <2>. HIDE DEF c, p
  <2>6. QED
    BY <1>2, <1>5, <2>2, <2>3, <2>4, <2>5
<1>8. CASE binding.Scope = "edge" /\ ~HasEdge(rel)
  <2>1. Complaint(rel, binding) = "no edge"
    BY <1>8 DEF Complaint
  <2>2. QED
    BY <1>5, <1>8, <2>1 DEF Told
<1>9. CASE /\ binding.Scope \notin {"malformed", "upstream", "downstream"}
           /\ ~(binding.Scope = "edge" /\ ~HasEdge(rel))
  BY <1>9 DEF Told
<1>10. QED
  BY <1>6, <1>7, <1>8, <1>9

(* Every null of a report is told. *)
THEOREM NullsAreTold == Spec => []NullIsTold
BY CommandInvariant, NullTold, PTL

-----------------------------------------------------------------------------
(* What is drawn. *)

LEMMA RedEdges ==
  ASSUME CommandInv, drawing.State = "written", NEW i \in DOMAIN model.Edges
  PROVE  i \in drawing.Red <=>
           \E rel \in {r \in Relationships : Applies(r)} :
             /\ rel.Upstream = model.Edges[i].Source /\ rel.Downstream = model.Edges[i].Target
             /\ \E chk \in Checks(rel) : Outcome(chk, Bound(rel)) = "fails"
<1>1. HasLists(model) /\ CheckInv /\ Checked
  BY DEF CommandInv, Staged, ModelDecoded, Output
<1>2. i \in drawing.Red <=>
        \E f \in findings : f.Rel.Upstream = model.Edges[i].Source
                            /\ f.Rel.Downstream = model.Edges[i].Target
  BY DEF CommandInv, Output, Drawing
<1>3. ASSUME NEW f \in findings, f.Rel.Upstream = model.Edges[i].Source,
             f.Rel.Downstream = model.Edges[i].Target
      PROVE  \E rel \in {r \in Relationships : Applies(r)} :
               /\ rel.Upstream = model.Edges[i].Source /\ rel.Downstream = model.Edges[i].Target
               /\ \E chk \in Checks(rel) : Outcome(chk, Bound(rel)) = "fails"
  <2>1. PICK rel \in Relationships : \E chk \in Checks(rel) :
          Applies(rel) /\ Outcome(chk, Bound(rel)) = "fails" /\ f.Rel = rel
    BY <1>1, FoundWhenFails
  <2>2. QED
    BY <1>3, <2>1
<1>4. ASSUME NEW rel \in Relationships, Applies(rel),
             rel.Upstream = model.Edges[i].Source, rel.Downstream = model.Edges[i].Target,
             NEW chk \in Checks(rel), Outcome(chk, Bound(rel)) = "fails"
      PROVE  \E f \in findings : f.Rel.Upstream = model.Edges[i].Source
                                 /\ f.Rel.Downstream = model.Edges[i].Target
  <2>1. PICK f \in findings : f.Rel = rel
    BY <1>1, <1>4, FoundWhenFails
  <2>2. QED
    BY <1>4, <2>1
<1>5. QED
  BY <1>2, <1>3, <1>4

LEMMA Borders ==
  ASSUME CommandInv, drawing.State = "written",
         NEW rel \in Relationships, Applies(rel),
         NEW v \in DOMAIN rels[rel.Template].Resolve, NEW binding,
         binding = rels[rel.Template].Resolve[v],
         binding.Scope \in {"upstream", "downstream"},
         binding.Property \notin DOMAIN ComponentAt(rel, binding.Scope).Properties,
         Bound(rel)[v] = Null,
         ~Undeclared(Side(rel, binding.Scope), binding.Property),
         ComponentAt(rel, binding.Scope).Type \in DOMAIN nodes
  PROVE  Side(rel, binding.Scope) \in drawing.Bordered
<1> DEFINE c == ComponentAt(rel, binding.Scope) p == Place(Side(rel, binding.Scope))
<1>1. Staged /\ ValidateInv /\ Validated
  BY DEF CommandInv, Output, Checked
<1>2. Resolved(rel, binding) = Null
  BY DEF Bound
<1>3. Property(properties[p], binding.Property) = Null
  BY <1>2 DEF Resolved, Side
<1>4. ~IsGiven(c, binding.Property, Null)
  BY DEF IsGiven
<1>5. MissingProperty(c, binding.Property) \in knownUnknowns
  BY <1>1, <1>3, <1>4, NullOfComponent
<1>6. p \in DOMAIN model.Components /\ c = model.Components[p] /\ c.Name = Side(rel, binding.Scope)
  BY SidePlace DEF ComponentAt
<1>7. c.Name # "none"
  BY <1>1, <1>6 DEF Staged, ModelDecoded
<1>8. MissingProperty(c, binding.Property).Component = c.Name
  BY DEF MissingProperty
<1>9. drawing.Bordered = {ku.Component : ku \in knownUnknowns \cup indeterminate} \ {"none"}
  BY DEF CommandInv, Output, Drawing
<1>. HIDE DEF c, p
<1>10. QED
  BY <1>5, <1>6, <1>7, <1>8, <1>9

LEMMA DrawingShows == CommandInv => DrawingShowsReport
BY RedEdges, Borders DEF DrawingShowsReport

(* A drawing shows the findings and the missing properties.                *)
THEOREM DrawsTheReport == Spec => []DrawingShowsReport
BY CommandInvariant, DrawingShows, PTL

-----------------------------------------------------------------------------
(* What a verdict is worth. *)

LEMMA EvaluatedPassed ==
  ASSUME HasLists(model), CheckInv, NEW pair \in Evaluated
  PROVE  /\ Passed(pair[1], pair[2]) /\ Applies(RelAt(pair))
         /\ pair = <<pair[1], pair[2]>>
         /\ RelAt(pair) = RelOf(pair[1]) /\ CheckAt(pair) = ChkOf(pair[1], pair[2])
         /\ pair[2] \in DOMAIN rels[RelAt(pair).Template].Checks
<1>1. PICK i \in {j \in DOMAIN model.Relationships :
                    j <= checking /\ Applies(model.Relationships[j])} :
        pair \in {i} \X {k \in DOMAIN rels[model.Relationships[i].Template].Checks :
                           i < checking \/ k < check}
  BY DEF Evaluated
<1>2. /\ pair = <<pair[1], pair[2]>> /\ pair[1] = i
      /\ pair[2] \in DOMAIN rels[RelOf(i).Template].Checks
      /\ i < checking \/ pair[2] < check
  BY <1>1 DEF RelOf
<1>3. RelAt(pair) = RelOf(i) /\ CheckAt(pair) = ChkOf(i, pair[2])
  BY <1>2 DEF RelAt, CheckAt, RelOf, ChkOf
<1>4. i \in DOMAIN model.Relationships /\ Applies(RelOf(i)) /\ i <= checking
  BY DEF RelOf
<1>5. Passed(i, pair[2])
  <2>1. i \in Nat /\ checking \in Nat
    BY <1>4 DEF HasLists, IsList, CheckInv
  <2>2. i < checking \/ i = checking
    BY <1>4, <2>1
  <2>3. QED
    BY <1>2, <1>4, <2>2, AppliesWhenEvaluable DEF Passed, IsCheck
<1>6. QED
  BY <1>2, <1>3, <1>4, <1>5

(* The sides and the template of a relationship say what its variables     *)
(* are bound to.                                                           *)
LEMMA BoundByEnds ==
  ASSUME NEW rel, NEW other, rel.Template = other.Template,
         rel.Upstream = other.Upstream, rel.Downstream = other.Downstream
  PROVE  Bound(rel) = Bound(other)
<1>1. HasEdge(rel) <=> HasEdge(other)
  BY DEF HasEdge
<1>2. EdgeProperties(rel) = EdgeProperties(other)
  BY DEF EdgeProperties
<1>3. \A binding : Resolved(rel, binding) = Resolved(other, binding)
  BY <1>1, <1>2 DEF Resolved
<1>4. QED
  BY <1>3 DEF Bound

(* A result names a check that no other check of its template is named as  *)
(* just when that check came to it.                                        *)
LEMMA ResultsNamed ==
  ASSUME HasLists(model), CheckInv, NEW pair \in Evaluated, ~NameShared(pair)
  PROVE  LET rel == RelAt(pair)
             chk == CheckAt(pair)
         IN  /\ (\E f \in findings : f.Rel = rel /\ f.Check = chk.Name)
                  <=> Outcome(chk, Bound(rel)) = "fails"
             /\ Indeterminate(rel, chk) \in indeterminate
                  <=> Outcome(chk, Bound(rel)) = "indeterminate"
<1> DEFINE rel == RelAt(pair) chk == CheckAt(pair)
<1>1. /\ Passed(pair[1], pair[2]) /\ rel = RelOf(pair[1]) /\ chk = ChkOf(pair[1], pair[2])
      /\ pair[2] \in DOMAIN rels[rel.Template].Checks
  BY EvaluatedPassed
<1>2. ASSUME NEW i, NEW k, Passed(i, k), RelOf(i).Template = rel.Template,
             ChkOf(i, k).Name = chk.Name
      PROVE  ChkOf(i, k) = chk
  <2>1. k \in DOMAIN rels[rel.Template].Checks /\ ChkOf(i, k) = rels[rel.Template].Checks[k]
    BY <1>2 DEF Passed, IsCheck, ChkOf
  <2>2. k = pair[2]
    BY <1>2, <2>1 DEF NameShared
  <2>3. QED
    BY <2>1, <2>2 DEF CheckAt
<1>. HIDE DEF rel, chk
<1>3. ASSUME NEW f \in findings, f.Rel = rel, f.Check = chk.Name
      PROVE  Outcome(chk, Bound(rel)) = "fails"
  <2>1. PICK i, k : Passed(i, k) /\ OutcomeOf(i, k) = "fails" /\ FoundBy(f, i, k)
    BY DEF CheckInv, FindingsExact
  <2>2. RelOf(i) = rel /\ ChkOf(i, k) = chk
    BY <1>2, <1>3, <2>1 DEF FoundBy
  <2>3. QED
    BY <2>1, <2>2 DEF OutcomeOf
<1>4. ASSUME Indeterminate(rel, chk) \in indeterminate
      PROVE  Outcome(chk, Bound(rel)) = "indeterminate"
  <2>1. PICK i, k : /\ Passed(i, k) /\ OutcomeOf(i, k) = "indeterminate"
                    /\ Indeterminate(rel, chk) = Indeterminate(RelOf(i), ChkOf(i, k))
    BY <1>4 DEF CheckInv, UnknownsExact
  <2>2. Indeterminate(rel, chk).ID = Indeterminate(RelOf(i), ChkOf(i, k)).ID
    BY <2>1
  <2>3. /\ RelOf(i).Template = rel.Template /\ ChkOf(i, k).Name = chk.Name
        /\ RelOf(i).Upstream = rel.Upstream /\ RelOf(i).Downstream = rel.Downstream
    BY <2>2 DEF Indeterminate
  <2>4. ChkOf(i, k) = chk /\ Bound(RelOf(i)) = Bound(rel)
    BY <1>2, <2>1, <2>3, BoundByEnds
  <2>5. QED
    BY <2>1, <2>4 DEF OutcomeOf
<1>5. ASSUME Outcome(chk, Bound(rel)) = "fails"
      PROVE  \E f \in findings : f.Rel = rel /\ f.Check = chk.Name
  BY <1>1, <1>5 DEF CheckInv, FindingsExact, OutcomeOf, FoundBy
<1>6. ASSUME Outcome(chk, Bound(rel)) = "indeterminate"
      PROVE  Indeterminate(rel, chk) \in indeterminate
  BY <1>1, <1>6 DEF CheckInv, UnknownsExact, OutcomeOf
<1>7. QED
  BY <1>3, <1>4, <1>5, <1>6 DEF rel, chk

LEMMA VerdictsHold == CommandInv => VerdictStands
<1>1. SUFFICES ASSUME CommandInv, NEW pair \in Evaluated,
                      pair \notin (IF aborted THEN {<<checking, check - 1>>} ELSE {}),
                      ~NameShared(pair), ~UsesMax(parseExpr(CheckAt(pair).Expression)),
                      Verdict(RelAt(pair), CheckAt(pair)) \in {"holds", "fails"},
                      NEW env \in Completions(Bound(RelAt(pair)))
               PROVE  Outcome(CheckAt(pair), env) = Verdict(RelAt(pair), CheckAt(pair))
  BY DEF VerdictStands
<1> DEFINE rel == RelAt(pair) chk == CheckAt(pair) outcome == Outcome(chk, Bound(rel))
<1>2. HasLists(model) /\ CheckInv /\ SourcesTyped /\ BuildInv
  BY <1>1 DEF CommandInv, Staged, ModelDecoded
<1>3. /\ Passed(pair[1], pair[2]) /\ pair = <<pair[1], pair[2]>>
      /\ rel = RelOf(pair[1]) /\ chk = ChkOf(pair[1], pair[2])
      /\ rel.Template \in DOMAIN rels /\ pair[2] \in DOMAIN rels[rel.Template].Checks
  BY <1>2, EvaluatedPassed DEF Applies
<1>4. outcome # "error"
  <2>1. SUFFICES ASSUME outcome = "error" PROVE FALSE
    OBVIOUS
  <2>2. aborted /\ pair[1] = checking /\ pair[2] = check - 1
    BY <1>2, <1>3, <2>1 DEF CheckInv, ErrorsLast, OutcomeOf
  <2>3. QED
    BY <1>1, <1>3, <2>2
<1>5. IsExpression(parseExpr(chk.Expression))
  BY <1>2, <1>3, ChecksAreLists DEF CheckAt
<1>6. outcome \in {"indeterminate", "holds", "fails"}
  BY <1>4, <1>5, CompareCases DEF Outcome
<1>7. Verdict(rel, chk) = outcome
  <2>1. /\ (\E f \in findings : f.Rel = rel /\ f.Check = chk.Name) <=> outcome = "fails"
        /\ Indeterminate(rel, chk) \in indeterminate <=> outcome = "indeterminate"
    BY <1>1, <1>2, ResultsNamed
  <2>. HIDE DEF outcome, rel, chk
  <2>2. QED
    BY <1>6, <2>1 DEF Verdict
<1>8. Completes(env, Bound(rel))
  BY DEF Completions, Completes
<1>9. Outcome(chk, env) = outcome
  BY <1>1, <1>5, <1>7, <1>8, CompareStable DEF Outcome
<1>10. QED
  BY <1>7, <1>9

(* What a result says of a check while properties are null holds whatever  *)
(* numbers they turn out to have.                                          *)
THEOREM VerdictsStand == Spec => []VerdictStands
BY CommandInvariant, VerdictsHold, PTL

(* The registry and Validate in a command. *)
THEOREM CommandFirstMatch == Spec => []FirstMatchWins
BY CommandInvariant, WinnersFound, PTL DEF CommandInv

THEOREM CommandEveryLoser == Spec => []LosersReported
BY CommandInvariant, LosersFound, PTL DEF CommandInv

THEOREM CommandValuesAccounted == Spec => []GivenAssumedOrUnknown
BY CommandInvariant, PTL DEF CommandInv, ValidateInv
=============================================================================
