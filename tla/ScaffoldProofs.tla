--------------------------- MODULE ScaffoldProofs ---------------------------
(***************************************************************************)
(* `modelr init` for any number of processes and files, any edits and any  *)
(* crashes and failures: what was there is kept, a torn file is one that   *)
(* somebody is writing or has died or failed at, and a command that ends   *)
(* without an error has dealt with every file.                             *)
(***************************************************************************)
EXTENDS Scaffold, TLAPS

USE FileCountAssumption DEF Files

States == {"absent", "torn", "template", "theirs", "mixed"}

TypeInv ==
  /\ disk \in [Files -> States]
  /\ pc \in [Procs -> {"idle", "stat", "mkdir", "open", "write"}]
  /\ at \in [Procs -> 1 .. FileCount + 1]
  /\ \A p \in Procs : pc[p] \in {"mkdir", "open", "write"} => InList(p)
  /\ created \in [Procs -> Seq(Files)] /\ skipped \in [Procs -> Seq(Files)]
  /\ found \in [Procs -> [Files -> States]]
  /\ result \in [Procs -> {"none", "error", "initialized", "nothing to do", "crashed"}]

(* A file that is there stays there: no command of this system deletes it. *)
StillThere == \A p \in Procs, f \in Files : found[p][f] # "absent" => Exists(f)

(* Between its stat and its write a command is at a file that was not      *)
(* there when it started.                                                  *)
AtMissing ==
  \A p \in Procs :
    pc[p] \in {"mkdir", "open", "write"} => found[p][at[p]] = "absent"

KeepInv == TypeInv /\ StillThere /\ AtMissing

(* The files behind a command are in one of its lists, and there.          *)
Behind(p) ==
  /\ Len(created[p]) + Len(skipped[p]) = at[p] - 1
  /\ ToSet(created[p]) \cup ToSet(skipped[p]) = 1 .. at[p] - 1
  /\ ToSet(created[p]) \cap ToSet(skipped[p]) = {}
  /\ \A f \in 1 .. at[p] - 1 : Exists(f)

Told(p) ==
  /\ pc[p] # "idle" => result[p] = "none"
  /\ result[p] \in {"initialized", "nothing to do"} =>
       /\ at[p] = FileCount + 1
       /\ result[p] = "nothing to do" <=> created[p] = << >>

ListInv == TypeInv /\ \A p \in Procs : Behind(p) /\ Told(p)

-----------------------------------------------------------------------------
LEMMA Appended ==
  ASSUME NEW S, NEW s \in Seq(S), NEW e \in S
  PROVE  /\ Append(s, e) \in Seq(S) /\ Append(s, e) # << >>
         /\ Len(Append(s, e)) = Len(s) + 1
         /\ ToSet(Append(s, e)) = ToSet(s) \cup {e}
<1>1. DOMAIN Append(s, e) = 1 .. Len(s) + 1 /\ DOMAIN s = 1 .. Len(s)
  OBVIOUS
<1>2. \A i \in 1 .. Len(s) : Append(s, e)[i] = s[i]
  OBVIOUS
<1>3. Append(s, e)[Len(s) + 1] = e
  OBVIOUS
<1>4. Len(s) \in Nat
  OBVIOUS
<1>5. ToSet(Append(s, e)) = ToSet(s) \cup {e}
  BY <1>1, <1>2, <1>3, <1>4 DEF ToSet
<1>6. QED
  BY <1>1, <1>4, <1>5

(* A running command is at a file of the list. *)
LEMMA AtFile ==
  ASSUME TypeInv, NEW p \in Procs, InList(p) \/ pc[p] \in {"mkdir", "open", "write"}
  PROVE  at[p] \in Files /\ at[p] + 1 \in 1 .. FileCount + 1
<1>1. at[p] \in 1 .. FileCount + 1 /\ InList(p)
  BY DEF TypeInv
<1>2. QED
  BY <1>1 DEF InList

LEMMA NoElements ==
  ASSUME NEW S, NEW s \in Seq(S)
  PROVE  s = << >> <=> ToSet(s) = {}
<1>1. DOMAIN s = 1 .. Len(s) /\ Len(s) \in Nat /\ (Len(s) = 0 => s = << >>)
  OBVIOUS
<1>2. s # << >> => 1 \in DOMAIN s
  BY <1>1
<1>3. DOMAIN << >> = {}
  OBVIOUS
<1>4. QED
  BY <1>2, <1>3 DEF ToSet

(* A step of a process changes what is known of no other. *)
LEMMA OthersStay ==
  ASSUME TypeInv, NEW p \in Procs, NEW q \in Procs, q # p,
         Start(q) \/ Continue(q) \/ Crash(q)
  PROVE  UNCHANGED <<created[p], skipped[p], at[p], pc[p], result[p]>>
<1>1. CASE Start(q) \/ Stat(q) \/ Return(q) \/ Crash(q)
  BY <1>1 DEF Start, Stat, Return, Crash, TypeInv
<1>2. CASE Fail(q)
  BY <1>2 DEF Fail, TypeInv
<1>3. CASE NextFile(q)
  BY <1>3 DEF NextFile, TypeInv
<1>4. CASE MkdirAll(q) \/ OpenFile(q)
  BY <1>2, <1>4 DEF MkdirAll, OpenFile, TypeInv
<1>5. CASE WriteFile(q)
  BY <1>2, <1>3, <1>5 DEF WriteFile
<1>6. QED
  BY <1>1, <1>4, <1>5 DEF Continue

LEMMA TypeInit == Init => TypeInv
  BY DEF Init, TypeInv, InList, States

(* Every step keeps the types. *)
LEMMA TypeStep == TypeInv /\ [Next]_vars => TypeInv'
<1> SUFFICES ASSUME TypeInv, [Next]_vars PROVE TypeInv'
  OBVIOUS
<1>1. ASSUME NEW f \in Files, Edit(f) PROVE TypeInv'
  BY <1>1 DEF Edit, TypeInv, States, procVars, InList
<1>2. ASSUME NEW p \in Procs, Start(p) PROVE TypeInv'
  <2>1. << >> \in Seq(Files) /\ 1 \in 1 .. FileCount + 1
    OBVIOUS
  <2>2. QED
    BY <1>2, <2>1 DEF Start, TypeInv, worldVars, InList
<1>3. ASSUME NEW p \in Procs, Stat(p) PROVE TypeInv'
  <2>1. at[p] \in Files /\ at[p] + 1 \in 1 .. FileCount + 1
    BY <1>3, AtFile DEF Stat
  <2>2. Append(skipped[p], at[p]) \in Seq(Files)
    BY <2>1, Appended DEF TypeInv
  <2>3. QED
    BY <1>3, <2>1, <2>2 DEF Stat, At, TypeInv, worldVars, InList
<1>4. ASSUME NEW p \in Procs, MkdirAll(p) PROVE TypeInv'
  <2>1. CASE Fail(p)
    BY <1>4, <2>1 DEF MkdirAll, Fail, TypeInv, worldVars, InList
  <2>2. CASE ~Fail(p)
    BY <1>4, <2>2 DEF MkdirAll, TypeInv, worldVars, InList
  <2>3. QED
    BY <2>1, <2>2
<1>5. ASSUME NEW p \in Procs, OpenFile(p) PROVE TypeInv'
  <2>1. CASE Fail(p) /\ UNCHANGED disk
    BY <2>1 DEF Fail, TypeInv, worldVars, InList
  <2>2. CASE ~(Fail(p) /\ UNCHANGED disk)
    BY <1>5, <2>2 DEF OpenFile, TypeInv, States, worldVars, InList
  <2>3. QED
    BY <2>1, <2>2
<1>6. ASSUME NEW p \in Procs, WriteFile(p) PROVE TypeInv'
  <2>1. at[p] \in Files /\ at[p] + 1 \in 1 .. FileCount + 1
    BY <1>6, AtFile DEF WriteFile
  <2>2. Append(created[p], at[p]) \in Seq(Files)
    BY <2>1, Appended DEF TypeInv
  <2>3. disk' \in [Files -> States]
    BY <1>6, <2>1 DEF WriteFile, Written, PartlyWritten, At, TypeInv, States
  <2>4. CASE NextFile(p)
    BY <2>1, <2>2, <2>3, <2>4 DEF NextFile, At, TypeInv, worldVars, InList
  <2>5. CASE Fail(p)
    BY <2>3, <2>5 DEF Fail, TypeInv, worldVars, InList
  <2>6. QED
    BY <1>6, <2>4, <2>5 DEF WriteFile
<1>7. ASSUME NEW p \in Procs, Return(p) PROVE TypeInv'
  BY <1>7 DEF Return, TypeInv, worldVars, InList
<1>8. ASSUME NEW p \in Procs, Crash(p) PROVE TypeInv'
  BY <1>8 DEF Crash, TypeInv, worldVars, InList
<1>9. CASE UNCHANGED vars
  BY <1>9 DEF vars, TypeInv, InList
<1>10. QED
  BY <1>1, <1>2, <1>3, <1>4, <1>5, <1>6, <1>7, <1>8, <1>9 DEF Next, Continue

-----------------------------------------------------------------------------
LEMMA KeepInit == Init => KeepInv
<1> SUFFICES ASSUME Init PROVE KeepInv
  OBVIOUS
<1>1. TypeInv
  BY TypeInit
<1>2. QED
  BY <1>1 DEF Init, KeepInv, StillThere, AtMissing, Exists

(* No step of anybody makes a file absent. *)
LEMMA NothingDeleted ==
  ASSUME TypeInv, [Next]_vars, NEW f \in Files, Exists(f)
  PROVE  Exists(f)'
<1>1. ASSUME NEW g \in Files, Edit(g) PROVE Exists(f)'
  BY <1>1 DEF Edit, Exists, TypeInv
<1>2. ASSUME NEW p \in Procs, OpenFile(p) PROVE Exists(f)'
  BY <1>2 DEF OpenFile, Exists, TypeInv
<1>3. ASSUME NEW p \in Procs, WriteFile(p) PROVE Exists(f)'
  BY <1>3 DEF WriteFile, Written, PartlyWritten, Foreign, Exists, TypeInv
<1>4. CASE UNCHANGED disk
  BY <1>4 DEF Exists
<1>5. QED
  BY <1>1, <1>2, <1>3, <1>4
     DEF Next, Continue, Start, Stat, MkdirAll, Return, Crash, vars

LEMMA KeepStep == KeepInv /\ [Next]_vars => KeepInv'
<1> SUFFICES ASSUME KeepInv, [Next]_vars PROVE KeepInv'
  OBVIOUS
<1>1. TypeInv /\ TypeInv' /\ StillThere /\ AtMissing
  BY TypeStep DEF KeepInv
<1>2. \A f \in Files : Exists(f) => Exists(f)'
  BY <1>1, NothingDeleted
(* found is written when a command starts, with the disk of that moment.   *)
<1>3. ASSUME NEW p \in Procs
      PROVE  \/ Start(p) /\ found'[p] = disk /\ pc'[p] = "stat" /\ UNCHANGED disk
             \/ ~Start(p) /\ found'[p] = found[p]
  <2>1. CASE Start(p)
    BY <1>1, <2>1 DEF Start, TypeInv
  <2>2. ASSUME NEW q \in Procs, Start(q), ~Start(p) PROVE found'[p] = found[p]
    BY <1>1, <2>2 DEF Start, TypeInv
  <2>3. CASE UNCHANGED found /\ ~Start(p)
    BY <2>3
  <2>4. \A q \in Procs : Continue(q) \/ Crash(q) => UNCHANGED found
    BY DEF Continue, Stat, MkdirAll, OpenFile, WriteFile, NextFile, Fail, Return, Crash
  <2>5. QED
    BY <2>1, <2>2, <2>3, <2>4 DEF Next, Edit, vars, procVars
<1>4. StillThere'
  <2> SUFFICES ASSUME NEW p \in Procs, NEW f \in Files, found'[p][f] # "absent"
               PROVE  Exists(f)'
    BY DEF StillThere
  <2>1. Exists(f)
    BY <1>1, <1>3 DEF StillThere, Exists
  <2>2. QED
    BY <1>2, <2>1
<1>5. AtMissing'
  <2> SUFFICES ASSUME NEW p \in Procs, pc'[p] \in {"mkdir", "open", "write"}
               PROVE  found'[p][at'[p]] = "absent"
    BY DEF AtMissing
  <2>0. found'[p] = found[p]
    BY <1>3
  <2>1. CASE Stat(p)
    <3>1. pc[p] = "stat" /\ InList(p) /\ ~Exists(at[p]) /\ at'[p] = at[p]
      BY <1>1, <2>1 DEF Stat, At, TypeInv
    <3>2. at[p] \in Files
      BY <1>1, <3>1, AtFile
    <3>3. QED
      BY <1>1, <2>0, <3>1, <3>2 DEF StillThere
  <2>2. CASE MkdirAll(p) \/ OpenFile(p)
    <3>1. ~Fail(p)
      BY <1>1 DEF Fail, TypeInv
    <3>2. QED
      BY <1>1, <2>0, <2>2, <3>1 DEF MkdirAll, OpenFile, AtMissing, TypeInv
  <2>3. CASE WriteFile(p) \/ Return(p) \/ Start(p) \/ Crash(p)
    BY <1>1, <2>3 DEF WriteFile, NextFile, Fail, Return, Start, Crash, TypeInv
  <2>4. CASE pc'[p] = pc[p] /\ at'[p] = at[p]
    BY <1>1, <2>0, <2>4 DEF AtMissing
  <2>5. ASSUME NEW q \in Procs, q # p, Start(q) \/ Continue(q) \/ Crash(q)
        PROVE  pc'[p] = pc[p] /\ at'[p] = at[p]
    BY <1>1, <2>5, OthersStay
  <2>6. QED
    BY <2>1, <2>2, <2>3, <2>4, <2>5 DEF Next, Continue, Edit, vars, procVars
<1>6. QED
  BY <1>1, <1>4, <1>5 DEF KeepInv

(* Whatever is edited, whoever else runs and whoever dies: a command opens *)
(* and writes no file that was there when it started.                      *)
THEOREM NeverOverwrites == Spec => ExistingKept
<1>1. KeepInv /\ [Next]_vars =>
        \A p \in Procs, f \in Files :
          pc[p] \in {"open", "write"} /\ pc'[p] # pc[p] /\ disk'[f] # disk[f] =>
            found[p][f] = "absent"
  <2> SUFFICES ASSUME KeepInv, [Next]_vars, NEW p \in Procs, NEW f \in Files,
                      pc[p] \in {"open", "write"}, pc'[p] # pc[p], disk'[f] # disk[f]
               PROVE  found[p][f] = "absent"
    OBVIOUS
  <2>1. TypeInv /\ AtMissing
    BY DEF KeepInv
  <2>2. OpenFile(p) \/ WriteFile(p) \/ Crash(p)
    <3>1. ASSUME NEW q \in Procs, Start(q) \/ Continue(q) \/ Crash(q)
          PROVE  q = p
      BY <2>1, <3>1, OthersStay
    <3>2. ~UNCHANGED vars /\ \A g \in Files : ~Edit(g)
      BY DEF vars, Edit, procVars
    <3>3. Start(p) \/ Continue(p) \/ Crash(p)
      BY <3>1, <3>2 DEF Next
    <3>4. QED
      BY <3>3 DEF Start, Continue, Stat, MkdirAll, Return
  <2>3. f = at[p]
    <3>1. \A g \in Files \ {at[p]} : disk'[g] = disk[g]
      BY <2>1, <2>2 DEF OpenFile, WriteFile, Written, PartlyWritten, Crash, At, TypeInv
    <3>2. QED
      BY <3>1
  <2>4. QED
    BY <2>1, <2>3 DEF AtMissing
<1>2. QED
  BY <1>1, KeepInit, KeepStep, PTL DEF Spec, ExistingKept

-----------------------------------------------------------------------------
LEMMA TornStep ==
  ASSUME TypeInv, TornIsAbandoned, [Next]_vars
  PROVE  TornIsAbandoned'
<1> SUFFICES ASSUME NEW f \in Files, disk'[f] = "torn", f \notin abandoned'
             PROVE  \E p \in Procs : pc'[p] = "write" /\ at'[p] = f
  BY DEF TornIsAbandoned
(* Whoever opens a file is about to write it.                              *)
<1>1. ASSUME NEW p \in Procs, OpenFile(p), ~Fail(p), at[p] = f
      PROVE  pc'[p] = "write" /\ at'[p] = f
  BY <1>1 DEF OpenFile, TypeInv
(* Any other step leaves f as it was: torn, and not abandoned.             *)
<1>2. ASSUME \A p \in Procs : OpenFile(p) /\ ~Fail(p) => at[p] # f
      PROVE  disk[f] = "torn" /\ f \notin abandoned
  <2>1. ASSUME NEW g \in Files, Edit(g) PROVE disk[f] = "torn" /\ f \notin abandoned
    <3>1. g # f
      BY <2>1 DEF Edit, TypeInv
    <3>2. QED
      BY <2>1, <3>1 DEF Edit, TypeInv
  <2>2. ASSUME NEW p \in Procs, OpenFile(p) PROVE disk[f] = "torn" /\ f \notin abandoned
    <3>1. CASE Fail(p)
      <4>1. pc'[p] = "idle"
        BY <3>1 DEF Fail, TypeInv
      <4>2. QED
        BY <2>2, <4>1 DEF OpenFile, TypeInv
    <3>2. CASE ~Fail(p)
      BY <1>2, <2>2, <3>2 DEF OpenFile, At, TypeInv
    <3>3. QED
      BY <3>1, <3>2
  <2>3. ASSUME NEW p \in Procs, WriteFile(p) PROVE disk[f] = "torn" /\ f \notin abandoned
    <3>1. CASE Written(p)
      <4>1. at[p] # f
        BY <3>1 DEF Written, At, TypeInv
      <4>2. QED
        BY <3>1, <4>1 DEF Written, At, TypeInv
    <3>2. CASE ~Written(p)
      <4>1. abandoned \subseteq abandoned' /\ (UNCHANGED disk \/ PartlyWritten(p))
        BY <2>3, <3>2 DEF WriteFile
      <4>2. QED
        BY <4>1 DEF PartlyWritten, TypeInv
    <3>3. QED
      BY <3>1, <3>2
  <2>4. CASE UNCHANGED disk /\ abandoned \subseteq abandoned'
    BY <2>4
  <2>5. QED
    BY <2>1, <2>2, <2>3, <2>4
       DEF Next, Continue, Start, Stat, MkdirAll, Return, Crash, vars
(* And whoever was writing f still is: to stop is to abandon it.           *)
<1>3. ASSUME NEW p \in Procs, pc[p] = "write", at[p] = f, disk[f] = "torn"
      PROVE  pc'[p] = "write" /\ at'[p] = f
  <2>1. ~WriteFile(p)
    BY <1>3 DEF WriteFile, Written, Foreign, At, TypeInv
  <2>2. ~Crash(p)
    BY <1>3 DEF Crash, At
  <2>3. ASSUME NEW q \in Procs, Start(q) \/ Continue(q) \/ Crash(q)
        PROVE  q # p
    BY <1>3, <2>1, <2>2, <2>3 DEF Start, Continue, Stat, MkdirAll, OpenFile, Return
  <2>4. ASSUME NEW q \in Procs, q # p, Start(q) \/ Continue(q) \/ Crash(q)
        PROVE  pc'[p] = pc[p] /\ at'[p] = at[p]
    BY <2>4, OthersStay
  <2>5. QED
    BY <1>3, <2>3, <2>4 DEF Next, Edit, vars, procVars
<1>4. QED
  BY <1>1, <1>2, <1>3 DEF TornIsAbandoned

(* However many commands truncate and skip each other's files, none is     *)
(* left torn by that: somebody is about to write it, or has died there, or *)
(* has ended with an error there.                                          *)
THEOREM OnlyAbandonedIsTorn == Spec => []TornIsAbandoned
<1>1. Init => TornIsAbandoned
  BY DEF Init, TornIsAbandoned
<1>2. TypeInv /\ TornIsAbandoned /\ [Next]_vars => TornIsAbandoned'
  BY TornStep
<1>3. QED
  BY <1>1, <1>2, TypeInit, TypeStep, PTL DEF Spec

-----------------------------------------------------------------------------
HIDE DEF Files

(* What the types say of the lists of one command.                         *)
LEMMA ListTypes ==
  ASSUME TypeInv, NEW p \in Procs
  PROVE  /\ at[p] \in Nat /\ 1 <= at[p] /\ at[p] <= FileCount + 1
         /\ created[p] \in Seq(Files) /\ Len(created[p]) \in Nat
         /\ skipped[p] \in Seq(Files) /\ Len(skipped[p]) \in Nat
         /\ 1 .. at[p] - 1 \subseteq Files
<1>1. at[p] \in 1 .. FileCount + 1
  BY DEF TypeInv
<1>2. created[p] \in Seq(Files) /\ skipped[p] \in Seq(Files)
  BY DEF TypeInv
<1>3. 1 .. at[p] - 1 \subseteq Files
  BY <1>1 DEF Files
<1>4. QED
  BY <1>1, <1>2, <1>3

LEMMA ListInit == Init => ListInv
<1> SUFFICES ASSUME Init PROVE ListInv
  OBVIOUS
<1>1. TypeInv
  BY TypeInit
<1>2. ASSUME NEW p \in Procs PROVE Behind(p) /\ Told(p)
  <2>1. created[p] = << >> /\ skipped[p] = << >> /\ at[p] = 1 /\ result[p] = "none"
    BY DEF Init
  <2>2. ToSet(<< >>) = {} /\ Len(<< >>) = 0 /\ 1 .. 0 = {}
    BY DEF ToSet
  <2>3. QED
    BY <2>1, <2>2 DEF Behind, Told
<1>3. QED
  BY <1>1, <1>2 DEF ListInv

LEMMA OneMore ==
  ASSUME NEW a \in Nat, NEW b \in Nat, NEW m \in Nat, a + b = m - 1
  PROVE  (a + 1) + b = (m + 1) - 1 /\ a + (b + 1) = (m + 1) - 1
OBVIOUS

(* A file that is put in a list is the one after those behind.             *)
LEMMA BehindGrows ==
  ASSUME TypeInv, NEW p \in Procs, Behind(p), at[p] \in Files,
         \A f \in Files : Exists(f) => Exists(f)', disk'[at[p]] # "absent",
         at'[p] = at[p] + 1,
         \/ created'[p] = Append(created[p], at[p]) /\ skipped'[p] = skipped[p]
         \/ skipped'[p] = Append(skipped[p], at[p]) /\ created'[p] = created[p]
  PROVE  Behind(p)'
<1> DEFINE c == created[p]
           s == skipped[p]
           n == at[p]
<1>1. /\ n \in Nat /\ n >= 1 /\ n <= FileCount
      /\ 1 .. (n + 1) - 1 = (1 .. n - 1) \cup {n} /\ n \notin 1 .. n - 1
      /\ 1 .. n - 1 \subseteq Files
  BY ListTypes DEF Files
<1>2. c \in Seq(Files) /\ s \in Seq(Files) /\ Len(c) \in Nat /\ Len(s) \in Nat
  BY ListTypes
<1>3. /\ Len(c) + Len(s) = n - 1
      /\ ToSet(c) \cup ToSet(s) = 1 .. n - 1
      /\ ToSet(c) \cap ToSet(s) = {}
      /\ \A f \in 1 .. n - 1 : Exists(f)
  BY DEF Behind
<1>4. /\ ToSet(Append(c, n)) = ToSet(c) \cup {n} /\ Len(Append(c, n)) = Len(c) + 1
      /\ ToSet(Append(s, n)) = ToSet(s) \cup {n} /\ Len(Append(s, n)) = Len(s) + 1
  <2> HIDE DEF c, s, n
  <2> QED
    BY <1>2, Appended DEF n
<1>5. \A f \in 1 .. (n + 1) - 1 : Exists(f)'
  <2> SUFFICES ASSUME NEW f \in (1 .. n - 1) \cup {n} PROVE Exists(f)'
    BY <1>1
  <2>1. CASE f \in 1 .. n - 1
    BY <1>1, <1>3, <2>1
  <2>2. CASE f = n
    BY <2>2 DEF Exists
  <2>3. QED
    BY <2>1, <2>2
<1>6. Len(created'[p]) + Len(skipped'[p]) = (n + 1) - 1
  <2>1. \/ Len(created'[p]) = Len(c) + 1 /\ Len(skipped'[p]) = Len(s)
        \/ Len(created'[p]) = Len(c) /\ Len(skipped'[p]) = Len(s) + 1
    BY <1>4
  <2>2. \/ Len(created'[p]) + Len(skipped'[p]) = (Len(c) + 1) + Len(s)
        \/ Len(created'[p]) + Len(skipped'[p]) = Len(c) + (Len(s) + 1)
    BY <2>1, Zenon
  <2>4. Len(c) \in Nat /\ Len(s) \in Nat /\ n \in Nat /\ Len(c) + Len(s) = n - 1
    BY <1>1, <1>2, <1>3
  <2>5. /\ (Len(c) + 1) + Len(s) = (n + 1) - 1
        /\ Len(c) + (Len(s) + 1) = (n + 1) - 1
    BY <2>4, OneMore
  <2>6. QED
    BY <2>2, <2>5, Zenon
<1>7. /\ ToSet(created'[p]) \cup ToSet(skipped'[p]) = (1 .. n - 1) \cup {n}
      /\ ToSet(created'[p]) \cap ToSet(skipped'[p]) = {}
  <2>1. CASE created'[p] = Append(c, n) /\ skipped'[p] = s
    BY <1>1, <1>3, <1>4, <2>1
  <2>2. CASE skipped'[p] = Append(s, n) /\ created'[p] = c
    BY <1>1, <1>3, <1>4, <2>2
  <2>3. QED
    BY <2>1, <2>2
<1>8. QED
  BY <1>1, <1>5, <1>6, <1>7 DEF Behind

LEMMA ListStep == ListInv /\ [Next]_vars => ListInv'
<1> SUFFICES ASSUME ListInv, [Next]_vars PROVE ListInv'
  OBVIOUS
<1>1. TypeInv /\ TypeInv'
  BY TypeStep DEF ListInv
<1>2. \A f \in Files : Exists(f) => Exists(f)'
  BY <1>1, NothingDeleted
<1>3. ASSUME NEW p \in Procs PROVE Behind(p)' /\ Told(p)'
  <2>0. Behind(p) /\ Told(p)
    BY DEF ListInv
  <2>1. UNCHANGED <<created[p], skipped[p], at[p]>> => Behind(p)'
    <3>1. 1 .. at[p] - 1 \subseteq Files
      BY <1>1, ListTypes
    <3>2. QED
      BY <1>2, <2>0, <3>1 DEF Behind
  <2>2. CASE Start(p)
    <3>1. /\ created'[p] = << >> /\ skipped'[p] = << >> /\ at'[p] = 1
          /\ result'[p] = "none"
      BY <1>1, <2>2 DEF Start, TypeInv
    <3>2. ToSet(<< >>) = {} /\ Len(<< >>) = 0 /\ 1 .. 1 - 1 = {}
      BY DEF ToSet
    <3>3. QED
      BY <3>1, <3>2 DEF Behind, Told
  <2>3. CASE Stat(p)
    <3>1. at[p] \in Files /\ result'[p] = "none"
      BY <1>1, <2>0, <2>3, AtFile DEF Stat, Told
    <3>2. CASE Exists(at[p])
      <4>1. /\ skipped'[p] = Append(skipped[p], at[p]) /\ created'[p] = created[p]
            /\ at'[p] = at[p] + 1
        BY <1>1, <2>3, <3>2 DEF Stat, At, TypeInv
      <4>2. Behind(p)'
        <5>1. disk'[at[p]] # "absent"
          BY <1>2, <3>1, <3>2 DEF Exists
        <5>2. QED
          BY <1>1, <1>2, <2>0, <3>1, <4>1, <5>1, BehindGrows
      <4>3. QED
        BY <3>1, <4>2 DEF Told
    <3>3. CASE ~Exists(at[p])
      BY <2>1, <2>3, <3>1, <3>3 DEF Stat, At, Told
    <3>4. QED
      BY <3>2, <3>3
  <2>4. CASE MkdirAll(p) \/ OpenFile(p) \/ Crash(p) \/ (WriteFile(p) /\ ~NextFile(p))
    <3>1. UNCHANGED <<created, skipped, at>> /\ pc[p] # "idle"
      BY <2>4 DEF MkdirAll, OpenFile, WriteFile, Crash, Fail
    <3>2. \/ result'[p] = "none"
          \/ pc'[p] = "idle" /\ result'[p] \in {"error", "crashed"}
      <4>1. result[p] = "none"
        BY <2>0, <3>1 DEF Told
      <4>2. Fail(p) => pc'[p] = "idle" /\ result'[p] = "error"
        BY <1>1 DEF Fail, TypeInv
      <4>3. Crash(p) => pc'[p] = "idle" /\ result'[p] = "crashed"
        BY <1>1 DEF Crash, TypeInv
      <4>4. Fail(p) \/ Crash(p) \/ UNCHANGED result
        BY <2>4 DEF MkdirAll, OpenFile, WriteFile
      <4>5. QED
        BY <4>1, <4>2, <4>3, <4>4
    <3>3. QED
      BY <2>1, <3>1, <3>2 DEF Told
  <2>5. CASE WriteFile(p) /\ NextFile(p)
    <3>1. at[p] \in Files /\ result'[p] = "none"
      BY <1>1, <2>0, <2>5, AtFile DEF WriteFile, NextFile, Told
    <3>2. /\ created'[p] = Append(created[p], at[p]) /\ skipped'[p] = skipped[p]
          /\ at'[p] = at[p] + 1
      BY <1>1, <2>5 DEF NextFile, At, TypeInv
    <3>3. disk'[at[p]] # "absent"
      <4>1. Written(p)
        <5>1. ~Fail(p)
          BY <1>1, <2>5 DEF NextFile, Fail, TypeInv
        <5>2. QED
          BY <2>5, <5>1 DEF WriteFile
      <4>2. QED
        BY <1>1, <3>1, <4>1 DEF Written, At, TypeInv
    <3>4. Behind(p)'
      BY <1>1, <1>2, <2>0, <3>1, <3>2, <3>3, BehindGrows
    <3>5. QED
      BY <3>1, <3>4 DEF Told
  <2>6. CASE Return(p)
    <3>1. at[p] = FileCount + 1
      <4>1. at[p] \in Nat /\ at[p] <= FileCount + 1
        BY <1>1, ListTypes
      <4>2. ~(at[p] <= FileCount)
        BY <2>6 DEF Return, InList
      <4>3. QED
        BY <4>1, <4>2, FileCountAssumption
    <3>2. /\ UNCHANGED <<created[p], skipped[p], at[p]>> /\ pc'[p] = "idle"
          /\ result'[p] = IF created[p] # << >> THEN "initialized" ELSE "nothing to do"
      BY <1>1, <2>6 DEF Return, TypeInv
    <3>3. QED
      BY <2>1, <3>1, <3>2 DEF Told
  <2>7. ASSUME NEW q \in Procs, q # p, Start(q) \/ Continue(q) \/ Crash(q)
        PROVE  UNCHANGED <<created[p], skipped[p], at[p], pc[p], result[p]>>
    BY <1>1, <2>7, OthersStay
  <2>8. CASE UNCHANGED <<created[p], skipped[p], at[p], pc[p], result[p]>>
    BY <2>0, <2>1, <2>8 DEF Told
  <2>9. QED
    BY <2>2, <2>3, <2>4, <2>5, <2>6, <2>7, <2>8 DEF Next, Continue, Edit, vars, procVars
<1>4. QED
  BY <1>1, <1>3 DEF ListInv

(* A command that ends without an error has dealt with every file, in one  *)
(* list or the other, and leaves none missing.                             *)
THEOREM NothingMissing == Spec => []AllThere
<1>1. ListInv => AllThere
  <2> SUFFICES ASSUME ListInv, NEW p \in Procs
               PROVE  /\ Len(created[p]) + Len(skipped[p]) = at[p] - 1
                      /\ ToSet(created[p]) \cup ToSet(skipped[p]) = 1 .. at[p] - 1
                      /\ result[p] \in {"initialized", "nothing to do"} =>
                           /\ \A f \in Files : Exists(f)
                           /\ result[p] = "nothing to do" <=> ToSet(skipped[p]) = Files
    BY DEF AllThere
  <2>1. Behind(p) /\ Told(p) /\ created[p] \in Seq(Files)
    BY DEF ListInv, TypeInv
  <2>2. created[p] = << >> <=> ToSet(created[p]) = {}
    BY <2>1, NoElements
  <2>3. ASSUME result[p] \in {"initialized", "nothing to do"}
        PROVE  /\ \A f \in Files : Exists(f)
               /\ result[p] = "nothing to do" <=> ToSet(skipped[p]) = Files
    <3>1. 1 .. at[p] - 1 = Files
      <4>1. at[p] = FileCount + 1
        BY <2>1, <2>3 DEF Told
      <4>2. (FileCount + 1) - 1 = FileCount
        BY FileCountAssumption
      <4>3. QED
        BY <4>1, <4>2 DEF Files
    <3>2. /\ ToSet(created[p]) \cup ToSet(skipped[p]) = Files
          /\ ToSet(created[p]) \cap ToSet(skipped[p]) = {}
          /\ \A f \in Files : Exists(f)
      BY <2>1, <3>1 DEF Behind
    <3>3. ToSet(created[p]) = {} <=> ToSet(skipped[p]) = Files
      BY <3>2
    <3>4. QED
      BY <2>1, <2>2, <2>3, <3>2, <3>3 DEF Told
  <2>4. QED
    BY <2>1, <2>3 DEF Behind
<1>2. QED
  BY <1>1, ListInit, ListStep, PTL DEF Spec
=============================================================================
