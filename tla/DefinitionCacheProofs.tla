------------------------ MODULE DefinitionCacheProofs ------------------------
(***************************************************************************)
(* The definition cache for any processes, files, paths, edits and crashes *)
(*                                                                         *)
(* What a cache says is right as long as the files it names are as old as  *)
(* it knows them: that is Faithful, an invariant of every cache that is    *)
(* stored or in memory, however the files change later.  It needs that no  *)
(* file changes between the two scans of BuildCache.  That the cache file  *)
(* is whole needs that one process writes: the invariant follows what it   *)
(* has written under the temporary name from open to rename.               *)
(*                                                                         *)
(* That a current index finds every definition is also a fact about the    *)
(* walk: no file comes twice, so a file's definitions of a kind stand in   *)
(* their order (Placed), and all its nodes come before its relationships   *)
(* (EveryPlace).                                                           *)
(***************************************************************************)
EXTENDS DefinitionCache, FiniteSetTheorems, WellFoundedInduction, TLAPS

Labels == {"idle", "read", "check", "parse", "stat", "open", "write", "rename", "defs"}

Types ==
  /\ DOMAIN files = Files /\ now \in Nat
  /\ \A f \in Files : files[f].Mtime \in 0 .. now
  /\ DOMAIN inode = Inodes
  /\ pc \in [Procs -> Labels]
  /\ command \in [Procs -> CommandNames \cup {"none"}]
  /\ DOMAIN env = Procs /\ DOMAIN cache = Procs /\ DOMAIN result = Procs
  /\ DOMAIN fd = Procs
  /\ \A p \in Procs :
       /\ pc[p] = "read" => command[p] \in CommandNames \ {"refresh"}
       /\ pc[p] = "check" => command[p] \in {"load", "auto", "status"}
       /\ pc[p] # "idle" => result[p] = "none"

Steps(p) == Start(p) \/ Continue(p) \/ Crash(p)

Alone(p) ==
  \A q \in Procs \ {p} :
    /\ pc'[q] = pc[q] /\ command'[q] = command[q] /\ env'[q] = env[q]
    /\ cache'[q] = cache[q] /\ result'[q] = result[q] /\ fd'[q] = fd[q]

(* The two steps that a CASE decides, alternative by alternative. *)
LEMMA ReadCases ==
  ASSUME NEW p \in Procs, ReadCache(p)
  PROVE  /\ pc[p] = "read" /\ UNCHANGED <<fileVars, diskVars, fd>>
         /\ \/ path = 0 /\ command[p] # "status" /\ Go(p, "parse")
            \/ /\ path # 0 /\ inode[path].State = "whole"
               /\ command[p] = "mcp" /\ Goto(p, "defs", inode[path].Cache)
            \/ /\ path # 0 /\ inode[path].State = "whole"
               /\ command[p] # "mcp" /\ Goto(p, "check", inode[path].Cache)
            \/ \E how \in {"ok", "unreadable cache"} : End(p, how)
<1>1. CASE path = 0
  BY <1>1 DEF ReadCache
<1>2. CASE path # 0 /\ inode[path].State = "whole"
  BY <1>2 DEF ReadCache
<1>3. CASE path # 0 /\ inode[path].State # "whole"
  BY <1>3 DEF ReadCache
<1>4. QED
  BY <1>1, <1>2, <1>3

LEMMA CheckCases ==
  ASSUME Types, NEW p \in Procs, Check(p)
  PROVE  /\ pc[p] = "check" /\ UNCHANGED <<fileVars, diskVars, fd>>
         /\ \/ command[p] = "load" /\ Go(p, "defs")
            \/ command[p] = "auto" /\ Goto(p, "parse", NoCache)
            \/ \E how \in {"ok", "stale"} : End(p, how)
<1>1. pc[p] = "check" /\ command[p] \in {"load", "auto", "status"}
  BY DEF Check, Types
<1>2. CASE command[p] = "load"
  BY <1>1, <1>2 DEF Check
<1>3. CASE command[p] = "auto"
  BY <1>1, <1>3 DEF Check
<1>4. CASE command[p] = "status"
  BY <1>1, <1>4 DEF Check
<1>5. QED
  BY <1>1, <1>2, <1>3, <1>4

LEMMA TypesInit == Init => Types
BY DEF Init, Types, Labels, CommandNames

LEMMA TypesNext == Types /\ [Next]_vars => Types'
<1>1. SUFFICES ASSUME Types, [Next]_vars PROVE Types'
  OBVIOUS
<1>2. CASE UNCHANGED vars
  BY <1>1, <1>2 DEF Types, vars, fileVars, diskVars, procVars
<1>3. ASSUME NEW f \in Files, Edit(f) PROVE Types'
  <2>1. /\ DOMAIN files' = Files /\ now' = now + 1
        /\ \A g \in Files : files'[g].Mtime = files[g].Mtime \/ files'[g].Mtime \in {0, now'}
    BY <1>1, <1>3 DEF Edit, Types
  <2>2. UNCHANGED <<diskVars, procVars>>
    BY <1>3 DEF Edit
  <2>3. now' \in Nat /\ \A g \in Files : files'[g].Mtime \in 0 .. now'
    BY <1>1, <2>1 DEF Types
  <2>4. QED
    BY <1>1, <2>1, <2>2, <2>3 DEF Types, diskVars, procVars
<1>4. CASE DamageCache
  <2>1. now' = now + 1 /\ DOMAIN inode' = DOMAIN inode /\ UNCHANGED <<files, procVars>>
    BY <1>4 DEF DamageCache
  <2>2. now' \in Nat /\ \A g \in Files : files'[g].Mtime \in 0 .. now'
    BY <1>1, <2>1 DEF Types
  <2>3. QED
    BY <1>1, <2>1, <2>2 DEF Types, procVars
<1>5. ASSUME NEW p \in Procs, Steps(p) PROVE Types'
  <2>. USE DEF Types, Labels, CommandNames
  <2>1. CASE Start(p)
    <3>1. PICK c \in Runs[p], dirs \in Paths :
            /\ command' = [command EXCEPT ![p] = c]
            /\ env' = [env EXCEPT ![p] = dirs]
            /\ pc' = [pc EXCEPT ![p] = IF c = "refresh" THEN "parse" ELSE "read"]
      BY <2>1 DEF Start
    <3>2. c \in CommandNames
      BY <3>1, RunsAssumption
    <3>3. result' = [result EXCEPT ![p] = "none"]
          /\ UNCHANGED <<fileVars, diskVars, cache, fd>>
      BY <2>1 DEF Start
    <3>4. QED
      BY <1>1, <3>1, <3>2, <3>3 DEF fileVars, diskVars
  <2>2. CASE ReadCache(p)
    <3>1. pc[p] = "read" /\ UNCHANGED <<fileVars, diskVars, fd>>
      BY <2>2, ReadCases
    <3>2. CASE command[p] # "status" /\ Go(p, "parse")
      BY <1>1, <3>1, <3>2 DEF Go, Goto, fileVars, diskVars
    <3>3. CASE command[p] = "mcp" /\ Goto(p, "defs", inode[path].Cache)
      BY <1>1, <3>1, <3>3 DEF Goto, fileVars, diskVars
    <3>4. CASE command[p] # "mcp" /\ Goto(p, "check", inode[path].Cache)
      BY <1>1, <3>1, <3>4 DEF Goto, fileVars, diskVars
    <3>5. ASSUME NEW how, End(p, how) PROVE Types'
      BY <1>1, <3>1, <3>5 DEF End, fileVars, diskVars
    <3>6. QED
      BY <2>2, <3>2, <3>3, <3>4, <3>5, ReadCases
  <2>3. CASE Check(p)
    <3>1. pc[p] = "check" /\ UNCHANGED <<fileVars, diskVars, fd>>
      BY <1>1, <2>3, CheckCases
    <3>2. CASE command[p] = "load" /\ Go(p, "defs")
      BY <1>1, <3>1, <3>2 DEF Go, Goto, fileVars, diskVars
    <3>3. CASE command[p] = "auto" /\ Goto(p, "parse", NoCache)
      BY <1>1, <3>1, <3>3 DEF Goto, fileVars, diskVars
    <3>4. ASSUME NEW how, End(p, how) PROVE Types'
      BY <1>1, <3>1, <3>4 DEF End, fileVars, diskVars
    <3>5. QED
      BY <1>1, <2>3, <3>2, <3>3, <3>4, CheckCases
  <2>4. CASE Parse(p)
    <3>1. pc[p] = "parse" /\ UNCHANGED <<fileVars, diskVars, fd>>
      BY <2>4 DEF Parse
    <3>2. ASSUME NEW c, Goto(p, "stat", c) PROVE Types'
      BY <1>1, <3>1, <3>2 DEF Goto, fileVars, diskVars
    <3>3. ASSUME NEW how, End(p, how) PROVE Types'
      BY <1>1, <3>1, <3>3 DEF End, fileVars, diskVars
    <3>4. QED
      BY <2>4, <3>2, <3>3 DEF Parse
  <2>5. CASE Stat(p)
    BY <1>1, <2>5 DEF Stat, Goto, fileVars, diskVars
  <2>6. CASE OpenTmp(p)
    BY <1>1, <2>6 DEF OpenTmp, Go, Goto, fileVars
  <2>7. CASE WriteTmp(p)
    BY <1>1, <2>7 DEF WriteTmp, Collect, Go, Goto, fileVars
  <2>8. CASE Rename(p)
    <3>1. pc[p] = "rename" /\ UNCHANGED <<fileVars, fd>> /\ DOMAIN inode' = Inodes
      BY <2>8 DEF Rename, Collect
    <3>2. CASE Go(p, "defs")
      BY <1>1, <3>1, <3>2 DEF Go, Goto, fileVars
    <3>3. ASSUME NEW how, End(p, how) PROVE Types'
      BY <1>1, <3>1, <3>3 DEF End, fileVars
    <3>4. QED
      BY <2>8, <3>2, <3>3 DEF Rename
  <2>9. CASE LoadDefs(p)
    BY <1>1, <2>9 DEF LoadDefs, End, fileVars, diskVars
  <2>10. CASE Crash(p)
    BY <1>1, <2>10 DEF Crash, Collect, End, fileVars
  <2>11. CASE WriteFails(p)
    <3>1. pc[p] # "idle" /\ UNCHANGED fileVars /\ DOMAIN inode' = Inodes /\ DOMAIN fd' = Procs
      BY <1>1, <2>11 DEF WriteFails, Collect
    <3>2. CASE Go(p, "defs")
      BY <1>1, <3>1, <3>2 DEF Go, Goto, fileVars
    <3>3. ASSUME NEW how, End(p, how) PROVE Types'
      BY <1>1, <3>1, <3>3 DEF End, fileVars
    <3>4. QED
      BY <2>11, <3>2, <3>3 DEF WriteFails
  <2>12. QED
    BY <1>5, <2>1, <2>2, <2>3, <2>4, <2>5, <2>6, <2>7, <2>8, <2>9, <2>10, <2>11
       DEF Steps, Continue
<1>6. QED
  BY <1>1, <1>2, <1>3, <1>4, <1>5 DEF Next, Steps

(* A step of a process leaves the files alone and what the others have in  *)
(* memory.                                                                 *)
LEMMA StepsAlone ==
  ASSUME Types, NEW p \in Procs, Steps(p)
  PROVE  Alone(p) /\ UNCHANGED fileVars
<1>. USE DEF Types, Alone
<1>1. CASE Start(p)
  BY <1>1 DEF Start
<1>2. CASE ReadCache(p)
  <2>1. UNCHANGED <<fileVars, fd>>
    BY <1>2, ReadCases
  <2>2. ASSUME NEW label, NEW c, Goto(p, label, c) PROVE Alone(p)
    BY <2>1, <2>2 DEF Goto
  <2>3. ASSUME NEW how, End(p, how) PROVE Alone(p)
    BY <2>1, <2>3 DEF End
  <2>4. QED
    BY <1>2, <2>1, <2>2, <2>3, ReadCases DEF Go
<1>3. CASE Check(p)
  BY <1>3, CheckCases DEF Go, Goto, End
<1>4. CASE Parse(p)
  BY <1>4 DEF Parse, Goto, End
<1>5. CASE Stat(p)
  BY <1>5 DEF Stat, Goto
<1>6. CASE OpenTmp(p)
  BY <1>6 DEF OpenTmp, Go, Goto
<1>7. CASE WriteTmp(p)
  BY <1>7 DEF WriteTmp, Go, Goto
<1>8. CASE Rename(p)
  BY <1>8 DEF Rename, Go, Goto, End
<1>9. CASE LoadDefs(p)
  BY <1>9 DEF LoadDefs, End
<1>10. CASE Crash(p)
  BY <1>10 DEF Crash, End
<1>11. CASE WriteFails(p)
  BY <1>11 DEF WriteFails, Go, Goto, End
<1>12. QED
  BY <1>1, <1>2, <1>3, <1>4, <1>5, <1>6, <1>7, <1>8, <1>9, <1>10, <1>11 DEF Steps, Continue

-----------------------------------------------------------------------------
(* A cache is right as long as its files are.                              *)

Untouched(c, contents) ==
  \A f \in DOMAIN c.Files :
    contents[f].Mtime > 0 /\ contents[f].Mtime <= c.Files[f]

Seen(c, contents) == [f \in DOMAIN c.Files |-> contents[f].Content]

Faithful(c, contents, time) ==
  /\ \A f \in DOMAIN c.Files :
       /\ f \in Files /\ \E k \in DOMAIN c.Path : DirOf[f] = c.Path[k]
       /\ c.Files[f] \in 0 .. time
  /\ Untouched(c, contents) =>
       /\ ~ParseFails(Seen(c, contents))
       /\ c.Entries = Index(LoadFromPath(Seen(c, contents), c.Path))

InMemory(p) == pc[p] \in {"open", "write", "rename", "check", "defs"}

BuiltNow(p) ==
  /\ ~ParseFails(Texts(env[p]))
  /\ cache[p] = [Path |-> env[p], Files |-> << >>, Entries |-> Entries(env[p])]

StoredFaithful ==
  \A n \in Inodes : inode[n].State = "whole" => Faithful(inode[n].Cache, files, now)

MemoryFaithful ==
  \A p \in Procs :
    /\ InMemory(p) => Faithful(cache[p], files, now)
    /\ pc[p] = "stat" => BuiltNow(p)

NamesInodes == {path, tmp} \subseteq {0} \cup Inodes

CacheInv == Types /\ NamesInodes /\ StoredFaithful /\ MemoryFaithful

(* An edit gives a file of the cache a later mtime, or takes it away.      *)
LEMMA EditKeepsFaithful ==
  ASSUME Types, NEW f \in Files, Edit(f), NEW c, Faithful(c, files, now)
  PROVE  Faithful(c, files', now')
<1>1. /\ now \in Nat /\ now' = now + 1
      /\ \A g \in Files \ {f} : files'[g] = files[g]
      /\ files'[f].Mtime \in {0, now'}
  BY DEF Edit, Types
<1>2. \A g \in DOMAIN c.Files : g \in Files /\ c.Files[g] \in 0 .. now
  BY DEF Faithful
<1>3. CASE f \in DOMAIN c.Files
  <2>1. ~Untouched(c, files')
    BY <1>1, <1>2, <1>3 DEF Untouched
  <2>2. QED
    BY <1>1, <2>1 DEF Faithful
<1>4. CASE f \notin DOMAIN c.Files
  <2>1. \A g \in DOMAIN c.Files : files'[g] = files[g]
    BY <1>1, <1>2, <1>4
  <2>2. Seen(c, files') = Seen(c, files) /\ (Untouched(c, files') <=> Untouched(c, files))
    BY <2>1 DEF Seen, Untouched
  <2>3. QED
    BY <1>1, <2>2 DEF Faithful
<1>5. QED
  BY <1>3, <1>4

(* The second scan of BuildCache makes its cache faithful.                 *)
LEMMA StatFaithful ==
  ASSUME Types, NEW p \in Procs, BuiltNow(p)
  PROVE  Faithful([cache[p] EXCEPT !.Files = Metadata(env[p])], files, now)
<1> DEFINE c == [cache[p] EXCEPT !.Files = Metadata(env[p])]
<1>1. /\ c.Path = env[p] /\ c.Entries = Entries(env[p])
      /\ c.Files = [f \in OnPath(env[p]) |-> files[f].Mtime]
  BY DEF BuiltNow, Metadata
<1>2. DOMAIN c.Files = OnPath(env[p]) /\ \A f \in OnPath(env[p]) : c.Files[f] = files[f].Mtime
  BY <1>1
<1>3. Seen(c, files) = Texts(env[p])
  BY <1>2 DEF Seen, Texts
<1>. HIDE DEF c
<1>4. \A f \in DOMAIN c.Files :
        /\ f \in Files /\ \E k \in DOMAIN c.Path : DirOf[f] = c.Path[k]
        /\ c.Files[f] \in 0 .. now
  BY <1>1, <1>2 DEF OnPath, Types
<1>5. ~ParseFails(Seen(c, files)) /\ c.Entries = Index(LoadFromPath(Seen(c, files), c.Path))
  BY <1>1, <1>3 DEF BuiltNow, Entries
<1>6. QED
  BY <1>4, <1>5 DEF Faithful, c

(* There is always an inode for a temporary file that has none.            *)
LEMMA FreeInode ==
  ASSUME tmp = 0
  PROVE  \E n \in Inodes : n \notin InUse
<1> DEFINE opened == {fd[p] : p \in Procs}
           open == [p \in Procs |-> fd[p]]
           c == Cardinality(Procs)
<1>1. IsFiniteSet(opened) /\ Cardinality(opened) <= c /\ c \in Nat
  <2>1. open \in Surjection(Procs, opened)
    BY DEF Surjection
  <2>2. QED
    BY <2>1, ProcsAssumption, FS_Surjection, FS_CardinalityType
<1>2. Cardinality(opened) \in Nat
  BY <1>1, FS_CardinalityType
<1>. HIDE DEF opened, open, c
<1>3. IsFiniteSet(opened \cup {path}) /\ Cardinality(opened \cup {path}) <= c + 1
  BY <1>1, <1>2, FS_AddElement
<1>4. IsFiniteSet(1 .. c + 2) /\ Cardinality(1 .. c + 2) = c + 2
  BY <1>1, FS_Interval
<1>5. Cardinality(opened \cup {path}) \in Nat
  BY <1>3, FS_CardinalityType
<1>6. ~(1 .. c + 2 \subseteq opened \cup {path})
  <2>1. SUFFICES ASSUME 1 .. c + 2 \in SUBSET (opened \cup {path}) PROVE FALSE
    OBVIOUS
  <2>2. Cardinality(1 .. c + 2) <= Cardinality(opened \cup {path})
    BY <1>3, <2>1, FS_Subset
  <2>3. QED
    BY <1>1, <1>3, <1>4, <1>5, <2>2
<1>7. PICK n \in 1 .. c + 2 : n \notin opened /\ n # path
  BY <1>6
<1>8. n # 0
  BY <1>1, <1>7
<1>9. n \in Inodes /\ n \notin InUse
  BY <1>7, <1>8 DEF Inodes, InUse, opened, c
<1>10. QED
  BY <1>9

(* The inode OpenTmp takes. *)
LEMMA OpenedInode ==
  ASSUME NEW p \in Procs, OpenTmp(p), tmp \in {0} \cup Inodes
  PROVE  /\ tmp' \in Inodes /\ fd' = [fd EXCEPT ![p] = tmp']
         /\ inode' = [inode EXCEPT ![tmp'] = Empty]
         /\ tmp # 0 => tmp' = tmp
         /\ tmp = 0 => tmp' \notin InUse
<1>1. tmp = 0 => \E n \in Inodes : n \notin InUse
  BY FreeInode
<1>2. CASE tmp = 0
  BY <1>1, <1>2 DEF OpenTmp
<1>3. CASE tmp # 0
  BY <1>3 DEF OpenTmp
<1>4. QED
  BY <1>2, <1>3

LEMMA Named ==
  ASSUME NamesInodes, [Next]_vars
  PROVE  NamesInodes'
<1>. USE DEF NamesInodes, Inodes
<1>1. CASE UNCHANGED <<tmp, path>>
  BY <1>1
<1>2. ASSUME NEW p \in Procs, OpenTmp(p) PROVE NamesInodes'
  <2>1. tmp' \in Inodes /\ path' = path
    BY <1>2, OpenedInode DEF OpenTmp
  <2>2. QED
    BY <2>1
<1>3. ASSUME NEW p \in Procs, Rename(p) PROVE NamesInodes'
  BY <1>3 DEF Rename
<1>4. ASSUME NEW p \in Procs,
             \/ Start(p) \/ ReadCache(p) \/ Check(p) \/ Parse(p) \/ Stat(p)
             \/ WriteTmp(p) \/ WriteFails(p) \/ LoadDefs(p) \/ Crash(p)
      PROVE  UNCHANGED <<tmp, path>>
  BY <1>4 DEF Start, ReadCache, Check, Parse, Stat, WriteTmp, WriteFails, LoadDefs, Crash,
              diskVars
<1>5. ASSUME DamageCache \/ \E f \in Files : Edit(f)
      PROVE  UNCHANGED <<tmp, path>>
  BY <1>5 DEF DamageCache, Edit, diskVars
<1>6. CASE UNCHANGED vars
  BY <1>6, <1>1 DEF vars, diskVars
<1>7. QED
  BY <1>1, <1>2, <1>3, <1>4, <1>5, <1>6 DEF Next, Continue

(* What an inode has after the step of a process it had before, or it is   *)
(* the JSON of the process that writes.                                    *)
LEMMA StoredSteps ==
  ASSUME Types, tmp \in {0} \cup Inodes, NEW p \in Procs, Steps(p), NEW n \in Inodes,
         inode'[n].State = "whole"
  PROVE  \/ inode'[n] = inode[n]
         \/ pc[p] = "write" /\ inode'[n] = JSON(cache[p])
<1>0. DOMAIN inode = Inodes /\ inode'[n] # Empty
  BY DEF Types, Empty, Bytes
<1>1. CASE \/ Start(p) \/ ReadCache(p) \/ Check(p) \/ Parse(p) \/ Stat(p) \/ LoadDefs(p)
  BY <1>1 DEF Start, ReadCache, Check, Parse, Stat, LoadDefs, diskVars
<1>2. CASE OpenTmp(p)
  BY <1>0, <1>2, OpenedInode
<1>3. CASE Rename(p) \/ WriteFails(p) \/ Crash(p)
  BY <1>0, <1>3 DEF Rename, WriteFails, Crash, Collect
<1>4. CASE WriteTmp(p)
  <2>1. /\ pc[p] = "write"
        /\ inode'[n] \in {[inode EXCEPT ![fd[p]] = Overlay(@, JSON(cache[p]))][n], Empty}
    BY <1>4 DEF WriteTmp, Collect
  <2>2. inode'[n] \in {inode[n], Overlay(inode[n], JSON(cache[p]))}
    BY <1>0, <2>1
  <2>3. Overlay(inode[n], JSON(cache[p])) = JSON(cache[p])
        \/ Overlay(inode[n], JSON(cache[p])).State = "torn"
    BY DEF Overlay, Bytes
  <2>4. QED
    BY <2>1, <2>2, <2>3
<1>5. QED
  BY <1>1, <1>2, <1>3, <1>4 DEF Steps, Continue

LEMMA StoredStep ==
  ASSUME CacheInv, NEW p \in Procs, Steps(p)
  PROVE  StoredFaithful'
<1>1. UNCHANGED <<files, now>>
  BY StepsAlone DEF CacheInv, fileVars
<1>2. SUFFICES ASSUME NEW n \in Inodes, inode'[n].State = "whole"
               PROVE  Faithful(inode'[n].Cache, files, now)
  BY <1>1 DEF StoredFaithful, Inodes
<1>3. CASE inode'[n] = inode[n]
  BY <1>2, <1>3 DEF CacheInv, StoredFaithful
<1>4. CASE pc[p] = "write" /\ inode'[n] = JSON(cache[p])
  <2>1. inode'[n].Cache = cache[p]
    BY <1>4 DEF JSON, Bytes
  <2>2. QED
    BY <1>4, <2>1 DEF CacheInv, MemoryFaithful, InMemory
<1>5. QED
  BY <1>2, <1>3, <1>4, StoredSteps DEF CacheInv, NamesInodes

LEMMA MemoryStep ==
  ASSUME CacheInv, NEW p \in Procs, Steps(p)
  PROVE  MemoryFaithful'
<1>1. /\ UNCHANGED <<files, now>> /\ Alone(p)
      /\ DOMAIN pc = Procs /\ DOMAIN cache = Procs /\ DOMAIN env = Procs
  BY StepsAlone DEF CacheInv, fileVars, Types
<1>2. \A dirs : Texts(dirs)' = Texts(dirs)
  BY <1>1 DEF Texts, OnPath, Exists, Files
<1>3. SUFFICES /\ InMemory(p)' => Faithful(cache'[p], files, now)
               /\ pc'[p] = "stat" => BuiltNow(p)'
  <2>1. SUFFICES ASSUME NEW q \in Procs \ {p}
                 PROVE  /\ InMemory(q)' => Faithful(cache'[q], files, now)
                        /\ pc'[q] = "stat" => BuiltNow(q)'
    BY <1>1 DEF MemoryFaithful
  <2>2. pc'[q] = pc[q] /\ cache'[q] = cache[q] /\ env'[q] = env[q]
    BY <1>1 DEF Alone
  <2>3. BuiltNow(q)' <=> BuiltNow(q)
    BY <1>1, <1>2, <2>2 DEF BuiltNow, Entries
  <2>4. QED
    BY <2>2, <2>3 DEF InMemory, CacheInv, MemoryFaithful
<1>4. ASSUME NEW how, End(p, how) PROVE pc'[p] = "idle"
  BY <1>1, <1>4 DEF End
<1>5. ASSUME NEW label, NEW c, Goto(p, label, c)
      PROVE  pc'[p] = label /\ cache'[p] = c /\ env'[p] = env[p]
  BY <1>1, <1>5 DEF Goto
<1>. USE DEF InMemory
<1>6. CASE Start(p)
  BY <1>1, <1>6 DEF Start
<1>7. CASE ReadCache(p)
  <2>1. ASSUME path # 0, inode[path].State = "whole",
               NEW label \in {"check", "defs"}, Goto(p, label, inode[path].Cache)
        PROVE  Faithful(cache'[p], files, now) /\ pc'[p] # "stat"
    <3>1. Faithful(inode[path].Cache, files, now)
      BY <2>1 DEF CacheInv, NamesInodes, StoredFaithful
    <3>2. QED
      BY <1>5, <2>1, <3>1
  <2>2. CASE Goto(p, "parse", cache[p])
    BY <1>5, <2>2
  <2>3. CASE \E how \in {"ok", "unreadable cache"} : End(p, how)
    BY <1>4, <2>3
  <2>4. QED
    BY <1>7, <2>1, <2>2, <2>3, ReadCases DEF Go
<1>8. CASE Check(p)
  <2>1. pc[p] = "check" /\ Faithful(cache[p], files, now)
    BY <1>8, CheckCases DEF CacheInv, MemoryFaithful
  <2>2. CASE Goto(p, "defs", cache[p])
    BY <1>5, <2>1, <2>2
  <2>3. CASE Goto(p, "parse", NoCache)
    BY <1>5, <2>3
  <2>4. CASE \E how \in {"ok", "stale"} : End(p, how)
    BY <1>4, <2>4
  <2>5. QED
    BY <1>8, <2>2, <2>3, <2>4, CheckCases DEF Go, CacheInv
<1>9. CASE Parse(p)
  <2>1. CASE ParseFails(Texts(env[p]))
    BY <1>4, <1>9, <2>1 DEF Parse
  <2>2. CASE ~ParseFails(Texts(env[p]))
    <3>1. pc'[p] = "stat" /\ env'[p] = env[p]
          /\ cache'[p] = [Path |-> env[p], Files |-> << >>, Entries |-> Entries(env[p])]
      BY <1>5, <1>9, <2>2 DEF Parse
    <3>2. BuiltNow(p)'
      BY <1>2, <2>2, <3>1 DEF BuiltNow, Entries
    <3>3. QED
      BY <3>1, <3>2
  <2>3. QED
    BY <2>1, <2>2
<1>10. CASE Stat(p)
  <2>1. BuiltNow(p)
    BY <1>10 DEF Stat, CacheInv, MemoryFaithful
  <2>2. Goto(p, "open", [cache[p] EXCEPT !.Files = Metadata(env[p])])
    BY <1>10 DEF Stat
  <2>3. QED
    BY <1>5, <2>1, <2>2, StatFaithful DEF CacheInv
<1>11. CASE OpenTmp(p)
  BY <1>5, <1>11 DEF OpenTmp, Go, CacheInv, MemoryFaithful
<1>12. CASE WriteTmp(p)
  BY <1>5, <1>12 DEF WriteTmp, Go, CacheInv, MemoryFaithful
<1>13. CASE Rename(p) \/ WriteFails(p)
  <2>1. pc[p] \in {"open", "write", "rename"} /\ Faithful(cache[p], files, now)
    BY <1>13 DEF Rename, WriteFails, CacheInv, MemoryFaithful
  <2>2. CASE Goto(p, "defs", cache[p])
    BY <1>5, <2>1, <2>2
  <2>3. CASE \E how : End(p, how)
    BY <1>4, <2>3
  <2>4. QED
    BY <1>13, <2>2, <2>3 DEF Rename, WriteFails, Go
<1>14. CASE LoadDefs(p) \/ Crash(p)
  BY <1>4, <1>14 DEF LoadDefs, Crash
<1>15. QED
  BY <1>6, <1>7, <1>8, <1>9, <1>10, <1>11, <1>12, <1>13, <1>14 DEF Steps, Continue

LEMMA CacheInvInit == Init => CacheInv
<1>1. SUFFICES ASSUME Init PROVE NamesInodes /\ StoredFaithful /\ MemoryFaithful
  BY TypesInit DEF CacheInv
<1>2. StoredFaithful
  BY <1>1 DEF Init, StoredFaithful, Empty, Bytes
<1>3. QED
  BY <1>1, <1>2 DEF Init, NamesInodes, MemoryFaithful, InMemory

LEMMA CacheInvNext ==
  ASSUME ~EditsDuringBuild
  PROVE  CacheInv /\ [Next]_vars => CacheInv'
<1>1. SUFFICES ASSUME CacheInv, [Next]_vars PROVE StoredFaithful' /\ MemoryFaithful'
  BY TypesNext, Named DEF CacheInv
<1>2. CASE UNCHANGED vars
  <2>1. UNCHANGED <<files, now, inode, pc, cache, env>>
    BY <1>2 DEF vars, fileVars, diskVars, procVars
  <2>2. \A p \in Procs : BuiltNow(p)' <=> BuiltNow(p)
    BY <2>1 DEF BuiltNow, Texts, Entries, OnPath, Exists, Files
  <2>3. StoredFaithful'
    BY <1>1, <2>1 DEF CacheInv, StoredFaithful, Inodes
  <2>4. MemoryFaithful'
    BY <1>1, <2>1, <2>2 DEF CacheInv, MemoryFaithful, InMemory
  <2>5. QED
    BY <2>3, <2>4
<1>3. ASSUME NEW f \in Files, Edit(f) PROVE StoredFaithful' /\ MemoryFaithful'
  <2>1. UNCHANGED <<inode, pc, cache, env>> /\ \A p \in Procs : pc[p] # "stat"
    BY <1>3 DEF Edit, Building, diskVars, procVars
  <2>2. \A c : Faithful(c, files, now) => Faithful(c, files', now')
    BY <1>1, <1>3, EditKeepsFaithful DEF CacheInv
  <2>3. StoredFaithful'
    BY <1>1, <2>1, <2>2 DEF CacheInv, StoredFaithful, Inodes
  <2>4. MemoryFaithful'
    BY <1>1, <2>1, <2>2 DEF CacheInv, MemoryFaithful, InMemory
  <2>5. QED
    BY <2>3, <2>4
<1>4. CASE DamageCache
  <2>1. /\ UNCHANGED <<files, pc, cache, env>> /\ now' = now + 1 /\ now \in Nat
        /\ DOMAIN inode = Inodes /\ inode' = [inode EXCEPT ![path] = Damaged]
    BY <1>1, <1>4 DEF DamageCache, procVars, CacheInv, Types
  <2>2. \A c : Faithful(c, files, now) => Faithful(c, files', now')
    BY <2>1 DEF Faithful
  <2>3. \A n \in Inodes : inode'[n] = inode[n] \/ inode'[n].State # "whole"
    BY <2>1 DEF Damaged, Bytes
  <2>4. StoredFaithful'
    BY <1>1, <2>2, <2>3 DEF CacheInv, StoredFaithful, Inodes
  <2>5. \A p \in Procs : BuiltNow(p)' <=> BuiltNow(p)
    BY <2>1 DEF BuiltNow, Texts, Entries, OnPath, Exists, Files
  <2>6. MemoryFaithful'
    BY <1>1, <2>1, <2>2, <2>5 DEF CacheInv, MemoryFaithful, InMemory
  <2>7. QED
    BY <2>4, <2>6
<1>5. ASSUME NEW p \in Procs, Steps(p) PROVE StoredFaithful' /\ MemoryFaithful'
  BY <1>1, <1>5, StoredStep, MemoryStep
<1>6. QED
  BY <1>1, <1>2, <1>3, <1>4, <1>5 DEF Next, Steps

(* A faithful cache that is called current is what a new build would make. *)
LEMMA CurrentEntries ==
  ASSUME Types, NEW p \in Procs, Faithful(cache[p], files, now),
         ~CheckStaleness(cache[p], env[p])
  PROVE  ~ParseFails(Texts(env[p])) /\ cache[p].Entries = Entries(env[p])
<1>1. cache[p].Path = env[p] /\ OnPath(env[p]) \subseteq DOMAIN cache[p].Files
  BY DEF CheckStaleness
<1>2. \A f \in DOMAIN cache[p].Files :
        /\ f \in Files /\ files[f].Mtime \in Nat /\ cache[p].Files[f] \in Nat
        /\ Exists(f) /\ ~(files[f].Mtime > cache[p].Files[f])
  BY DEF CheckStaleness, Faithful, Types
<1>3. Untouched(cache[p], files)
  BY <1>2 DEF Untouched, Exists
<1>4. DOMAIN cache[p].Files = OnPath(env[p])
  BY <1>1, <1>2 DEF Faithful, OnPath
<1>5. Seen(cache[p], files) = Texts(env[p])
  BY <1>4 DEF Seen, Texts
<1>6. QED
  BY <1>1, <1>3, <1>5 DEF Faithful, Entries

(* For any number of processes, any edits between any two steps but those  *)
(* of one build, and whoever dies when: a cache that is called current has *)
(* the entries a new one would have.                                       *)
THEOREM CurrentMeansUpToDate ==
  ASSUME ~EditsDuringBuild
  PROVE  Spec => []CurrentIsUpToDate
<1>1. CacheInv => CurrentIsUpToDate
  BY CurrentEntries DEF CurrentIsUpToDate, CacheInv, MemoryFaithful, InMemory
<1>2. QED
  BY <1>1, CacheInvInit, CacheInvNext, PTL DEF Spec

(* A cache that is what a new build would make is called current. *)
THEOREM FreshMeansCurrent == Spec => []FreshIsCurrent
<1>1. ASSUME Types PROVE FreshIsCurrent
  <2>1. SUFFICES ASSUME NEW p \in Procs,
                        cache[p] = [Path |-> env[p], Files |-> Metadata(env[p]),
                                    Entries |-> Entries(env[p])]
                 PROVE  ~CheckStaleness(cache[p], env[p])
    BY DEF FreshIsCurrent
  <2>2. /\ cache[p].Path = env[p] /\ DOMAIN cache[p].Files = OnPath(env[p])
        /\ \A f \in OnPath(env[p]) : cache[p].Files[f] = files[f].Mtime
    BY <2>1 DEF Metadata
  <2>3. \A f \in OnPath(env[p]) : Exists(f) /\ ~(files[f].Mtime > files[f].Mtime)
    BY <1>1 DEF OnPath, Types
  <2>4. QED
    BY <2>2, <2>3 DEF CheckStaleness
<1>2. QED
  BY <1>1, TypesInit, TypesNext, PTL DEF Spec

-----------------------------------------------------------------------------
(* What one process that writes has put under the temporary name.          *)

OthersRead(w) == \A p \in Procs \ {w} : Runs[p] \subseteq {"status"}

(* One process at most runs commands that write. *)
OneWriter == \E w \in Procs : OthersRead(w)

Apart == path # 0 => path # tmp

Reader(p) ==
  fd[p] = 0 /\ pc[p] \in {"idle", "read", "check"} /\ command[p] \in {"status", "none"}

Written(w) ==
  /\ pc[w] # "write" => fd[w] = 0
  /\ pc[w] = "write" => tmp # 0 /\ fd[w] = tmp /\ inode[tmp] = Empty
  /\ pc[w] = "rename" => tmp # 0 /\ inode[tmp] = JSON(cache[w])

WriteInv(w) ==
  /\ Types /\ NamesInodes /\ Apart /\ WritesAtomically
  /\ \A p \in Procs \ {w} : Reader(p)
  /\ Written(w)

(* Nobody but the writer has anything to do with the disk. *)
LEMMA ReaderStep ==
  ASSUME NEW w \in Procs, OthersRead(w), WriteInv(w), NEW p \in Procs \ {w}, Steps(p)
  PROVE  /\ Reader(p)' /\ UNCHANGED <<tmp, path>>
         /\ \A n \in {tmp, path} \ {0} : inode'[n] = inode[n]
<1>1. /\ Reader(p) /\ NamesInodes /\ Types
      /\ DOMAIN pc = Procs /\ DOMAIN command = Procs /\ DOMAIN fd = Procs
  BY DEF WriteInv, Types
<1>. USE DEF Reader
<1>2. ASSUME NEW how, End(p, how)
      PROVE  pc'[p] = "idle" /\ command'[p] = "none"
  BY <1>1, <1>2 DEF End
<1>3. CASE Start(p)
  <2>1. PICK c \in Runs[p] : command'[p] = c /\ pc'[p] = IF c = "refresh" THEN "parse" ELSE "read"
    BY <1>1, <1>3 DEF Start
  <2>2. c = "status"
    BY <2>1 DEF OthersRead
  <2>3. QED
    BY <1>1, <1>3, <2>1, <2>2 DEF Start, diskVars
<1>4. CASE ReadCache(p)
  <2>0. pc[p] = "read" /\ UNCHANGED <<diskVars, fd>>
    BY <1>4, ReadCases
  <2>1. command[p] = "status" /\ UNCHANGED <<diskVars, fd>>
    BY <1>1, <2>0 DEF Types, CommandNames
  <2>2. CASE Goto(p, "check", inode[path].Cache)
    BY <1>1, <2>1, <2>2 DEF Goto, diskVars
  <2>3. CASE \E how : End(p, how)
    BY <1>1, <1>2, <2>1, <2>3 DEF diskVars
  <2>4. QED
    BY <1>4, <2>1, <2>2, <2>3, ReadCases
<1>5. CASE Check(p)
  <2>1. command[p] = "status" /\ UNCHANGED <<diskVars, fd>>
    BY <1>1, <1>5, CheckCases DEF Types
  <2>2. PICK how : End(p, how)
    BY <1>1, <1>5, <2>1, CheckCases
  <2>3. QED
    BY <1>1, <1>2, <2>1, <2>2 DEF diskVars
<1>6. CASE Crash(p)
  <2>1. /\ fd'[p] = 0 /\ UNCHANGED <<tmp, path>> /\ Collect(inode) /\ End(p, "crashed")
    BY <1>1, <1>6 DEF Crash
  <2>2. \A n \in {tmp, path} \ {0} : inode'[n] = inode[n]
    BY <1>1, <2>1 DEF Collect, InUse, NamesInodes, Inodes
  <2>3. QED
    BY <1>2, <2>1, <2>2
<1>7. QED
  BY <1>1, <1>3, <1>4, <1>5, <1>6
     DEF Steps, Continue, Parse, Stat, OpenTmp, WriteTmp, Rename, WriteFails, LoadDefs

LEMMA WriterStep ==
  ASSUME NEW w \in Procs, WriteInv(w), Steps(w)
  PROVE  Apart' /\ WritesAtomically' /\ Written(w)'
<1>1. /\ Types /\ NamesInodes /\ Apart /\ WritesAtomically /\ Written(w)
      /\ DOMAIN inode = Inodes
      /\ DOMAIN pc = Procs /\ DOMAIN cache = Procs /\ DOMAIN fd = Procs
  BY DEF WriteInv, Types
<1>2. \A p \in Procs \ {w} : fd[p] = 0
  BY DEF WriteInv, Reader
<1>. USE DEF Apart, WritesAtomically, Written
<1>3. ASSUME NEW how, End(w, how) PROVE pc'[w] = "idle"
  BY <1>1, <1>3 DEF End
<1>4. ASSUME NEW label, NEW c, Goto(w, label, c) PROVE pc'[w] = label /\ cache'[w] = c
  BY <1>1, <1>4 DEF Goto
<1>5. ASSUME UNCHANGED <<diskVars, fd>>, pc[w] # "write", pc'[w] \notin {"write", "rename"}
      PROVE  Apart' /\ WritesAtomically' /\ Written(w)'
  BY <1>1, <1>5 DEF diskVars
<1>6. CASE Start(w)
  BY <1>1, <1>5, <1>6 DEF Start
<1>7. CASE ReadCache(w)
  <2>1. pc'[w] \in {"idle", "parse", "defs", "check"}
    <3>1. CASE \E label \in {"parse", "defs", "check"} : \E c : Goto(w, label, c)
      BY <1>4, <3>1
    <3>2. CASE \E how : End(w, how)
      BY <1>3, <3>2
    <3>3. QED
      BY <1>7, <3>1, <3>2, ReadCases DEF Go
  <2>2. QED
    BY <1>5, <1>7, <2>1, ReadCases
<1>8. CASE Check(w)
  <2>1. pc'[w] \in {"idle", "parse", "defs"}
    <3>1. CASE \E label \in {"parse", "defs"} : \E c : Goto(w, label, c)
      BY <1>4, <3>1
    <3>2. CASE \E how : End(w, how)
      BY <1>3, <3>2
    <3>3. QED
      BY <1>1, <1>8, <3>1, <3>2, CheckCases DEF Go
  <2>2. QED
    BY <1>1, <1>5, <1>8, <2>1, CheckCases
<1>9. CASE Parse(w)
  <2>1. pc'[w] \in {"idle", "stat"}
    BY <1>3, <1>4, <1>9 DEF Parse
  <2>2. QED
    BY <1>5, <1>9, <2>1 DEF Parse
<1>10. CASE Stat(w)
  <2>1. pc'[w] = "open"
    BY <1>4, <1>10 DEF Stat
  <2>2. QED
    BY <1>5, <1>10, <2>1 DEF Stat
<1>11. CASE OpenTmp(w)
  <2>1. /\ tmp' \in Inodes /\ fd' = [fd EXCEPT ![w] = tmp']
        /\ inode' = [inode EXCEPT ![tmp'] = Empty]
        /\ tmp # 0 => tmp' = tmp
        /\ tmp = 0 => tmp' \notin InUse
    BY <1>1, <1>11, OpenedInode DEF NamesInodes
  <2>2. path' = path /\ pc'[w] = "write"
    BY <1>4, <1>11 DEF OpenTmp, Go
  <2>3. path # 0 => path # tmp' /\ inode'[path] = inode[path]
    BY <1>1, <2>1 DEF InUse, NamesInodes
  <2>4. tmp' # 0 /\ inode'[tmp'] = Empty /\ fd'[w] = tmp'
    BY <1>1, <2>1 DEF Inodes
  <2>5. QED
    BY <1>1, <2>2, <2>3, <2>4
<1>12. CASE WriteTmp(w)
  <2>1. /\ UNCHANGED <<tmp, path>> /\ fd'[w] = 0 /\ fd[w] = tmp /\ tmp # 0
        /\ pc'[w] = "rename" /\ cache'[w] = cache[w] /\ inode[tmp] = Empty
    BY <1>1, <1>4, <1>12 DEF WriteTmp, Go
  <2>2. {tmp, path} \subseteq InUse'
    BY <2>1 DEF InUse
  <2>3. inode'[tmp] = JSON(cache[w])
    BY <1>1, <1>12, <2>1, <2>2 DEF WriteTmp, Collect, Overlay, NamesInodes
  <2>4. path # 0 => inode'[path] = inode[path]
    BY <1>1, <1>12, <2>1, <2>2 DEF WriteTmp, Collect, NamesInodes
  <2>5. QED
    BY <1>1, <2>1, <2>3, <2>4
<1>13. CASE Rename(w)
  <2>1. /\ pc[w] = "rename" /\ path' = tmp /\ tmp' = 0 /\ tmp # 0 /\ fd' = fd /\ fd[w] = 0
        /\ Collect(inode)
    BY <1>1, <1>13 DEF Rename
  <2>2. inode'[path'] = JSON(cache[w])
    BY <1>1, <2>1 DEF Collect, InUse, NamesInodes
  <2>3. pc'[w] \in {"idle", "defs"}
    <3>1. Goto(w, "defs", cache[w]) \/ \E how : End(w, how)
      BY <1>13 DEF Rename, Go
    <3>2. CASE Goto(w, "defs", cache[w])
      BY <1>4, <3>2
    <3>3. CASE \E how : End(w, how)
      BY <1>3, <3>3
    <3>4. QED
      BY <3>1, <3>2, <3>3
  <2>4. QED
    BY <2>1, <2>2, <2>3 DEF JSON, Bytes
<1>14. CASE LoadDefs(w)
  <2>1. pc'[w] = "idle"
    BY <1>3, <1>14 DEF LoadDefs
  <2>2. QED
    BY <1>5, <1>14, <2>1 DEF LoadDefs
<1>15. CASE Crash(w)
  <2>1. pc'[w] = "idle" /\ fd'[w] = 0 /\ UNCHANGED <<tmp, path>> /\ Collect(inode)
    BY <1>1, <1>3, <1>15 DEF Crash
  <2>2. path # 0 => inode'[path] = inode[path]
    BY <1>1, <2>1 DEF Collect, InUse, NamesInodes
  <2>3. QED
    BY <1>1, <2>1, <2>2
<1>16. CASE WriteFails(w)
  <2>1. fd'[w] = 0 /\ UNCHANGED <<tmp, path>> /\ Collect(inode)
    BY <1>1, <1>16 DEF WriteFails
  <2>2. pc'[w] \in {"idle", "defs"}
    <3>1. CASE Goto(w, "defs", cache[w])
      BY <1>4, <3>1
    <3>2. CASE End(w, "write error")
      BY <1>3, <3>2
    <3>3. QED
      BY <1>16, <3>1, <3>2 DEF WriteFails, Go
  <2>3. path # 0 => inode'[path] = inode[path]
    BY <1>1, <2>1 DEF Collect, InUse, NamesInodes
  <2>4. QED
    BY <1>1, <2>1, <2>2, <2>3
<1>17. QED
  BY <1>6, <1>7, <1>8, <1>9, <1>10, <1>11, <1>12, <1>13, <1>14, <1>15, <1>16
     DEF Steps, Continue

LEMMA WriteInvInit ==
  ASSUME NEW w \in Procs
  PROVE  Init => WriteInv(w)
BY TypesInit
   DEF Init, WriteInv, NamesInodes, Apart, WritesAtomically, Reader, Written

LEMMA WriteInvNext ==
  ASSUME NEW w \in Procs, OthersRead(w)
  PROVE  WriteInv(w) /\ [Next]_vars => WriteInv(w)'
<1>1. SUFFICES ASSUME WriteInv(w), [Next]_vars
               PROVE  /\ Apart' /\ WritesAtomically' /\ Written(w)'
                      /\ \A p \in Procs \ {w} : Reader(p)'
  BY TypesNext, Named DEF WriteInv
<1>. USE DEF Apart, WritesAtomically, Written
<1>2. CASE UNCHANGED <<diskVars, procVars>>
  <2>1. UNCHANGED <<inode, tmp, path, pc, command, cache, fd>>
    BY <1>2 DEF diskVars, procVars
  <2>2. QED
    BY <1>1, <2>1 DEF WriteInv, Reader
<1>3. CASE DamageCache
  <2>1. /\ UNCHANGED <<tmp, path, pc, command, cache, fd>>
        /\ inode' = [inode EXCEPT ![path] = Damaged]
    BY <1>3 DEF DamageCache, procVars
  <2>2. \A p \in Procs \ {w} : Reader(p)'
    BY <1>1, <2>1 DEF WriteInv, Reader
  <2>3. DOMAIN inode = Inodes /\ Apart /\ NamesInodes /\ path # 0 /\ path \in Inodes
    BY <1>1, <1>3 DEF WriteInv, Types, DamageCache, NamesInodes
  <2>4. inode'[path] = Damaged /\ inode'[tmp] = inode[tmp]
    BY <2>1, <2>3
  <2>5. WritesAtomically' /\ Apart' /\ Written(w)'
    BY <1>1, <2>1, <2>3, <2>4 DEF WriteInv, Damaged, Bytes
  <2>6. QED
    BY <2>2, <2>5
<1>4. ASSUME Steps(w)
      PROVE  /\ Apart' /\ WritesAtomically' /\ Written(w)'
             /\ \A p \in Procs \ {w} : Reader(p)'
  <2>1. Alone(w)
    BY <1>1, <1>4, StepsAlone DEF WriteInv
  <2>2. \A p \in Procs \ {w} : Reader(p)'
    BY <1>1, <2>1 DEF WriteInv, Reader, Alone
  <2>3. QED
    BY <1>1, <1>4, <2>2, WriterStep
<1>5. ASSUME NEW p \in Procs \ {w}, Steps(p)
      PROVE  /\ Apart' /\ WritesAtomically' /\ Written(w)'
             /\ \A q \in Procs \ {w} : Reader(q)'
  <2>1. /\ Reader(p)' /\ UNCHANGED <<tmp, path>>
        /\ \A n \in {tmp, path} \ {0} : inode'[n] = inode[n]
    BY <1>1, <1>5, ReaderStep
  <2>2. Alone(p)
    BY <1>1, <1>5, StepsAlone DEF WriteInv
  <2>3. \A q \in Procs \ {w} : Reader(q)'
    BY <1>1, <2>1, <2>2 DEF WriteInv, Reader, Alone
  <2>4. pc'[w] = pc[w] /\ cache'[w] = cache[w] /\ fd'[w] = fd[w]
    BY <1>5, <2>2 DEF Alone
  <2>5. QED
    BY <1>1, <2>1, <2>3, <2>4 DEF WriteInv
<1>6. ASSUME NEW f \in Files, Edit(f) PROVE UNCHANGED <<diskVars, procVars>>
  BY <1>6 DEF Edit
<1>7. CASE UNCHANGED vars
  BY <1>2, <1>7 DEF vars
<1>8. QED
  BY <1>1, <1>2, <1>3, <1>4, <1>5, <1>6, <1>7 DEF Next, Steps

(* With one process that writes and any number that ask for the status,    *)
(* whoever dies when: the cache file is absent or a whole cache, unless it *)
(* is damaged from outside.                                                *)
THEOREM AtomicWhenAlone ==
  ASSUME OneWriter
  PROVE  Spec => []WritesAtomically
<1>1. PICK w \in Procs : OthersRead(w)
  BY DEF OneWriter
<1>2. Init => WriteInv(w)
  BY WriteInvInit
<1>3. WriteInv(w) /\ [Next]_vars => WriteInv(w)'
  BY <1>1, WriteInvNext
<1>4. WriteInv(w) => WritesAtomically
  BY DEF WriteInv
<1>5. QED
  BY <1>2, <1>3, <1>4, PTL DEF Spec

(* And a refresh of it that says it was done has put the cache it built    *)
(* where the next command looks.                                           *)
THEOREM RefreshIsSeen ==
  ASSUME OneWriter
  PROVE  Spec => RefreshRepairs
<1>1. PICK w \in Procs : OthersRead(w)
  BY DEF OneWriter
<1>2. Init => WriteInv(w)
  BY WriteInvInit
<1>3. WriteInv(w) /\ [Next]_vars => WriteInv(w)'
  BY <1>1, WriteInvNext
<1>4. WriteInv(w) /\ [Next]_vars =>
        [\A p \in Procs :
           pc[p] = "rename" /\ result'[p] = "ok" =>
             path' # 0 /\ inode'[path'] = JSON(cache[p])]_vars
  <2>1. SUFFICES ASSUME WriteInv(w), Next, NEW p \in Procs,
                        pc[p] = "rename", result'[p] = "ok"
                 PROVE  path' # 0 /\ inode'[path'] = JSON(cache[p])
    OBVIOUS
  <2>2. Types /\ NamesInodes /\ Written(w) /\ p = w /\ result[p] = "none"
    BY <2>1 DEF WriteInv, Reader, Types
  <2>3. CASE Rename(p)
    <3>1. tmp # 0 /\ path' = tmp /\ Collect(inode)
      BY <2>1, <2>2, <2>3 DEF Rename, Written
    <3>2. QED
      BY <2>1, <2>2, <3>1 DEF Collect, InUse, NamesInodes, Written
  <2>4. CASE Crash(p) \/ WriteFails(p)
    BY <2>1, <2>2, <2>4 DEF Crash, WriteFails, Go, Goto, End, Types
  <2>5. ASSUME NEW q \in Procs \ {p}, Steps(q) PROVE FALSE
    BY <2>1, <2>2, <2>5, StepsAlone DEF Alone
  <2>6. ASSUME DamageCache \/ \E f \in Files : Edit(f) PROVE FALSE
    BY <2>1, <2>2, <2>6 DEF DamageCache, Edit, procVars
  <2>7. ASSUME Steps(p) PROVE Rename(p) \/ Crash(p) \/ WriteFails(p)
    BY <2>1, <2>7 DEF Steps, Continue, Start, ReadCache, Check, Parse, Stat, OpenTmp,
                      WriteTmp, LoadDefs
  <2>8. QED
    BY <2>1, <2>3, <2>4, <2>5, <2>6, <2>7 DEF Next, Steps
<1>5. QED
  BY <1>2, <1>3, <1>4, PTL DEF Spec, RefreshRepairs

-----------------------------------------------------------------------------
(* Sequences that a walk joins. *)

LEMMA Least ==
  ASSUME NEW T, T \subseteq Nat, T # {}
  PROVE  \E m \in T : \A k \in T : m <= k
<1> DEFINE L == {p \in Nat \X Nat : p[1] < p[2]}
<1>1. IsWellFoundedOn(L, Nat)
  BY NatLessThanWellFounded DEF OpToRel
<1>. HIDE DEF L
<1>2. PICK m \in T : \A k \in T : <<k, m>> \notin L
  BY <1>1, WFMin
<1>3. ASSUME NEW k \in T PROVE m <= k
  <2>1. k \in Nat /\ m \in Nat
    OBVIOUS
  <2>2. <<k, m>> \notin L
    BY <1>2
  <2>3. QED
    BY <2>1, <2>2 DEF L
<1>4. QED
  BY <1>3

(* What holds of zero and goes from each number to the next holds up to n. *)
LEMMA UpTo ==
  ASSUME NEW n \in Nat, NEW T, 0 \in T, \A i \in 0 .. n - 1 : i \in T => i + 1 \in T
  PROVE  \A i \in 0 .. n : i \in T
<1> DEFINE U == {i \in 0 .. n : i \notin T}
<1>1. SUFFICES ASSUME U # {} PROVE FALSE
  OBVIOUS
<1>2. U \subseteq Nat
  OBVIOUS
<1>3. PICK m \in U : \A k \in U : m <= k
  BY <1>1, <1>2, Least
<1>4. m # 0 /\ m \in 1 .. n
  BY <1>3
<1>5. m - 1 \in 0 .. n - 1 /\ m - 1 \notin U
  BY <1>3, <1>4
<1>6. QED
  BY <1>3, <1>4, <1>5

(* How far a sequence of sequences is flattened after i of them. *)
Flattening(f, ss, S) ==
  /\ f \in [0 .. Len(ss) -> Seq(S)]
  /\ f[0] = << >>
  /\ \A i \in 1 .. Len(ss) : f[i] = f[i - 1] \o ss[i]

LEMMA FlatteningExists ==
  ASSUME NEW S, NEW ss \in Seq(Seq(S))
  PROVE  \E f : Flattening(f, ss, S)
<1> DEFINE Upper(g, m) == /\ g \in [0 .. m -> Seq(S)] /\ g[0] = << >>
                          /\ \A i \in 1 .. m : g[i] = g[i - 1] \o ss[i]
           T == {m \in 0 .. Len(ss) : \E g : Upper(g, m)}
<1>1. Len(ss) \in Nat /\ \A i \in 1 .. Len(ss) : ss[i] \in Seq(S)
  OBVIOUS
<1>2. 0 \in T
  <2> DEFINE g == [i \in 0 .. 0 |-> << >>]
  <2>1. g \in [0 .. 0 -> Seq(S)] /\ g[0] = << >> /\ 1 .. 0 = {}
    OBVIOUS
  <2>. HIDE DEF g
  <2>2. Upper(g, 0)
    BY <2>1
  <2>3. 0 \in 0 .. Len(ss)
    BY <1>1
  <2>. HIDE DEF Upper
  <2>4. QED
    BY <2>2, <2>3
<1>3. ASSUME NEW m \in 0 .. Len(ss) - 1, m \in T PROVE m + 1 \in T
  <2>1. PICK g : Upper(g, m)
    BY <1>3
  <2> DEFINE h == [i \in 0 .. m + 1 |-> IF i = m + 1 THEN g[m] \o ss[m + 1] ELSE g[i]]
  <2>2. m \in Nat /\ m + 1 \in 1 .. Len(ss) /\ g[m] \in Seq(S) /\ ss[m + 1] \in Seq(S)
    BY <1>1, <2>1
  <2>3. h \in [0 .. m + 1 -> Seq(S)]
    BY <2>1, <2>2
  <2>4. h[0] = << >> /\ h[m + 1] = g[m] \o ss[m + 1] /\ \A i \in 0 .. m : h[i] = g[i]
    <3>1. \A i \in 0 .. m : i \in 0 .. m + 1 /\ i # m + 1
      BY <2>2
    <3>2. m + 1 \in 0 .. m + 1 /\ 0 \in 0 .. m
      BY <2>2
    <3>3. \A i \in 0 .. m : h[i] = g[i]
      BY <3>1
    <3>4. QED
      BY <2>1, <3>2, <3>3
  <2>. HIDE DEF h
  <2>5. ASSUME NEW i \in 1 .. m + 1 PROVE h[i] = h[i - 1] \o ss[i]
    <3>1. i - 1 \in 0 .. m /\ (i = m + 1 \/ (i \in 1 .. m /\ i \in 0 .. m))
      BY <2>2
    <3>2. h[i - 1] = g[i - 1]
      BY <2>4, <3>1
    <3>3. CASE i = m + 1
      <4>1. i - 1 = m
        BY <2>2, <3>3
      <4>2. QED
        BY <2>4, <3>2, <3>3, <4>1
    <3>4. CASE i \in 1 .. m /\ i \in 0 .. m
      BY <2>1, <2>4, <3>2, <3>4
    <3>5. QED
      BY <3>1, <3>3, <3>4
  <2>6. Upper(h, m + 1)
    BY <2>3, <2>4, <2>5
  <2>7. m + 1 \in 0 .. Len(ss)
    BY <1>1, <2>2
  <2>. HIDE DEF Upper
  <2>8. QED
    BY <2>6, <2>7
<1>. HIDE DEF T
<1>4. \A i \in 0 .. Len(ss) : i \in T
  BY <1>1, <1>2, <1>3, UpTo
<1>5. Len(ss) \in T
  BY <1>1, <1>4
<1>6. QED
  BY <1>5 DEF T, Flattening

(* FlattenSeq is the end of it. *)
LEMMA Flattened ==
  ASSUME NEW S, NEW ss \in Seq(Seq(S))
  PROVE  \E f : Flattening(f, ss, S) /\ FlattenSeq(ss) = f[Len(ss)]
<1> DEFINE Unfolds(g) == g = [i \in 1 .. Len(ss) |->
                                IF i = 1 THEN ss[i] ELSE g[i - 1] \o ss[i]]
           flatten == CHOOSE g : Unfolds(g)
<1>1. PICK f : Flattening(f, ss, S)
  BY FlatteningExists
<1>2. Len(ss) \in Nat /\ \A i \in 1 .. Len(ss) : ss[i] \in Seq(S)
  OBVIOUS
<1>3. CASE Len(ss) = 0
  <2>1. ss = << >>
    BY <1>3
  <2>2. FlattenSeq(ss) = << >>
    BY <1>3, <2>1 DEF FlattenSeq
  <2>3. f[Len(ss)] = << >>
    BY <1>1, <1>3 DEF Flattening
  <2>4. QED
    BY <1>1, <2>2, <2>3
<1>4. CASE Len(ss) # 0
  <2>1. 1 \in 1 .. Len(ss)
    BY <1>2, <1>4
  <2>2. f[1] = ss[1]
    <3>1. \A i \in 1 .. Len(ss) : f[i] = f[i - 1] \o ss[i]
      BY <1>1 DEF Flattening
    <3>2. f[1] = f[0] \o ss[1] /\ f[0] = << >>
      BY <1>1, <2>1, <3>1, 1 - 1 = 0 DEF Flattening
    <3>3. ss[1] \in Seq(S)
      BY <1>2, <2>1
    <3>4. << >> \o ss[1] = ss[1]
      BY <3>3
    <3>5. QED
      BY <3>2, <3>4
  <2> DEFINE g == [i \in 1 .. Len(ss) |-> f[i]]
  <2>3. ASSUME NEW i \in 1 .. Len(ss)
        PROVE  f[i] = IF i = 1 THEN ss[i] ELSE g[i - 1] \o ss[i]
    <3>1. i # 1 => i - 1 \in 1 .. Len(ss)
      OBVIOUS
    <3>2. QED
      BY <1>1, <2>2, <3>1 DEF Flattening
  <2>4. Unfolds(g)
    BY <2>3
  <2>. HIDE DEF Unfolds, g
  <2>5. Unfolds(flatten)
    BY <2>4
  <2>. HIDE DEF flatten
  <2>6. FlattenSeq(ss) = flatten[Len(ss)]
    BY <1>4 DEF FlattenSeq, flatten, Unfolds
  <2>7. ASSUME NEW i \in 1 .. Len(ss)
        PROVE  flatten[i] = IF i = 1 THEN ss[i] ELSE flatten[i - 1] \o ss[i]
    BY <2>5 DEF Unfolds
  <2> DEFINE T == {i \in 0 .. Len(ss) : i = 0 \/ flatten[i] = f[i]}
  <2>8. 0 \in T
    BY <1>2
  <2>9. ASSUME NEW i \in 0 .. Len(ss) - 1, i \in T PROVE i + 1 \in T
    <3>1. i + 1 \in 1 .. Len(ss) /\ i + 1 \in 0 .. Len(ss) /\ (i + 1) - 1 = i
      BY <1>2
    <3>2. CASE i = 0
      <4>1. flatten[1] = ss[1]
        BY <2>1, <2>7
      <4>2. QED
        BY <2>2, <3>1, <3>2, <4>1
    <3>3. CASE i # 0
      <4>1. i + 1 # 1
        BY <3>3
      <4>2. flatten[i + 1] = flatten[i] \o ss[i + 1]
        BY <2>7, <3>1, <4>1
      <4>3. f[i + 1] = f[i] \o ss[i + 1]
        BY <1>1, <3>1 DEF Flattening
      <4>4. flatten[i] = f[i]
        BY <2>9, <3>3
      <4>5. flatten[i + 1] = f[i + 1]
        BY <4>2, <4>3, <4>4
      <4>6. QED
        BY <3>1, <4>5
    <3>4. QED
      BY <3>2, <3>3
  <2>. HIDE DEF T
  <2>10. \A i \in 0 .. Len(ss) : i \in T
    BY <1>2, <2>8, <2>9, UpTo
  <2>11. flatten[Len(ss)] = f[Len(ss)]
    BY <1>2, <1>4, <2>10 DEF T
  <2>12. QED
    BY <1>1, <2>6, <2>11
<1>5. QED
  BY <1>3, <1>4

(* Any finite set of numbers can be listed in order. *)
LEMMA SortExists ==
  ASSUME NEW S, IsFiniteSet(S), S \subseteq Nat
  PROVE  \E s \in [1 .. Cardinality(S) -> S] : \A i, j \in DOMAIN s : i < j => s[i] < s[j]
<1> DEFINE n == Cardinality(S)
           Below(x) == {y \in S : y < x}
           rank == [x \in S |-> Cardinality(Below(x)) + 1]
<1>1. n \in Nat /\ IsFiniteSet(1 .. n) /\ Cardinality(1 .. n) = n
  <2>1. n \in Nat
    BY FS_CardinalityType
  <2>2. QED
    BY <2>1, FS_Interval
<1>2. ASSUME NEW x \in S
      PROVE  IsFiniteSet(Below(x)) /\ Cardinality(Below(x)) \in Nat /\ rank[x] \in 1 .. n
  <2>1. IsFiniteSet(S \ {x}) /\ Cardinality(S \ {x}) = n - 1
    BY FS_RemoveElement
  <2>2. Below(x) \in SUBSET (S \ {x})
    OBVIOUS
  <2>3. IsFiniteSet(Below(x)) /\ Cardinality(Below(x)) <= n - 1
    BY <2>1, <2>2, FS_Subset
  <2>4. Cardinality(Below(x)) \in Nat
    BY <2>3, FS_CardinalityType
  <2>. HIDE DEF Below, n
  <2>5. rank[x] = Cardinality(Below(x)) + 1
    OBVIOUS
  <2>6. QED
    BY <1>1, <2>3, <2>4, <2>5
<1>3. ASSUME NEW x \in S, NEW y \in S, x < y PROVE rank[x] < rank[y]
  <2>1. Below(x) \in SUBSET Below(y) /\ Below(x) # Below(y)
    <3>1. x \in Nat /\ y \in Nat /\ S \subseteq Nat
      OBVIOUS
    <3>2. x \in Below(y) /\ x \notin Below(x)
      BY <1>3, <3>1
    <3>3. \A z \in S : z < x => z < y
      BY <1>3, <3>1
    <3>4. QED
      BY <3>2, <3>3
  <2>2. Cardinality(Below(x)) <= Cardinality(Below(y))
        /\ Cardinality(Below(x)) # Cardinality(Below(y))
    BY <1>2, <2>1, FS_Subset
  <2>. HIDE DEF Below
  <2>3. QED
    BY <1>2, <2>2
<1>4. rank \in Surjection(S, 1 .. n)
  <2>1. rank \in [S -> 1 .. n]
    BY <1>2
  <2>. HIDE DEF rank
  <2>2. ASSUME NEW x \in S, NEW y \in S, rank[x] = rank[y] PROVE x = y
    <3>1. x \in Nat /\ y \in Nat /\ ~(rank[x] < rank[y]) /\ ~(rank[y] < rank[x])
      BY <1>1, <2>1, <2>2
    <3>2. ~(x < y) /\ ~(y < x)
      BY <1>3, <3>1
    <3>3. QED
      BY <3>1, <3>2
  <2>3. rank \in Injection(S, 1 .. n)
    BY <2>1, <2>2 DEF Injection, IsInjective
  <2>4. QED
    BY <1>1, <2>3, FS_Injection
<1> DEFINE s == [i \in 1 .. n |-> CHOOSE x \in S : rank[x] = i]
<1>5. \A i \in 1 .. n : s[i] \in S /\ rank[s[i]] = i
  <2>1. \A i \in 1 .. n : \E x \in S : rank[x] = i
    BY <1>4 DEF Surjection
  <2>. HIDE DEF rank
  <2>2. QED
    BY <2>1
<1>6. s \in [1 .. n -> S]
  BY <1>5
<1>7. ASSUME NEW i \in 1 .. n, NEW j \in 1 .. n, i < j PROVE s[i] < s[j]
  <2>1. s[i] \in Nat /\ s[j] \in Nat /\ rank[s[i]] = i /\ rank[s[j]] = j
    BY <1>5
  <2>2. s[i] \in S /\ s[j] \in S
    BY <1>5
  <2>. HIDE DEF s, rank
  <2>3. i \in Nat /\ j \in Nat
    BY <1>1
  <2>4. ~(s[j] < s[i])
    BY <1>3, <1>7, <2>1, <2>2, <2>3
  <2>5. s[i] # s[j]
    BY <1>7, <2>1, <2>3
  <2>6. QED
    BY <2>1, <2>4, <2>5
<1>8. DOMAIN s = 1 .. n
  OBVIOUS
<1>. HIDE DEF s
<1>9. QED
  BY <1>6, <1>7, <1>8

-----------------------------------------------------------------------------
(* The walk. *)

OnceEach(s) == \A i, j \in DOMAIN s : s[i] = s[j] => i = j

(* Texts of files on the path. *)
TextsOf(texts) ==
  /\ DOMAIN texts \subseteq Files
  /\ \A f \in DOMAIN texts : \A kind \in Kinds : IsList(texts[f].Defs[kind])

LEMMA ScanDirectoryOnce ==
  ASSUME NEW texts, TextsOf(texts), NEW dir
  PROVE  /\ ScanDirectory(texts, dir) \in Seq(DOMAIN texts)
         /\ OnceEach(ScanDirectory(texts, dir))
         /\ \A i \in DOMAIN ScanDirectory(texts, dir) : DirOf[ScanDirectory(texts, dir)[i]] = dir
<1> DEFINE own == {f \in DOMAIN texts : DirOf[f] = dir}
           s == ScanDirectory(texts, dir)
<1>1. own \in SUBSET Files
  BY DEF TextsOf
<1>2. IsFiniteSet(own) /\ own \subseteq Nat
  BY <1>1, FilesAssumption, FS_Subset DEF Files
<1>3. Cardinality(own) \in Nat
  BY <1>2, FS_CardinalityType
<1>4. \E t \in [1 .. Cardinality(own) -> own] : \A i, j \in DOMAIN t : i < j => t[i] < t[j]
  BY <1>2, SortExists
<1>5. s \in [1 .. Cardinality(own) -> own] /\ \A i, j \in DOMAIN s : i < j => s[i] < s[j]
  BY <1>4 DEF ScanDirectory
<1>. HIDE DEF s
<1>6. s \in Seq(own)
  BY <1>3, <1>5
<1>7. s \in Seq(DOMAIN texts) /\ \A i \in DOMAIN s : DirOf[s[i]] = dir
  BY <1>5, <1>6
<1>8. OnceEach(s)
  <2>1. SUFFICES ASSUME NEW i \in DOMAIN s, NEW j \in DOMAIN s, s[i] = s[j] PROVE i = j
    BY DEF OnceEach
  <2>2. i \in Nat /\ j \in Nat /\ s[i] \in Nat /\ s[j] \in Nat
    BY <1>2, <1>3, <1>5
  <2>3. ~(i < j) /\ ~(j < i)
    BY <1>5, <2>1, <2>2
  <2>4. QED
    BY <2>2, <2>3
<1>9. QED
  BY <1>7, <1>8 DEF s

LEMMA ScannedOnce ==
  ASSUME NEW texts, TextsOf(texts), NEW dirs, IsList(dirs), OnceEach(dirs)
  PROVE  Scanned(texts, dirs) \in Seq(DOMAIN texts) /\ OnceEach(Scanned(texts, dirs))
<1> DEFINE ss == [k \in DOMAIN dirs |-> ScanDirectory(texts, dirs[k])]
           S == DOMAIN texts
<1>1. Len(dirs) \in Nat /\ DOMAIN dirs = 1 .. Len(dirs)
  BY DEF IsList
<1>2. /\ ss \in Seq(Seq(S)) /\ Len(ss) = Len(dirs)
      /\ \A k \in 1 .. Len(dirs) : ss[k] = ScanDirectory(texts, dirs[k])
  <2>1. ss \in [1 .. Len(dirs) -> Seq(S)]
    BY <1>1, ScanDirectoryOnce
  <2>2. QED
    BY <1>1, <2>1
<1>. HIDE DEF ss
<1>3. PICK f : Flattening(f, ss, S) /\ FlattenSeq(ss) = f[Len(ss)]
  BY <1>2, Flattened
<1>4. /\ \A i \in 0 .. Len(dirs) : f[i] \in Seq(S)
      /\ f[0] = << >>
      /\ \A i \in 1 .. Len(dirs) : f[i] = f[i - 1] \o ss[i]
  BY <1>2, <1>3 DEF Flattening
<1> DEFINE Good(i) == /\ OnceEach(f[i])
                      /\ \A a \in DOMAIN f[i] : \E k \in 1 .. i : DirOf[f[i][a]] = dirs[k]
           T == {i \in 0 .. Len(dirs) : Good(i)}
<1>5. 0 \in T
  <2>1. Good(0)
    BY <1>4 DEF OnceEach
  <2>2. 0 \in 0 .. Len(dirs)
    BY <1>1
  <2>. HIDE DEF Good
  <2>3. QED
    BY <2>1, <2>2
<1>6. ASSUME NEW i \in 0 .. Len(dirs) - 1, i \in T PROVE i + 1 \in T
  <2>1. i \in 0 .. Len(dirs) /\ i + 1 \in 1 .. Len(dirs) /\ i + 1 \in 0 .. Len(dirs)
        /\ (i + 1) - 1 = i /\ i \in Nat
    BY <1>1
  <2> DEFINE d == f[i] g == ScanDirectory(texts, dirs[i + 1])
  <2>2. f[i + 1] = d \o g /\ d \in Seq(S) /\ g \in Seq(S)
    BY <1>2, <1>4, <2>1, ScanDirectoryOnce
  <2>3. OnceEach(d) /\ \A a \in DOMAIN d : \E k \in 1 .. i : DirOf[d[a]] = dirs[k]
    BY <1>6
  <2>4. OnceEach(g) /\ \A a \in DOMAIN g : DirOf[g[a]] = dirs[i + 1]
    BY ScanDirectoryOnce
  <2>. HIDE DEF d, g
  <2>5. \A k \in 1 .. i : dirs[k] # dirs[i + 1]
    <3>1. \A k \in 1 .. i : k \in DOMAIN dirs /\ i + 1 \in DOMAIN dirs /\ k # i + 1
      BY <1>1, <2>1
    <3>2. QED
      BY <3>1 DEF OnceEach
  <2>6. \A a \in DOMAIN d, b \in DOMAIN g : d[a] # g[b]
    BY <2>3, <2>4, <2>5
  <2>7. ASSUME NEW a \in DOMAIN (d \o g)
        PROVE  \/ a \in DOMAIN d /\ (d \o g)[a] = d[a]
               \/ a - Len(d) \in DOMAIN g /\ (d \o g)[a] = g[a - Len(d)] /\ a \in Nat
    BY <2>2
  <2>8. OnceEach(d \o g)
    <3>1. SUFFICES ASSUME NEW a \in DOMAIN (d \o g), NEW b \in DOMAIN (d \o g),
                          (d \o g)[a] = (d \o g)[b]
                   PROVE  a = b
      BY DEF OnceEach
    <3>2. CASE a \in DOMAIN d /\ b \in DOMAIN d /\ (d \o g)[a] = d[a] /\ (d \o g)[b] = d[b]
      BY <2>3, <3>1, <3>2 DEF OnceEach
    <3>3. CASE /\ a - Len(d) \in DOMAIN g /\ b - Len(d) \in DOMAIN g /\ a \in Nat /\ b \in Nat
               /\ (d \o g)[a] = g[a - Len(d)] /\ (d \o g)[b] = g[b - Len(d)]
      <4>1. a - Len(d) = b - Len(d)
        BY <2>4, <3>1, <3>3 DEF OnceEach
      <4>2. Len(d) \in Nat
        BY <2>2
      <4>3. QED
        BY <3>3, <4>1, <4>2
    <3>4. QED
      BY <2>6, <2>7, <3>1, <3>2, <3>3
  <2>9. \A a \in DOMAIN (d \o g) : \E k \in 1 .. i + 1 : DirOf[(d \o g)[a]] = dirs[k]
    <3>1. \A k \in 1 .. i : k \in 1 .. i + 1
      BY <2>1
    <3>2. i + 1 \in 1 .. i + 1
      BY <2>1
    <3>3. QED
      BY <2>3, <2>4, <2>7, <3>1, <3>2
  <2>10. QED
    BY <2>1, <2>2, <2>8, <2>9
<1>. HIDE DEF T
<1>7. \A i \in 0 .. Len(dirs) : i \in T
  BY <1>1, <1>5, <1>6, UpTo
<1>8. Len(dirs) \in 0 .. Len(dirs)
  BY <1>1
<1>9. Scanned(texts, dirs) = f[Len(dirs)]
  BY <1>2, <1>3 DEF Scanned, ss
<1>10. QED
  BY <1>4, <1>7, <1>8, <1>9 DEF T

-----------------------------------------------------------------------------
(* The index. *)

(* Where the definitions of a file are, and which of its own are before one. *)
At(d, f) == {b \in 1 .. Len(d) : d[b].File = f}
Before(d, a) == {b \in 1 .. a - 1 : d[b].File = d[a].File}

LEMMA PartsFinite ==
  ASSUME NEW R, NEW d \in Seq(R)
  PROVE  /\ \A f : IsFiniteSet(At(d, f)) /\ Cardinality(At(d, f)) \in Nat
         /\ \A a \in 1 .. Len(d) : IsFiniteSet(Before(d, a)) /\ Cardinality(Before(d, a)) \in Nat
<1>1. ASSUME NEW n \in Int, NEW T \in SUBSET (1 .. n)
      PROVE  IsFiniteSet(T) /\ Cardinality(T) \in Nat
  <2>1. IsFiniteSet(1 .. n)
    BY FS_Interval
  <2>2. IsFiniteSet(T)
    BY <2>1, FS_Subset
  <2>3. QED
    BY <2>2, FS_CardinalityType
<1>2. Len(d) \in Int /\ \A f : At(d, f) \in SUBSET (1 .. Len(d))
  BY DEF At
<1>3. \A a \in 1 .. Len(d) : a - 1 \in Int /\ Before(d, a) \in SUBSET (1 .. a - 1)
  BY DEF Before
<1>4. QED
  BY <1>1, <1>2, <1>3

LEMMA DisjointUnion ==
  ASSUME NEW S, IsFiniteSet(S), NEW T, IsFiniteSet(T), S \cap T = {}
  PROVE  Cardinality(S \cup T) = Cardinality(S) + Cardinality(T)
<1>1. Cardinality(S \cup T) = Cardinality(S) + Cardinality(T) - Cardinality({})
  BY FS_Union
<1>2. Cardinality({}) = 0 /\ Cardinality(S) \in Nat /\ Cardinality(T) \in Nat
  BY FS_EmptySet, FS_CardinalityType
<1>3. QED
  BY <1>1, <1>2

LEMMA Shifted ==
  ASSUME NEW m \in Nat, NEW T, T \subseteq Nat, IsFiniteSet(T)
  PROVE  LET U == {m + b : b \in T}
         IN  IsFiniteSet(U) /\ Cardinality(U) = Cardinality(T)
<1> DEFINE U == {m + b : b \in T} shift == [b \in T |-> m + b]
<1>1. shift \in [T -> U] /\ \A u \in U : \E b \in T : shift[b] = u
  OBVIOUS
<1>2. \A a, b \in T : shift[a] = shift[b] => a = b
  OBVIOUS
<1>3. shift \in Bijection(T, U)
  BY <1>1, <1>2 DEF Bijection, Injection, Surjection, IsInjective
<1>4. QED
  BY <1>3, FS_Bijection DEF ExistsBijection

LEMMA BeforeInFirst ==
  ASSUME NEW R, NEW d \in Seq(R), NEW g \in Seq(R), NEW a \in 1 .. Len(d)
  PROVE  Before(d \o g, a) = Before(d, a) /\ (d \o g)[a] = d[a]
<1>1. \A b \in 1 .. Len(d) : (d \o g)[b] = d[b]
  OBVIOUS
<1>2. \A b \in 1 .. a - 1 : b \in 1 .. Len(d)
  OBVIOUS
<1>3. QED
  BY <1>1, <1>2 DEF Before

LEMMA BeforeInSecond ==
  ASSUME NEW R, NEW d \in Seq(R), NEW g \in Seq(R), NEW a \in 1 .. Len(g)
  PROVE  /\ (d \o g)[Len(d) + a] = g[a]
         /\ Cardinality(Before(d \o g, Len(d) + a)) =
              Cardinality(At(d, g[a].File)) + Cardinality(Before(g, a))
<1> DEFINE U == {Len(d) + b : b \in Before(g, a)}
           both == d \o g
<1>1. /\ Len(d) \in Nat /\ Len(g) \in Nat
      /\ \A b \in 1 .. Len(d) : both[b] = d[b]
      /\ \A b \in 1 .. Len(g) : both[Len(d) + b] = g[b]
  OBVIOUS
<1>. HIDE DEF both
<1>2. both[Len(d) + a] = g[a]
  BY <1>1
<1>3. IsFiniteSet(U) /\ Cardinality(U) = Cardinality(Before(g, a))
  <2>1. Before(g, a) \subseteq Nat
    BY DEF Before
  <2>2. QED
    BY <1>1, <2>1, PartsFinite, Shifted
<1>4. Before(both, Len(d) + a) = At(d, g[a].File) \cup U
  <2>1. ASSUME NEW b \in Before(both, Len(d) + a) PROVE b \in At(d, g[a].File) \cup U
    <3>1. b \in 1 .. Len(d) + a - 1 /\ both[b].File = g[a].File
      BY <1>2, <2>1 DEF Before
    <3>2. CASE b \in 1 .. Len(d)
      BY <1>1, <3>1, <3>2 DEF At
    <3>3. CASE b \notin 1 .. Len(d)
      <4>1. b - Len(d) \in 1 .. a - 1 /\ b - Len(d) \in 1 .. Len(g) /\ b = Len(d) + (b - Len(d))
        BY <1>1, <3>1, <3>3
      <4>2. g[b - Len(d)].File = g[a].File
        BY <1>1, <3>1, <4>1
      <4>3. b - Len(d) \in Before(g, a)
        BY <4>1, <4>2 DEF Before
      <4>4. QED
        BY <4>1, <4>3
    <3>4. QED
      BY <3>2, <3>3
  <2>2. ASSUME NEW b \in At(d, g[a].File) PROVE b \in Before(both, Len(d) + a)
    <3>1. b \in 1 .. Len(d) /\ d[b].File = g[a].File
      BY <2>2 DEF At
    <3>2. b \in 1 .. Len(d) + a - 1 /\ both[b] = d[b]
      BY <1>1, <3>1
    <3>3. QED
      BY <1>2, <3>1, <3>2 DEF Before
  <2>3. ASSUME NEW b \in Before(g, a) PROVE Len(d) + b \in Before(both, Len(d) + a)
    <3>1. b \in 1 .. a - 1 /\ g[b].File = g[a].File
      BY <2>3 DEF Before
    <3>2. Len(d) + b \in 1 .. Len(d) + a - 1 /\ both[Len(d) + b] = g[b]
      BY <1>1, <3>1
    <3>3. QED
      BY <1>2, <3>1, <3>2 DEF Before
  <2>4. QED
    BY <2>1, <2>2, <2>3
<1>5. At(d, g[a].File) \cap U = {}
  <2>1. \A b \in At(d, g[a].File) : b \in 1 .. Len(d)
    BY DEF At
  <2>2. \A b \in U : b \notin 1 .. Len(d)
    <3>1. \A b \in Before(g, a) : b \in Nat /\ b > 0
      BY DEF Before
    <3>2. QED
      BY <1>1, <3>1
  <2>3. QED
    BY <2>1, <2>2
<1>. HIDE DEF U
<1>6. Cardinality(At(d, g[a].File) \cup U) = Cardinality(At(d, g[a].File)) + Cardinality(U)
  BY <1>3, <1>5, PartsFinite, DisjointUnion
<1>7. QED
  BY <1>2, <1>3, <1>4, <1>6 DEF both

LEMMA AtBoth ==
  ASSUME NEW R, NEW d \in Seq(R), NEW g \in Seq(R), NEW f
  PROVE  Cardinality(At(d \o g, f)) = Cardinality(At(d, f)) + Cardinality(At(g, f))
<1> DEFINE U == {Len(d) + b : b \in At(g, f)}
           both == d \o g
<1>1. /\ Len(d) \in Nat /\ Len(g) \in Nat /\ Len(both) = Len(d) + Len(g)
      /\ \A b \in 1 .. Len(d) : both[b] = d[b]
      /\ \A b \in 1 .. Len(g) : both[Len(d) + b] = g[b]
  OBVIOUS
<1>. HIDE DEF both
<1>2. IsFiniteSet(U) /\ Cardinality(U) = Cardinality(At(g, f))
  <2>1. At(g, f) \subseteq Nat
    BY DEF At
  <2>2. QED
    BY <1>1, <2>1, PartsFinite, Shifted
<1>3. At(both, f) = At(d, f) \cup U
  <2>1. ASSUME NEW b \in At(both, f) PROVE b \in At(d, f) \cup U
    <3>1. b \in 1 .. Len(d) + Len(g) /\ both[b].File = f
      BY <1>1, <2>1 DEF At
    <3>2. CASE b \in 1 .. Len(d)
      BY <1>1, <3>1, <3>2 DEF At
    <3>3. CASE b \notin 1 .. Len(d)
      <4>1. b - Len(d) \in 1 .. Len(g) /\ b = Len(d) + (b - Len(d))
        BY <1>1, <3>1, <3>3
      <4>2. g[b - Len(d)].File = f
        BY <1>1, <3>1, <4>1
      <4>3. b - Len(d) \in At(g, f)
        BY <4>1, <4>2 DEF At
      <4>4. QED
        BY <4>1, <4>3
    <3>4. QED
      BY <3>2, <3>3
  <2>2. ASSUME NEW b \in At(d, f) PROVE b \in At(both, f)
    <3>1. b \in 1 .. Len(d) /\ d[b].File = f
      BY <2>2 DEF At
    <3>2. b \in 1 .. Len(both) /\ both[b] = d[b]
      BY <1>1, <3>1
    <3>3. QED
      BY <3>1, <3>2 DEF At
  <2>3. ASSUME NEW b \in At(g, f) PROVE Len(d) + b \in At(both, f)
    <3>1. b \in 1 .. Len(g) /\ g[b].File = f
      BY <2>3 DEF At
    <3>2. Len(d) + b \in 1 .. Len(both) /\ both[Len(d) + b] = g[b]
      BY <1>1, <3>1
    <3>3. QED
      BY <3>1, <3>2 DEF At
  <2>4. QED
    BY <2>1, <2>2, <2>3
<1>4. At(d, f) \cap U = {}
  <2>1. \A b \in At(d, f) : b \in 1 .. Len(d)
    BY DEF At
  <2>2. \A b \in U : b \notin 1 .. Len(d)
    <3>1. \A b \in At(g, f) : b \in Nat /\ b > 0
      BY DEF At
    <3>2. QED
      BY <1>1, <3>1
  <2>3. QED
    BY <2>1, <2>2
<1>. HIDE DEF U
<1>5. Cardinality(At(d, f) \cup U) = Cardinality(At(d, f)) + Cardinality(U)
  BY <1>2, <1>4, PartsFinite, DisjointUnion
<1>6. QED
  BY <1>2, <1>3, <1>5 DEF both

Names(kind, texts, f) == texts[f].Defs[kind]

(* All the definitions of some texts. *)
Given(texts) ==
  UNION {UNION {{DefsIn(kind, texts, f)[j] : j \in DOMAIN Names(kind, texts, f)} :
                  kind \in Kinds} : f \in DOMAIN texts}

(* d has the definitions of a kind, and those of a file in their order. *)
Placed(kind, texts, d) ==
  \A a \in 1 .. Len(d) :
    LET names == Names(kind, texts, d[a].File)
        place == Cardinality(Before(d, a)) + 1
    IN  /\ d[a].File \in DOMAIN texts /\ d[a].Kind = kind
        /\ place \in DOMAIN names /\ d[a].Name = names[place]

LEMMA Numbered ==
  ASSUME NEW n \in Nat
  PROVE  Cardinality(1 .. n) = n
BY FS_Interval

LEMMA DefsInFile ==
  ASSUME NEW texts, TextsOf(texts), NEW kind \in Kinds, NEW f \in DOMAIN texts
  PROVE  /\ DefsIn(kind, texts, f) \in Seq(Given(texts))
         /\ Len(DefsIn(kind, texts, f)) = Len(Names(kind, texts, f))
         /\ DOMAIN Names(kind, texts, f) = 1 .. Len(DefsIn(kind, texts, f))
         /\ \A a \in 1 .. Len(DefsIn(kind, texts, f)) :
              /\ DefsIn(kind, texts, f)[a] =
                   [Kind |-> kind, Name |-> Names(kind, texts, f)[a], File |-> f]
              /\ Cardinality(Before(DefsIn(kind, texts, f), a)) = a - 1
         /\ Cardinality(At(DefsIn(kind, texts, f), f)) = Len(DefsIn(kind, texts, f))
         /\ \A h : h # f => Cardinality(At(DefsIn(kind, texts, f), h)) = 0
<1> DEFINE g == DefsIn(kind, texts, f)
           names == Names(kind, texts, f)
<1>1. Len(names) \in Nat /\ DOMAIN names = 1 .. Len(names)
  <2>1. IsList(names)
    BY DEF TextsOf, Names
  <2>2. QED
    BY <2>1 DEF IsList
<1>2. g = [j \in 1 .. Len(names) |-> [Kind |-> kind, Name |-> names[j], File |-> f]]
  BY <1>1 DEF DefsIn, Names
<1>3. \A j \in 1 .. Len(names) : g[j] \in Given(texts)
  BY <1>1 DEF Given
<1>. HIDE DEF g, names
<1>4. g \in [1 .. Len(names) -> Given(texts)]
  BY <1>2, <1>3
<1>5. g \in Seq(Given(texts)) /\ Len(g) = Len(names)
  BY <1>1, <1>4
<1>6. ASSUME NEW a \in 1 .. Len(g)
      PROVE  Cardinality(Before(g, a)) = a - 1
  <2>1. a \in Int /\ a - 1 \in Nat /\ \A b \in 1 .. a - 1 : b \in 1 .. Len(names)
    BY <1>1, <1>5
  <2>2. Before(g, a) = 1 .. a - 1
    BY <1>2, <1>5, <2>1 DEF Before
  <2>3. QED
    BY <2>1, <2>2, FS_Interval
<1>7. Cardinality(At(g, f)) = Len(g)
  <2>1. At(g, f) = 1 .. Len(g)
    BY <1>2, <1>5 DEF At
  <2>2. Len(g) \in Nat
    BY <1>1, <1>5
  <2>3. Cardinality(1 .. Len(g)) = Len(g)
    BY <2>2, Numbered
  <2>4. QED
    BY <2>1, <2>3
<1>8. ASSUME NEW h, h # f PROVE Cardinality(At(g, h)) = 0
  <2>1. At(g, h) = {}
    BY <1>2, <1>5, <1>8 DEF At
  <2>2. QED
    BY <2>1, FS_EmptySet
<1>9. QED
  BY <1>1, <1>2, <1>5, <1>6, <1>7, <1>8 DEF g, names

LEMMA DefsInOrder ==
  ASSUME NEW texts, TextsOf(texts), NEW kind \in Kinds, NEW f \in DOMAIN texts
  PROVE  \A a \in 1 .. Len(DefsIn(kind, texts, f)) :
           Cardinality(Before(DefsIn(kind, texts, f), a)) = a - 1
BY DefsInFile

(* The next file of a walk. *)
LEMMA PlacedNext ==
  ASSUME NEW texts, TextsOf(texts), NEW kind \in Kinds, NEW f \in DOMAIN texts,
         NEW d \in Seq(Given(texts)), Placed(kind, texts, d), Cardinality(At(d, f)) = 0
  PROVE  Placed(kind, texts, d \o DefsIn(kind, texts, f))
<1> DEFINE g == DefsIn(kind, texts, f)
           names == Names(kind, texts, f)
           both == d \o g
<1>1. /\ g \in Seq(Given(texts)) /\ DOMAIN names = 1 .. Len(g)
      /\ \A a \in 1 .. Len(g) :
           /\ g[a] = [Kind |-> kind, Name |-> names[a], File |-> f]
           /\ Cardinality(Before(g, a)) = a - 1
  <2>1. g \in Seq(Given(texts)) /\ DOMAIN names = 1 .. Len(g)
    BY DefsInFile
  <2>2. \A a \in 1 .. Len(g) : g[a] = [Kind |-> kind, Name |-> names[a], File |-> f]
    BY DefsInFile
  <2>3. \A a \in 1 .. Len(g) : Cardinality(Before(g, a)) = a - 1
    BY DefsInOrder
  <2>. HIDE DEF g, names
  <2>4. QED
    BY <2>1, <2>2, <2>3
<1>. HIDE DEF g
<1>2. Len(both) = Len(d) + Len(g) /\ Len(d) \in Nat /\ Len(g) \in Nat
  BY <1>1
<1>. SUFFICES ASSUME NEW a \in 1 .. Len(both)
              PROVE  LET of == Names(kind, texts, both[a].File)
                         place == Cardinality(Before(both, a)) + 1
                     IN  /\ both[a].File \in DOMAIN texts /\ both[a].Kind = kind
                         /\ place \in DOMAIN of /\ both[a].Name = of[place]
  BY DEF Placed, g
<1>3. CASE a \in 1 .. Len(d)
  <2>1. Before(both, a) = Before(d, a) /\ both[a] = d[a]
    BY <1>1, <1>3, BeforeInFirst
  <2>. HIDE DEF both
  <2>2. QED
    BY <1>3, <2>1 DEF Placed
<1>4. CASE a \notin 1 .. Len(d)
  <2>1. a - Len(d) \in 1 .. Len(g) /\ a = Len(d) + (a - Len(d))
    BY <1>2, <1>4
  <2>2. PICK b \in 1 .. Len(g) : a = Len(d) + b
    BY <2>1
  <2>3. g[b] = [Kind |-> kind, Name |-> names[b], File |-> f] /\ g[b].File = f
    BY <1>1
  <2>4. both[a] = g[b] /\ Cardinality(Before(both, a)) = 0 + (b - 1)
    BY <1>1, <2>2, <2>3, BeforeInSecond
  <2>5. Cardinality(Before(both, a)) + 1 = b /\ b \in DOMAIN names
    BY <1>1, <2>4
  <2>. HIDE DEF both
  <2>6. QED
    BY <2>3, <2>4, <2>5
<1>5. QED
  BY <1>3, <1>4

(* What LoadFromPath collects of one kind: the definitions of each file    *)
(* stand in their order, and all of them.                                  *)
LEMMA DefsOfPlaced ==
  ASSUME NEW texts, TextsOf(texts), NEW dirs, IsList(dirs), OnceEach(dirs), NEW kind \in Kinds
  PROVE  /\ DefsOf(kind, texts, dirs) \in Seq(Given(texts))
         /\ Placed(kind, texts, DefsOf(kind, texts, dirs))
         /\ \A a \in 1 .. Len(DefsOf(kind, texts, dirs)) :
              \E m \in 1 .. Len(Scanned(texts, dirs)) :
                DefsOf(kind, texts, dirs)[a].File = Scanned(texts, dirs)[m]
         /\ \A m \in 1 .. Len(Scanned(texts, dirs)) :
              Cardinality(At(DefsOf(kind, texts, dirs), Scanned(texts, dirs)[m])) =
                Len(Names(kind, texts, Scanned(texts, dirs)[m]))
<1> DEFINE scanned == Scanned(texts, dirs)
           ss == [k \in DOMAIN scanned |-> DefsIn(kind, texts, scanned[k])]
           S == Given(texts)
           n == Len(scanned)
<1>1. scanned \in Seq(DOMAIN texts) /\ OnceEach(scanned)
  BY ScannedOnce
<1>2. FlattenSeq(ss) = DefsOf(kind, texts, dirs)
  BY DEF DefsOf
<1>. HIDE DEF scanned
<1>3. n \in Nat /\ DOMAIN scanned = 1 .. n /\ \A k \in 1 .. n : scanned[k] \in DOMAIN texts
  BY <1>1
<1>4. \A k \in 1 .. n : DefsIn(kind, texts, scanned[k]) \in Seq(S)
  BY <1>3, DefsInFile
<1>5. /\ ss \in Seq(Seq(S)) /\ Len(ss) = n
      /\ \A k \in 1 .. n : ss[k] = DefsIn(kind, texts, scanned[k])
  <2>1. ss \in [1 .. n -> Seq(S)]
    BY <1>3, <1>4
  <2>2. QED
    BY <1>3, <2>1
<1>. HIDE DEF ss, n
<1>6. PICK f : Flattening(f, ss, S) /\ FlattenSeq(ss) = f[Len(ss)]
  BY <1>5, Flattened
<1>7. /\ \A i \in 0 .. n : f[i] \in Seq(S)
      /\ f[0] = << >>
      /\ \A i \in 1 .. n : f[i] = f[i - 1] \o ss[i]
  BY <1>5, <1>6 DEF Flattening
<1> DEFINE From(d) == \A a \in 1 .. Len(d) : \E m \in 1 .. n : d[a].File = scanned[m]
           Counted(d, i) == \A m \in 1 .. n :
             Cardinality(At(d, scanned[m])) = IF m <= i THEN Len(Names(kind, texts, scanned[m]))
                                              ELSE 0
           Good(d, i) == Placed(kind, texts, d) /\ From(d) /\ Counted(d, i)
           T == {i \in 0 .. n : Good(f[i], i)}
<1>8. 0 \in T
  <2>1. Placed(kind, texts, << >>) /\ From(<< >>)
    BY DEF Placed
  <2>2. \A h : At(<< >>, h) = {}
    BY DEF At
  <2>3. \A m \in 1 .. n : ~(m <= 0)
    BY <1>3
  <2>4. Counted(<< >>, 0)
    BY <2>2, <2>3, FS_EmptySet
  <2>. HIDE DEF From, Counted
  <2>5. QED
    BY <1>3, <1>7, <2>1, <2>4
<1>9. ASSUME NEW i \in 0 .. n - 1, i \in T PROVE i + 1 \in T
  <2>1. i \in 0 .. n /\ i + 1 \in 1 .. n /\ i + 1 \in 0 .. n /\ (i + 1) - 1 = i /\ i \in Nat
    BY <1>3
  <2> DEFINE d == f[i] file == scanned[i + 1] g == DefsIn(kind, texts, file)
  <2>2. /\ f[i + 1] = d \o g /\ d \in Seq(S) /\ g \in Seq(S) /\ file \in DOMAIN texts
    BY <1>3, <1>4, <1>5, <1>7, <2>1
  <2>3. Placed(kind, texts, d) /\ From(d) /\ Counted(d, i)
    BY <1>9
  <2>4. Cardinality(At(d, file)) = 0
    BY <2>1, <2>3
  <2>5. Placed(kind, texts, d \o g)
    BY <2>2, <2>3, <2>4, PlacedNext
  <2>6. /\ Len(g) = Len(Names(kind, texts, file))
        /\ \A a \in 1 .. Len(g) : g[a].File = file
        /\ Cardinality(At(g, file)) = Len(g)
        /\ \A h : h # file => Cardinality(At(g, h)) = 0
    <3>1. file \in DOMAIN texts
      BY <2>2
    <3>2. Len(g) = Len(Names(kind, texts, file)) /\ Cardinality(At(g, file)) = Len(g)
      BY <3>1, DefsInFile
    <3>3. \A a \in 1 .. Len(g) :
            g[a] = [Kind |-> kind, Name |-> Names(kind, texts, file)[a], File |-> file]
      BY <3>1, DefsInFile
    <3>4. \A h : h # file => Cardinality(At(g, h)) = 0
      BY <3>1, DefsInFile
    <3>. HIDE DEF g, file
    <3>5. ASSUME NEW a \in 1 .. Len(g) PROVE g[a].File = file
      <4> DEFINE name == Names(kind, texts, file)[a]
      <4>1. g[a] = [Kind |-> kind, Name |-> name, File |-> file]
        BY <3>3
      <4>. HIDE DEF name
      <4>2. QED
        BY <4>1
    <3>6. QED
      BY <3>2, <3>4, <3>5
  <2>. HIDE DEF d, g
  <2>7. From(d \o g)
    <3>1. SUFFICES ASSUME NEW a \in 1 .. Len(d \o g)
                   PROVE  \E m \in 1 .. n : (d \o g)[a].File = scanned[m]
      OBVIOUS
    <3>2. \/ a \in 1 .. Len(d) /\ (d \o g)[a] = d[a]
          \/ a - Len(d) \in 1 .. Len(g) /\ (d \o g)[a] = g[a - Len(d)]
      BY <2>2
    <3>3. QED
      BY <2>1, <2>3, <2>6, <3>2
  <2>8. Counted(d \o g, i + 1)
    <3>1. SUFFICES ASSUME NEW m \in 1 .. n
                   PROVE  Cardinality(At(d \o g, scanned[m])) =
                            IF m <= i + 1 THEN Len(Names(kind, texts, scanned[m])) ELSE 0
      OBVIOUS
    <3>2. Cardinality(At(d \o g, scanned[m])) =
            Cardinality(At(d, scanned[m])) + Cardinality(At(g, scanned[m]))
      BY <2>2, AtBoth
    <3>3. Cardinality(At(d, scanned[m])) =
            IF m <= i THEN Len(Names(kind, texts, scanned[m])) ELSE 0
      BY <2>3
    <3>4. Cardinality(At(d, scanned[m])) \in Nat /\ Len(g) \in Nat
      BY <2>2, PartsFinite
    <3>5. CASE m = i + 1
      <4>1. ~(m <= i) /\ m <= i + 1 /\ scanned[m] = file
        BY <2>1, <3>5
      <4>2. QED
        BY <2>6, <3>2, <3>3, <3>4, <4>1
    <3>6. CASE m # i + 1
      <4>1. m <= i <=> m <= i + 1
        BY <1>3, <2>1, <3>6
      <4>2. scanned[m] # file
        BY <1>1, <1>3, <2>1, <3>6 DEF OnceEach
      <4>3. Cardinality(At(g, scanned[m])) = 0
        BY <2>6, <4>2
      <4>4. Cardinality(At(d \o g, scanned[m])) = Cardinality(At(d, scanned[m]))
        BY <3>2, <3>4, <4>3
      <4>5. QED
        BY <3>3, <4>1, <4>4
    <3>7. QED
      BY <3>5, <3>6
  <2>. HIDE DEF From, Counted
  <2>9. QED
    BY <2>1, <2>2, <2>5, <2>7, <2>8
<1>. HIDE DEF T
<1>10. \A i \in 0 .. n : i \in T
  BY <1>3, <1>8, <1>9, UpTo
<1>11. n \in 0 .. n /\ f[n] = DefsOf(kind, texts, dirs)
  BY <1>2, <1>3, <1>5, <1>6
<1>12. Good(f[n], n)
  BY <1>10, <1>11 DEF T
<1>13. \A m \in 1 .. n : m <= n
  BY <1>3
<1>14. QED
  BY <1>7, <1>11, <1>12, <1>13 DEF n, scanned

(* Where LoadEntry looks for a definition that an index counts n before.   *)
InPlace(texts, def, n) ==
  /\ def.File \in DOMAIN texts /\ def.Kind \in Kinds
  /\ \E j \in DOMAIN Names(def.Kind, texts, def.File) :
       /\ Names(def.Kind, texts, def.File)[j] = def.Name
       /\ n = (IF def.Kind = "node" THEN 0 ELSE Len(Names("node", texts, def.File))) + j - 1

(* The nodes of a file come before its relationships. *)
LEMMA EveryPlace ==
  ASSUME NEW texts, TextsOf(texts), NEW dirs, IsList(dirs), OnceEach(dirs)
  PROVE  /\ LoadFromPath(texts, dirs) \in Seq(Given(texts))
         /\ \A k \in 1 .. Len(LoadFromPath(texts, dirs)) :
              InPlace(texts, LoadFromPath(texts, dirs)[k],
                      Cardinality(Before(LoadFromPath(texts, dirs), k)))
<1> DEFINE S == Given(texts)
           N == DefsOf("node", texts, dirs)
           R == DefsOf("relationship", texts, dirs)
           L == N \o R
<1>1. "node" \in Kinds /\ "relationship" \in Kinds
  BY DEF Kinds
<1>2. N \in Seq(S) /\ Placed("node", texts, N)
  BY <1>1, DefsOfPlaced
<1>3. R \in Seq(S) /\ Placed("relationship", texts, R)
  BY <1>1, DefsOfPlaced
<1>4. \A a \in 1 .. Len(R) : Cardinality(At(N, R[a].File)) = Len(Names("node", texts, R[a].File))
  <2>1. \A a \in 1 .. Len(R) :
          \E m \in 1 .. Len(Scanned(texts, dirs)) : R[a].File = Scanned(texts, dirs)[m]
    BY <1>1, DefsOfPlaced
  <2>2. \A m \in 1 .. Len(Scanned(texts, dirs)) :
          Cardinality(At(N, Scanned(texts, dirs)[m])) =
            Len(Names("node", texts, Scanned(texts, dirs)[m]))
    BY <1>1, DefsOfPlaced
  <2>. HIDE DEF N, R
  <2>3. QED
    BY <2>1, <2>2
<1>5. LoadFromPath(texts, dirs) = L
  BY DEF LoadFromPath
<1>. HIDE DEF N, R
<1>6. L \in Seq(S) /\ Len(N) \in Nat /\ Len(R) \in Nat /\ Len(L) = Len(N) + Len(R)
  BY <1>2, <1>3
<1>7. ASSUME NEW k \in 1 .. Len(L) PROVE InPlace(texts, L[k], Cardinality(Before(L, k)))
  <2>1. CASE k \in 1 .. Len(N)
    <3>1. Before(L, k) = Before(N, k) /\ L[k] = N[k]
      BY <1>2, <1>3, <2>1, BeforeInFirst
    <3>2. Cardinality(Before(N, k)) \in Nat
      BY <1>2, <2>1, PartsFinite
    <3> DEFINE c == Cardinality(Before(N, k))
               names == Names("node", texts, N[k].File)
    <3>3. /\ N[k].File \in DOMAIN texts /\ N[k].Kind = "node"
          /\ c + 1 \in DOMAIN names /\ N[k].Name = names[c + 1]
      BY <1>2, <2>1 DEF Placed
    <3>. HIDE DEF c, L
    <3>4. c = 0 + (c + 1) - 1
      BY <3>2 DEF c
    <3>5. InPlace(texts, N[k], c)
      BY <1>1, <3>3, <3>4 DEF InPlace
    <3>6. QED
      BY <3>1, <3>5 DEF c
  <2>2. CASE k \notin 1 .. Len(N)
    <3>1. k - Len(N) \in 1 .. Len(R) /\ k = Len(N) + (k - Len(N))
      BY <1>6, <2>2
    <3>2. PICK a \in 1 .. Len(R) : k = Len(N) + a
      BY <3>1
    <3> DEFINE c == Cardinality(Before(R, a))
               own == Len(Names("node", texts, R[a].File))
               names == Names("relationship", texts, R[a].File)
    <3>3. L[k] = R[a] /\ Cardinality(Before(L, k)) = Cardinality(At(N, R[a].File)) + c
      BY <1>2, <1>3, <3>2, BeforeInSecond
    <3>4. Cardinality(At(N, R[a].File)) = own /\ Cardinality(At(N, R[a].File)) \in Nat
      BY <1>2, <1>4, PartsFinite
    <3>5. c \in Nat
      BY <1>3, PartsFinite
    <3>6. /\ R[a].File \in DOMAIN texts /\ R[a].Kind = "relationship"
          /\ c + 1 \in DOMAIN names /\ R[a].Name = names[c + 1]
      BY <1>3 DEF Placed
    <3>. HIDE DEF c, own, L
    <3>7. own + c = own + (c + 1) - 1
      BY <3>4, <3>5
    <3>8. InPlace(texts, R[a], own + c)
      BY <1>1, <3>6, <3>7 DEF InPlace, own
    <3>9. QED
      BY <3>3, <3>4, <3>8
  <2>3. QED
    BY <2>1, <2>2
<1>. HIDE DEF L
<1>8. QED
  BY <1>5, <1>6, <1>7

(* What the files and the paths of the running commands are. *)
Inputs ==
  /\ \A f \in Files : files[f].Content \in Contents \cup {NoContent}
  /\ \A p \in Procs : pc[p] # "idle" => env[p] \in Paths

LEMMA InputsNext == Types /\ Inputs /\ [Next]_vars => Inputs'
<1>. SUFFICES ASSUME Types, Inputs, [Next]_vars PROVE Inputs'
  OBVIOUS
<1>1. CASE UNCHANGED vars
  BY <1>1 DEF Inputs, vars, fileVars, diskVars, procVars
<1>2. ASSUME NEW f \in Files, Edit(f) PROVE Inputs'
  <2>1. \A g \in Files : files'[g].Content = files[g].Content
                         \/ files'[g].Content \in Contents \cup {NoContent}
    BY <1>2 DEF Edit, Types
  <2>2. UNCHANGED <<pc, env>>
    BY <1>2 DEF Edit, procVars
  <2>3. QED
    BY <2>1, <2>2 DEF Inputs
<1>3. CASE DamageCache
  BY <1>3 DEF DamageCache, Inputs, procVars
<1>4. ASSUME NEW p \in Procs, Steps(p) PROVE Inputs'
  <2>1. Alone(p) /\ UNCHANGED files
    BY <1>4, StepsAlone DEF fileVars
  <2>2. SUFFICES pc'[p] # "idle" => env'[p] \in Paths
    BY <2>1, <2>2 DEF Inputs, Alone
  <2>3. CASE Start(p)
    BY <2>3 DEF Start, Types
  <2>4. ASSUME NEW label, NEW c, Goto(p, label, c), pc[p] # "idle" PROVE env'[p] \in Paths
    BY <2>4 DEF Goto, Inputs
  <2>5. ASSUME NEW how, End(p, how) PROVE pc'[p] = "idle"
    BY <2>5 DEF End, Types
  <2>6. CASE ReadCache(p)
    <3>1. pc[p] # "idle"
      BY <2>6, ReadCases
    <3>2. QED
      BY <2>4, <2>5, <2>6, <3>1, ReadCases DEF Go
  <2>7. CASE Check(p)
    <3>1. pc[p] # "idle"
      BY <2>7, CheckCases
    <3>2. QED
      BY <2>4, <2>5, <2>7, <3>1, CheckCases DEF Go
  <2>8. CASE Parse(p)
    BY <2>4, <2>5, <2>8 DEF Parse
  <2>9. CASE Stat(p)
    BY <2>4, <2>9 DEF Stat
  <2>10. CASE OpenTmp(p)
    BY <2>4, <2>10 DEF OpenTmp, Go
  <2>11. CASE WriteTmp(p)
    BY <2>4, <2>11 DEF WriteTmp, Go
  <2>12. CASE Rename(p)
    BY <2>4, <2>5, <2>12 DEF Rename, Go
  <2>13. CASE LoadDefs(p)
    BY <2>5, <2>13 DEF LoadDefs
  <2>14. CASE Crash(p)
    BY <2>5, <2>14 DEF Crash
  <2>15. CASE WriteFails(p)
    BY <2>4, <2>5, <2>15 DEF WriteFails, Go
  <2>16. QED
    BY <1>4, <2>3, <2>6, <2>7, <2>8, <2>9, <2>10, <2>11, <2>12, <2>13, <2>14, <2>15
       DEF Steps, Continue
<1>5. QED
  BY <1>1, <1>2, <1>3, <1>4 DEF Next, Steps

(* Whatever the processes run, whoever dies and whatever was edited since  *)
(* the files were indexed: a command that loads the definitions of a cache *)
(* that is not called stale finds each where the index says, and has those *)
(* of the path in their order, if no path names a directory twice.         *)
THEOREM CurrentFinds ==
  ASSUME ~EditsDuringBuild, \A dirs \in Paths : OnceEach(dirs)
  PROVE  Spec => []CurrentServes
<1>1. ASSUME CacheInv, Inputs PROVE CurrentServes
  <2>. SUFFICES ASSUME NEW p \in Procs, pc[p] = "defs", ~CheckStaleness(cache[p], env[p])
                PROVE  /\ DefsFromCache(cache[p])
                       /\ [k \in DOMAIN cache[p].Entries |-> cache[p].Entries[k].Def] =
                            LoadFromPath(Texts(env[p]), env[p])
    BY DEF CurrentServes
  <2>0. ~ParseFails(Texts(env[p])) /\ cache[p].Entries = Entries(env[p])
    BY <1>1, CurrentEntries DEF CacheInv, MemoryFaithful, InMemory
  <2> DEFINE texts == Texts(env[p])
             L == LoadFromPath(texts, env[p])
             entries == cache[p].Entries
  <2>1. env[p] \in Paths /\ IsList(env[p]) /\ OnceEach(env[p])
    BY <1>1, ListsAssumption DEF Inputs
  <2>2. DOMAIN texts \subseteq Files
        /\ \A f \in DOMAIN texts : Exists(f) /\ texts[f] = files[f].Content /\ texts[f].Parses
    BY <2>0 DEF Texts, OnPath, ParseFails
  <2>3. TextsOf(texts)
    <3>1. SUFFICES ASSUME NEW f \in DOMAIN texts, NEW kind \in Kinds
                   PROVE  IsList(texts[f].Defs[kind])
      BY <2>2 DEF TextsOf
    <3>2. texts[f] \in Contents
      BY <1>1, <2>2 DEF Inputs, NoContent
    <3>3. QED
      BY <3>2, ListsAssumption
  <2>4. /\ L \in Seq(Given(texts))
        /\ \A k \in 1 .. Len(L) : InPlace(texts, L[k], Cardinality(Before(L, k)))
    BY <2>1, <2>3, EveryPlace
  <2>5. entries = Index(L)
    BY <2>0 DEF Entries
  <2>. HIDE DEF texts, L
  <2>6. DOMAIN L = 1 .. Len(L) /\ L = [k \in DOMAIN L |-> L[k]]
    BY <2>4
  <2>7. DOMAIN entries = DOMAIN L
        /\ \A k \in DOMAIN L : entries[k] = [Def |-> L[k], DocIndex |-> Cardinality(Before(L, k))]
    BY <2>5 DEF Index, Before
  <2>. HIDE DEF entries
  <2>8. ASSUME NEW k \in DOMAIN L PROVE LoadEntry(entries[k])
    <3> DEFINE def == L[k] n == Cardinality(Before(L, k))
    <3>1. InPlace(texts, def, n)
      BY <2>4, <2>6
    <3>2. entries[k].Def = def /\ entries[k].DocIndex = n
      BY <2>7
    <3>. HIDE DEF def, n
    <3>3. Exists(def.File) /\ files[def.File].Content = texts[def.File]
          /\ texts[def.File].Parses
      BY <2>2, <3>1 DEF InPlace
    <3>4. QED
      BY <3>1, <3>2, <3>3 DEF LoadEntry, InPlace, Names
  <2>9. [k \in DOMAIN entries |-> entries[k].Def] = L
    <3>1. \A k \in DOMAIN L : entries[k].Def = L[k]
      BY <2>7
    <3>2. QED
      BY <2>6, <2>7, <3>1
  <2>10. QED
    BY <2>7, <2>8, <2>9 DEF DefsFromCache, entries, L, texts
<1>2. Init => CacheInv /\ Inputs
  BY CacheInvInit DEF Init, Inputs
<1>3. CacheInv /\ Inputs /\ [Next]_vars => (CacheInv /\ Inputs)'
  BY CacheInvNext, InputsNext DEF CacheInv
<1>4. QED
  BY <1>1, <1>2, <1>3, PTL DEF Spec
=============================================================================
