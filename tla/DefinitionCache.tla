--------------------------- MODULE DefinitionCache ---------------------------
(***************************************************************************)
(* The definition cache: internal/loader/cache.go and path.go, with the    *)
(* commands that use it (cmd/modelr/main.go and internal/mcp/server.go).   *)
(* Commands run as processes that share a home directory and the files on  *)
(* $MODELR_PATH, which editors change and delete at any moment.  A process *)
(* may die between any two of its system calls.                            *)
(*                                                                         *)
(* A file is a number, ordered as ScanDirectory sorts the paths.  Its      *)
(* definitions are the names of the nodes and those of the relationships   *)
(* that ParseDefinitions returns.  The JSON of a cache is its value; of    *)
(* its length only the number of entries matters, when two processes write *)
(* the same file.  The read of a whole file, of the metadata of all files  *)
(* and of all definitions are one step each.                               *)
(***************************************************************************)
EXTENDS Integers, SequencesExt

CONSTANTS
  Procs,      \* the processes
  Runs,       \* Runs[p]: the commands process p runs, of CommandNames
  Paths,      \* the values $MODELR_PATH takes: sequences of directories
  DirOf,      \* DirOf[f]: the directory of file f
  Contents,   \* what an editor may write: records with Parses and the names
              \* of its Defs by kind
  MaxEdits,   \* edits and damages in a behavior
  EditsDuringBuild,  \* whether files change between BuildCache's two scans
  Damage      \* whether the cache file may be damaged from outside

CommandNames == {"load", "mcp", "refresh", "auto", "status"}

ASSUME ProcsAssumption == IsFiniteSet(Procs)
ASSUME RunsAssumption == Runs \in [Procs -> SUBSET CommandNames]
ASSUME FilesAssumption == IsFiniteSet(DOMAIN DirOf) /\ DOMAIN DirOf \subseteq Nat
ASSUME EditsAssumption == MaxEdits \in Nat /\ {EditsDuringBuild, Damage} \subseteq BOOLEAN

Kinds == {"node", "relationship"}
IsList(s) == s \in Seq({s[k] : k \in DOMAIN s})

ASSUME ListsAssumption ==
  /\ \A dirs \in Paths : IsList(dirs)
  /\ \A c \in Contents : \A kind \in Kinds : IsList(c.Defs[kind])

VARIABLES
  files,      \* files[f]: its Content and Mtime; Mtime 0 when it is absent
  now,        \* the last mtime given
  inode,      \* inode[n]: the bytes of an inode of the cache directory
  tmp, path,  \* what definitions.json.tmp and definitions.json name; 0: nothing
  pc,         \* where each process is
  command,    \* the command it runs
  env,        \* its $MODELR_PATH
  cache,      \* its *Cache, NoCache for nil
  fd,         \* the inode it has open for writing
  result      \* how its last command ended

fileVars == <<files, now>>
diskVars == <<inode, tmp, path>>
procVars == <<pc, command, env, cache, fd, result>>
vars == <<fileVars, diskVars, procVars>>

Files == DOMAIN DirOf
Inodes == 1 .. Cardinality(Procs) + 2

NoContent == [Parses |-> FALSE, Defs |-> [kind \in Kinds |-> << >>]]
NoCache == [Path |-> << >>, Files |-> << >>, Entries |-> << >>]

(* The bytes of a cache file: whole JSON of a cache, none, a mixture, or   *)
(* what somebody else left there.                                          *)
Bytes(state, c, length) == [State |-> state, Cache |-> c, Length |-> length]
Empty == Bytes("empty", NoCache, 0)
Damaged == Bytes("damaged", NoCache, 0)
JSON(c) == Bytes("whole", c, Len(c.Entries))

Exists(f) == files[f].Mtime > 0

-----------------------------------------------------------------------------
(* The path and its definitions. *)

OnPath(dirs) == {f \in Files : Exists(f) /\ \E k \in DOMAIN dirs : DirOf[f] = dirs[k]}

(* What a walk over the path reads. *)
Texts(dirs) == [f \in OnPath(dirs) |-> files[f].Content]

(* The files of a directory in order.  Not SetToSortSeq, which provers do  *)
(* not expand.                                                             *)
ScanDirectory(texts, dir) ==
  LET own == {f \in DOMAIN texts : DirOf[f] = dir}
  IN  CHOOSE s \in [1 .. Cardinality(own) -> own] : \A i, j \in DOMAIN s : i < j => s[i] < s[j]

(* A directory named twice is walked twice. *)
Scanned(texts, dirs) == FlattenSeq([k \in DOMAIN dirs |-> ScanDirectory(texts, dirs[k])])

(* ParseDefinitionFile: definitions with their Source. *)
DefsIn(kind, texts, f) ==
  LET names == texts[f].Defs[kind]
  IN  [j \in DOMAIN names |-> [Kind |-> kind, Name |-> names[j], File |-> f]]

(* Of one kind, what LoadFromPath collects. *)
DefsOf(kind, texts, dirs) ==
  LET scanned == Scanned(texts, dirs)
  IN  FlattenSeq([k \in DOMAIN scanned |-> DefsIn(kind, texts, scanned[k])])

LoadFromPath(texts, dirs) ==
  DefsOf("node", texts, dirs) \o DefsOf("relationship", texts, dirs)

ParseFails(texts) == \E f \in DOMAIN texts : ~texts[f].Parses

(* Mutant: nodes and relationships are counted apart. *)
IndexByKind(defs) ==
  [k \in DOMAIN defs |->
    [Def |-> defs[k],
     DocIndex |-> Cardinality({j \in 1 .. k-1 : defs[j].File = defs[k].File
                                                /\ defs[j].Kind = defs[k].Kind})]]

(* The index BuildCache makes: DocIndex counts the entries of a file.      *)
Index(defs) ==
  [k \in DOMAIN defs |->
    [Def |-> defs[k],
     DocIndex |-> Cardinality({j \in 1 .. k-1 : defs[j].File = defs[k].File})]]

(* The entries of a cache that is built now. *)
Entries(dirs) == Index(LoadFromPath(Texts(dirs), dirs))

(* The files BuildCache stats after it has parsed them. *)
Metadata(dirs) == [f \in OnPath(dirs) |-> files[f].Mtime]

(* Mutant: files that are new on the path are not looked for. *)
CheckStalenessOfKnown(c, dirs) ==
  \/ c.Path # dirs
  \/ \E f \in DOMAIN c.Files : ~Exists(f) \/ files[f].Mtime > c.Files[f]

(* Mutant: a file as old as the cache counts as modified. *)
CheckStalenessInclusive(c, dirs) ==
  \/ c.Path # dirs
  \/ \E f \in DOMAIN c.Files : ~Exists(f) \/ files[f].Mtime >= c.Files[f]
  \/ \E f \in OnPath(dirs) : f \notin DOMAIN c.Files

CheckStaleness(c, dirs) ==
  \/ c.Path # dirs
  \/ \E f \in DOMAIN c.Files : ~Exists(f) \/ files[f].Mtime > c.Files[f]
  \/ \E f \in OnPath(dirs) : f \notin DOMAIN c.Files

(* LoadEntry: the file is parsed again, and the definition must be at its  *)
(* place among the nodes and then the relationships.                       *)
LoadEntry(entry) ==
  LET content == files[entry.Def.File].Content
      names == content.Defs[entry.Def.Kind]
      before == IF entry.Def.Kind = "node" THEN 0 ELSE Len(content.Defs["node"])
  IN  /\ Exists(entry.Def.File) /\ content.Parses
      /\ \E j \in DOMAIN names :
           names[j] = entry.Def.Name /\ entry.DocIndex = before + j - 1

DefsFromCache(c) == \A k \in DOMAIN c.Entries : LoadEntry(c.Entries[k])

-----------------------------------------------------------------------------
Init ==
  /\ files = [f \in Files |-> [Content |-> NoContent, Mtime |-> 0]]
  /\ now = 0
  /\ inode = [n \in Inodes |-> Empty]
  /\ tmp = 0 /\ path = 0
  /\ pc = [p \in Procs |-> "idle"]
  /\ command = [p \in Procs |-> "none"]
  /\ env = [p \in Procs |-> << >>]
  /\ cache = [p \in Procs |-> NoCache]
  /\ fd = [p \in Procs |-> 0]
  /\ result = [p \in Procs |-> "none"]

Building == \E p \in Procs : pc[p] = "stat"

(* An editor writes or deletes a definition file. *)
Edit(f) ==
  /\ now < MaxEdits
  /\ EditsDuringBuild \/ ~Building
  /\ now' = now + 1
  /\ \/ \E c \in Contents : files' = [files EXCEPT ![f] = [Content |-> c, Mtime |-> now']]
     \/ Exists(f) /\ files' = [files EXCEPT ![f] = [Content |-> NoContent, Mtime |-> 0]]
  /\ UNCHANGED <<diskVars, procVars>>

(* A full disk, a power failure, a hand: the cache file is no JSON any     *)
(* more.  Counted as an edit.                                              *)
DamageCache ==
  /\ Damage /\ path # 0
  /\ now < MaxEdits
  /\ now' = now + 1
  /\ inode' = [inode EXCEPT ![path] = Damaged]
  /\ UNCHANGED <<files, tmp, path, procVars>>

(* The process goes on at label, with c in memory. *)
Goto(p, label, c) ==
  /\ pc' = [pc EXCEPT ![p] = label]
  /\ cache' = [cache EXCEPT ![p] = c]
  /\ UNCHANGED <<command, env, result>>

Go(p, label) == Goto(p, label, cache[p])

(* The command returns, and its process is gone with all it had in memory. *)
End(p, how) ==
  /\ pc' = [pc EXCEPT ![p] = "idle"]
  /\ result' = [result EXCEPT ![p] = how]
  /\ command' = [command EXCEPT ![p] = "none"]
  /\ env' = [env EXCEPT ![p] = << >>]
  /\ cache' = [cache EXCEPT ![p] = NoCache]

Start(p) ==
  /\ pc[p] = "idle"
  /\ \E c \in Runs[p], dirs \in Paths :
       /\ command' = [command EXCEPT ![p] = c]
       /\ env' = [env EXCEPT ![p] = dirs]
       /\ pc' = [pc EXCEPT ![p] = IF c = "refresh" THEN "parse" ELSE "read"]
  /\ result' = [result EXCEPT ![p] = "none"]
  /\ UNCHANGED <<fileVars, diskVars, cache, fd>>

ReadCache(p) ==
  /\ pc[p] = "read"
  /\ CASE path = 0 -> IF command[p] = "status" THEN End(p, "ok") ELSE Go(p, "parse")
       [] path # 0 /\ inode[path].State = "whole" ->
            Goto(p, IF command[p] = "mcp" THEN "defs" ELSE "check", inode[path].Cache)
       [] path # 0 /\ inode[path].State # "whole" -> End(p, "unreadable cache")
  /\ UNCHANGED <<fileVars, diskVars, fd>>

(* What the three commands that check do with the answer: a load warns and *)
(* goes on with the cache it has.                                          *)
Check(p) ==
  /\ pc[p] = "check"
  /\ LET stale == CheckStaleness(cache[p], env[p])
     IN  CASE command[p] = "load" -> Go(p, "defs")
           [] command[p] = "auto" -> IF stale THEN Goto(p, "parse", NoCache) ELSE End(p, "ok")
           [] command[p] = "status" -> End(p, IF stale THEN "stale" ELSE "ok")
  /\ UNCHANGED <<fileVars, diskVars, fd>>

(* BuildCache, first scan: every file is parsed. *)
Parse(p) ==
  /\ pc[p] = "parse"
  /\ IF ParseFails(Texts(env[p])) THEN End(p, "parse error")
     ELSE Goto(p, "stat", [Path |-> env[p], Files |-> << >>, Entries |-> Entries(env[p])])
  /\ UNCHANGED <<fileVars, diskVars, fd>>

(* Second scan: the metadata of every file. *)
Stat(p) ==
  /\ pc[p] = "stat"
  /\ Goto(p, "open", [cache[p] EXCEPT !.Files = Metadata(env[p])])
  /\ UNCHANGED <<fileVars, diskVars, fd>>

InUse == {tmp, path} \cup {fd[p] : p \in Procs}

(* An inode that has no name and that nobody has open is free again. *)
Collect(bytes) == inode' = [n \in Inodes |-> IF n \in InUse' THEN bytes[n] ELSE Empty]

(* Mutant: the cache file itself is opened. *)
OpenInPlace(p) ==
  /\ pc[p] = "open"
  /\ LET n == IF path # 0 THEN path ELSE CHOOSE n \in Inodes : n \notin InUse
     IN  /\ path' = n
         /\ fd' = [fd EXCEPT ![p] = n]
         /\ inode' = [inode EXCEPT ![n] = Empty]
  /\ Go(p, "write")
  /\ UNCHANGED <<fileVars, tmp>>

(* WriteCache: os.WriteFile opens the temporary file, creating it or       *)
(* truncating the one that is there, ...                                   *)
OpenTmp(p) ==
  /\ pc[p] = "open"
  /\ LET n == IF tmp # 0 THEN tmp ELSE CHOOSE n \in Inodes : n \notin InUse
     IN  /\ tmp' = n
         /\ fd' = [fd EXCEPT ![p] = n]
         /\ inode' = [inode EXCEPT ![n] = Empty]
  /\ Go(p, "write")
  /\ UNCHANGED <<fileVars, path>>

(* ... writes from offset zero over the bytes that are there by then, ...  *)
Overlay(old, new) ==
  IF old = Empty \/ old.Length <= new.Length THEN new ELSE Bytes("torn", NoCache, old.Length)

WriteTmp(p) ==
  /\ pc[p] = "write"
  /\ fd' = [fd EXCEPT ![p] = 0]
  /\ Go(p, "rename")
  /\ UNCHANGED <<fileVars, tmp, path>>
  /\ Collect([inode EXCEPT ![fd[p]] = Overlay(@, JSON(cache[p]))])

(* Mutant: a cache that is there already stays. *)
RenameIfAbsent(p) ==
  /\ pc[p] = "rename"
  /\ path' = IF path = 0 THEN tmp ELSE path
  /\ tmp' = 0
  /\ IF tmp = 0 /\ command[p] # "mcp" THEN End(p, "rename error")
     ELSE IF command[p] \in {"load", "mcp"} THEN Go(p, "defs")
     ELSE End(p, "ok")
  /\ UNCHANGED <<fileVars, fd>>
  /\ Collect(inode)

(* ... and what the temporary name stands for becomes the cache.  The MCP  *)
(* server takes no notice of an error.                                     *)
Rename(p) ==
  /\ pc[p] = "rename"
  /\ path' = IF tmp # 0 THEN tmp ELSE path
  /\ tmp' = 0
  /\ IF tmp = 0 /\ command[p] # "mcp" THEN End(p, "rename error")
     ELSE IF command[p] \in {"load", "mcp"} THEN Go(p, "defs")
     ELSE End(p, "ok")
  /\ UNCHANGED <<fileVars, fd>>
  /\ Collect(inode)

(* WriteCache fails: the directory cannot be made, the temporary file not  *)
(* opened, written or renamed.  What is there of it stays under its name.  *)
WriteFails(p) ==
  /\ pc[p] \in {"open", "write", "rename"}
  /\ IF command[p] = "mcp" THEN Go(p, "defs") ELSE End(p, "write error")
  /\ fd' = [fd EXCEPT ![p] = 0]
  /\ UNCHANGED <<fileVars, tmp, path>>
  /\ Collect(inode)

LoadDefs(p) ==
  /\ pc[p] = "defs"
  /\ End(p, IF DefsFromCache(cache[p]) THEN "ok" ELSE "bad entry")
  /\ UNCHANGED <<fileVars, diskVars, fd>>

(* The process dies: what it has not written is lost. *)
Crash(p) ==
  /\ pc[p] # "idle"
  /\ End(p, "crashed")
  /\ fd' = [fd EXCEPT ![p] = 0]
  /\ UNCHANGED <<fileVars, tmp, path>>
  /\ Collect(inode)

(* The next system call of a running command. *)
Continue(p) ==
  \/ ReadCache(p) \/ Check(p)
  \/ Parse(p) \/ Stat(p) \/ OpenTmp(p) \/ WriteTmp(p) \/ Rename(p)
  \/ WriteFails(p) \/ LoadDefs(p)

Next ==
  \/ \E f \in Files : Edit(f)
  \/ DamageCache
  \/ \E p \in Procs : Start(p) \/ Continue(p) \/ Crash(p)

Spec == Init /\ [][Next]_vars

-----------------------------------------------------------------------------
(* What the cache guarantees. *)

(* plans/done/iteration-1, step 3.2: "Writes atomically (write to temp     *)
(* file, then rename)".  Whatever dies when, the cache file is either      *)
(* absent or a whole cache, unless it is damaged from outside.             *)
WritesAtomically == path # 0 => inode[path].State \in {"whole", "damaged"}

(* cache.go line 91: "whether the cache is up to date".  A cache that is   *)
(* called current has the entries a new one would have.                    *)
CurrentIsUpToDate ==
  \A p \in Procs :
    pc[p] = "check" /\ ~CheckStaleness(cache[p], env[p]) =>
      ~ParseFails(Texts(env[p])) /\ cache[p].Entries = Entries(env[p])

(* Nor is an alarm raised for nothing: a cache that is what a new build    *)
(* would make is current, so that `cache refresh --auto` settles.          *)
FreshIsCurrent ==
  \A p \in Procs :
    pc[p] = "check"
    /\ cache[p] = [Path |-> env[p], Files |-> Metadata(env[p]), Entries |-> Entries(env[p])]
    => ~CheckStaleness(cache[p], env[p])

(* A refresh that says it was done has put the cache it built where the    *)
(* next command looks for it, whatever was there: an older cache, a        *)
(* damaged one, or what a crashed process left under the temporary name.   *)
RefreshRepairs ==
  [][\A p \in Procs :
       pc[p] = "rename" /\ result'[p] = "ok" =>
         path' # 0 /\ inode'[path'] = JSON(cache[p])]_vars

(* Nor does it fail a command that goes on with it: unless it is called    *)
(* stale, DefsFromCache finds every entry where its DocIndex says, and the *)
(* definitions are those of the path in the order LoadFromPath has them,   *)
(* whatever was edited since the files were indexed.                       *)
CurrentServes ==
  \A p \in Procs :
    pc[p] = "defs" /\ ~CheckStaleness(cache[p], env[p]) =>
      /\ DefsFromCache(cache[p])
      /\ [k \in DOMAIN cache[p].Entries |-> cache[p].Entries[k].Def] =
           LoadFromPath(Texts(env[p]), env[p])
=============================================================================
