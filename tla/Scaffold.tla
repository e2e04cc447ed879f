------------------------------ MODULE Scaffold ------------------------------
(***************************************************************************)
(* `modelr init`: Scaffold of internal/init/scaffold.go and runInit of     *)
(* cmd/modelr/main.go.  A command walks a fixed list of files and creates  *)
(* those that are not there.  Several commands can run in one directory,   *)
(* people and other tools write the same files, a directory may be         *)
(* impossible to create, a file may be impossible to open, a disk full     *)
(* when it is written, and a process may die between two system calls.     *)
(*                                                                         *)
(* os.WriteFile is two steps: it opens the file, creating or truncating    *)
(* it, and writes the content over whatever is there by then.  Either can  *)
(* fail, the second when nothing or a part of the content is written.      *)
(***************************************************************************)
EXTENDS Integers, SequencesExt

CONSTANTS
  Procs,        \* processes that run the command
  FileCount,    \* the files of the list are 1 .. FileCount, in its order
  MaxEdits      \* files written by others in a behavior

ASSUME FileCountAssumption == FileCount \in Nat \ {0}

Files == 1 .. FileCount

VARIABLES
  disk,       \* disk[f]: "absent", "torn" (nothing or a part of the template),
              \* "template", "theirs" or "mixed"
  blocked,    \* files whose directory cannot be created
  edits,      \* files written by others so far
  abandoned,  \* history: the files at which a command has died or failed
              \* to write since they were last opened or written
  pc,         \* "idle", "stat", "mkdir", "open" or "write"
  at,         \* the file of the loop
  created, skipped,   \* ScaffoldResult
  found,      \* the disk when the command started
  result      \* what the command printed last

worldVars == <<blocked, edits>>
procVars == <<pc, at, created, skipped, found, result>>
vars == <<disk, blocked, edits, abandoned, pc, at, created, skipped, found, result>>

Exists(f) == disk[f] # "absent"

Init ==
  /\ blocked \in SUBSET Files
  /\ disk \in {d \in [Files -> {"absent", "theirs"}] : \A f \in blocked : d[f] = "absent"}
  /\ edits = 0
  /\ abandoned = {}
  /\ pc = [p \in Procs |-> "idle"]
  /\ at = [p \in Procs |-> 1]
  /\ created = [p \in Procs |-> << >>]
  /\ skipped = [p \in Procs |-> << >>]
  /\ found = [p \in Procs |-> disk]
  /\ result = [p \in Procs |-> "none"]

(* Somebody else saves one of the files, in place. *)
Edit(f) ==
  /\ edits < MaxEdits /\ f \notin blocked
  /\ edits' = edits + 1
  /\ disk' = [disk EXCEPT ![f] = "theirs"]
  /\ abandoned' = abandoned \ {f}
  /\ UNCHANGED <<blocked, procVars>>

Start(p) ==
  /\ pc[p] = "idle"
  /\ pc' = [pc EXCEPT ![p] = "stat"]
  /\ at' = [at EXCEPT ![p] = 1]
  /\ created' = [created EXCEPT ![p] = << >>]
  /\ skipped' = [skipped EXCEPT ![p] = << >>]
  /\ found' = [found EXCEPT ![p] = disk]
  /\ result' = [result EXCEPT ![p] = "none"]
  /\ UNCHANGED <<disk, worldVars, abandoned>>

At(p) == at[p]
InList(p) == at[p] <= FileCount

(* Mutant: a file that is not the template is written again. *)
StatContent(p) ==
  /\ pc[p] = "stat" /\ InList(p)
  /\ IF disk[At(p)] = "template"
     THEN /\ skipped' = [skipped EXCEPT ![p] = Append(@, At(p))]
          /\ at' = [at EXCEPT ![p] = @ + 1]
          /\ UNCHANGED pc
     ELSE pc' = [pc EXCEPT ![p] = "mkdir"] /\ UNCHANGED <<skipped, at>>
  /\ UNCHANGED <<disk, worldVars, abandoned, created, found, result>>

(* A file that is there is skipped, whatever is in it. *)
Stat(p) ==
  /\ pc[p] = "stat" /\ InList(p)
  /\ IF Exists(At(p))
     THEN /\ skipped' = [skipped EXCEPT ![p] = Append(@, At(p))]
          /\ at' = [at EXCEPT ![p] = @ + 1]
          /\ UNCHANGED pc
     ELSE pc' = [pc EXCEPT ![p] = "mkdir"] /\ UNCHANGED <<skipped, at>>
  /\ UNCHANGED <<disk, worldVars, abandoned, created, found, result>>

(* Mutant: a directory that cannot be created is passed over. *)
MkdirAllLenient(p) ==
  /\ pc[p] = "mkdir"
  /\ IF At(p) \in blocked
     THEN /\ pc' = [pc EXCEPT ![p] = "stat"]
          /\ at' = [at EXCEPT ![p] = @ + 1]
          /\ skipped' = [skipped EXCEPT ![p] = Append(@, At(p))]
     ELSE pc' = [pc EXCEPT ![p] = "open"] /\ UNCHANGED <<at, skipped>>
  /\ UNCHANGED <<disk, worldVars, abandoned, created, found, result>>

(* An error ends the command, and the lists are not printed.               *)
Fail(p) ==
  /\ pc' = [pc EXCEPT ![p] = "idle"]
  /\ result' = [result EXCEPT ![p] = "error"]
  /\ UNCHANGED <<worldVars, at, created, skipped, found>>

MkdirAll(p) ==
  /\ pc[p] = "mkdir"
  /\ \/ At(p) \in blocked /\ Fail(p)
     \/ /\ At(p) \notin blocked
        /\ pc' = [pc EXCEPT ![p] = "open"]
        /\ UNCHANGED <<worldVars, at, created, skipped, found, result>>
  /\ UNCHANGED <<disk, abandoned>>

OpenFile(p) ==
  /\ pc[p] = "open"
  /\ \/ Fail(p) /\ UNCHANGED <<disk, abandoned>>
     \/ /\ disk' = [disk EXCEPT ![At(p)] = "torn"]
        /\ abandoned' = abandoned \ {At(p)}
        /\ pc' = [pc EXCEPT ![p] = "write"]
        /\ UNCHANGED <<worldVars, at, created, skipped, found, result>>

Foreign == {"theirs", "mixed"}

Written(p) ==
  /\ disk' = [disk EXCEPT ![At(p)] = IF @ \in Foreign THEN "mixed" ELSE "template"]
  /\ abandoned' = abandoned \ {At(p)}

(* A part of the template over a whole one changes nothing. *)
PartlyWritten(p) ==
  disk' = [disk EXCEPT ![At(p)] = IF @ \in Foreign THEN "mixed" ELSE @]

NextFile(p) ==
  /\ created' = [created EXCEPT ![p] = Append(@, At(p))]
  /\ at' = [at EXCEPT ![p] = @ + 1]
  /\ pc' = [pc EXCEPT ![p] = "stat"]
  /\ UNCHANGED <<worldVars, skipped, found, result>>

(* Mutant: the error of os.WriteFile is dropped. *)
WriteFileUnchecked(p) ==
  /\ pc[p] = "write"
  /\ NextFile(p)
  /\ \/ Written(p)
     \/ UNCHANGED abandoned /\ (UNCHANGED disk \/ PartlyWritten(p))

WriteFile(p) ==
  /\ pc[p] = "write"
  /\ \/ Written(p) /\ NextFile(p)
     \/ /\ UNCHANGED disk \/ PartlyWritten(p)
        /\ abandoned' = abandoned \cup {At(p)}
        /\ Fail(p)

(* The end of the list, and the last line the command prints. *)
Return(p) ==
  /\ pc[p] = "stat" /\ ~InList(p)
  /\ pc' = [pc EXCEPT ![p] = "idle"]
  /\ result' = [result EXCEPT ![p] =
       IF created[p] # << >> THEN "initialized" ELSE "nothing to do"]
  /\ UNCHANGED <<disk, worldVars, abandoned, at, created, skipped, found>>

Crash(p) ==
  /\ pc[p] # "idle"
  /\ abandoned' = IF pc[p] = "write" THEN abandoned \cup {At(p)} ELSE abandoned
  /\ pc' = [pc EXCEPT ![p] = "idle"]
  /\ result' = [result EXCEPT ![p] = "crashed"]
  /\ UNCHANGED <<disk, worldVars, at, created, skipped, found>>

(* The next system call of a running command. *)
Continue(p) ==
  Stat(p) \/ MkdirAll(p) \/ OpenFile(p) \/ WriteFile(p) \/ Return(p)

Next ==
  \/ \E f \in Files : Edit(f)
  \/ \E p \in Procs : Start(p) \/ Continue(p) \/ Crash(p)

Spec == Init /\ [][Next]_vars

-----------------------------------------------------------------------------
(* scaffold.go line 56: "Existing files are skipped, never overwritten."   *)
(* A file that was there when a command started is not touched by it,      *)
(* whatever other commands do to it meanwhile, half written as it may be.  *)
ExistingKept ==
  [][\A p \in Procs, f \in Files :
       pc[p] \in {"open", "write"} /\ pc'[p] # pc[p] /\ disk'[f] # disk[f] =>
         found[p][f] = "absent"]_vars

(* Two commands that truncate and skip each other's half-written files do  *)
(* not tear one by that: a file without its whole content is being written *)
(* by somebody who has not failed yet, or the last who did not get it      *)
(* written has died there or ended with an error.                          *)
TornIsAbandoned ==
  \A f \in Files :
    disk[f] = "torn" => f \in abandoned \/ \E p \in Procs : pc[p] = "write" /\ at[p] = f

(* The lists of a command tell every file it has dealt with, in one of the *)
(* two.  A command that ends without an error leaves every file in place,  *)
(* also the ones it has taken for another's work; and when it says there   *)
(* was nothing to do it has created none.                                  *)
AllThere ==
  \A p \in Procs :
    /\ Len(created[p]) + Len(skipped[p]) = at[p] - 1
    /\ ToSet(created[p]) \cup ToSet(skipped[p]) = 1 .. at[p] - 1
    /\ result[p] \in {"initialized", "nothing to do"} =>
         /\ \A f \in Files : Exists(f)
         /\ result[p] = "nothing to do" <=> ToSet(skipped[p]) = Files
=============================================================================
