---------------------------- MODULE WorkspaceLock ----------------------------
(***************************************************************************)
(* The lock files under which a workspace's registries are written         *)
(* (runtime/process/registry.ts) and the host's list of instances          *)
(* (runtime/instance/registry.ts).  A process creates the file             *)
(* exclusively, writes its identity and a token into it, and unlinks it    *)
(* when it is done.  Who finds the file there judges whether its owner is  *)
(* gone, and unlinks it then.  Reading and unlinking are separate steps.   *)
(*                                                                         *)
(* A member of Proc is an operating system process; a process that comes   *)
(* back after a crash is another member.  Its identity, its token and the  *)
(* inode of the file it creates are all represented by its name.           *)
(***************************************************************************)
EXTENDS Naturals

CONSTANTS
  Proc,         \* operating system processes
  MaxCrashes,   \* bounds how many of them die
  MaxPauses     \* bounds how often a lock file reaches the stale age

ASSUME LockAssumption == "none" \notin Proc /\ MaxCrashes \in Nat /\ MaxPauses \in Nat

VARIABLES
  scheme,  \* which of the two lock files: "workspace" or "host"
  file,    \* the lock file
  pc,      \* where each process is
  robbed,  \* history: a lock whose owner lives was taken away
  used     \* the bounds already used

lockVars == <<scheme, file, pc, robbed, used>>

NoFile == [owner |-> "none", written |-> FALSE, old |-> FALSE]

Dead(p) == pc[p] = "dead"

LockInit ==
  /\ scheme \in {"workspace", "host"}
  /\ file = NoFile
  /\ pc = [p \in Proc |-> "idle"]
  /\ robbed = FALSE
  /\ used = [crashes |-> 0, pauses |-> 0]

LockTypeOK ==
  /\ scheme \in {"workspace", "host"}
  /\ file \in {NoFile} \cup [owner : Proc, written : BOOLEAN, old : BOOLEAN]
  /\ pc \in [Proc -> {"idle", "trying", "opened", "holding", "judging",
                      "stealing", "unlinking", "dead"}]
  /\ robbed \in BOOLEAN
  /\ used \in [crashes : 0..MaxCrashes, pauses : 0..MaxPauses]

Moves(p, to) == pc' = [pc EXCEPT ![p] = to]

(* Taking away the file, by whoever does it. *)
Removes(p) ==
  /\ file' = NoFile
  /\ robbed' = (robbed \/ (file # NoFile /\ file.owner # p /\ ~Dead(file.owner)))

Call(p) ==
  /\ pc[p] = "idle"
  /\ Moves(p, "trying")
  /\ UNCHANGED <<scheme, file, robbed, used>>

(* mutant: a lock file that has no identity yet is overwritten. *)
FreeUnlessWritten == ~file.written

(* The file is created, or the call fails because it exists. *)
Free == file = NoFile

Open(p) ==
  /\ pc[p] = "trying"
  /\ IF Free
     THEN file' = [owner |-> p, written |-> FALSE, old |-> FALSE] /\ Moves(p, "opened")
     ELSE file' = file /\ Moves(p, "judging")
  /\ UNCHANGED <<scheme, robbed, used>>

(* The identity is written through the handle: it reaches the file only if the file is still
   the one that was opened.  Writing renews the file's age. *)
WritesIdentity(p) ==
  IF file.owner = p
  THEN file' = [file EXCEPT !.written = TRUE, !.old = FALSE]
  ELSE UNCHANGED file

Write(p) ==
  /\ pc[p] = "opened"
  /\ WritesIdentity(p)
  /\ Moves(p, "holding")
  /\ UNCHANGED <<scheme, robbed, used>>

(* The workspace's lock is judged by the identity in it and by its age only when it has none;
   the host's by its age alone. *)
JudgedStale ==
  IF scheme = "workspace" /\ file.written THEN Dead(file.owner) ELSE file.old

Judge(p) ==
  /\ pc[p] = "judging"
  /\ IF file # NoFile /\ JudgedStale
     THEN Moves(p, "stealing")
     ELSE Moves(p, "trying") \/ (file # NoFile /\ Moves(p, "idle"))
  /\ UNCHANGED <<scheme, file, robbed, used>>

(* The unlink names the path: it takes what is there by now. *)
Steal(p) ==
  /\ pc[p] = "stealing"
  /\ Removes(p)
  /\ Moves(p, "trying")
  /\ UNCHANGED <<scheme, used>>

IsMine(p) == file.owner = p /\ file.written

Leave(p) ==
  /\ pc[p] = "holding"
  /\ Moves(p, IF IsMine(p) THEN "unlinking" ELSE "idle")
  /\ UNCHANGED <<scheme, file, robbed, used>>

Unlink(p) ==
  /\ pc[p] = "unlinking"
  /\ Removes(p)
  /\ Moves(p, "idle")
  /\ UNCHANGED <<scheme, used>>

Die(p) ==
  /\ ~Dead(p)
  /\ used.crashes < MaxCrashes
  /\ Moves(p, "dead")
  /\ used' = [used EXCEPT !.crashes = @ + 1]
  /\ UNCHANGED <<scheme, file, robbed>>

(* Thirty seconds pass over a lock file. *)
Age ==
  /\ file # NoFile /\ ~file.old
  /\ used.pauses < MaxPauses
  /\ file' = [file EXCEPT !.old = TRUE]
  /\ used' = [used EXCEPT !.pauses = @ + 1]
  /\ UNCHANGED <<scheme, pc, robbed>>

LockNext ==
  \/ Age
  \/ \E p \in Proc : \/ Call(p) \/ Open(p) \/ Write(p) \/ Judge(p) \/ Steal(p)
                     \/ Leave(p) \/ Unlink(p) \/ Die(p)

LockSpec == LockInit /\ [][LockNext]_lockVars

-----------------------------------------------------------------------------

InSection(p) == pc[p] \in {"holding", "unlinking"}

(* Two processes are never both inside, unless a lock was taken from a process that lived; and that
   happens only once a holder has died or a lock file has reached the stale age, however the calls
   interleave.  (withWorkspaceLifecycleLock, mutateHostRegistry) *)
ExclusiveUnlessRobbed ==
  /\ ~robbed => \A p, q \in Proc : InSection(p) /\ InSection(q) => p = q
  /\ robbed => used.crashes + used.pauses > 0

(* docs/reference/process-ownership-registry.md:54: an exited owner can be recovered "without one
   process releasing another process's lock".  It does not hold, and no run lists it: two processes
   judge the same file, and the second unlinks the one the first has made since. *)
NoForeignRelease ==
  [][\A p \in Proc : scheme = "workspace" /\ file.owner = p /\ file.written /\ file' = NoFile
                       => Dead(p) \/ pc'[p] # pc[p]]_lockVars

==============================================================================
