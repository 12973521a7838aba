------------------------------- MODULE FileLock -------------------------------
(***************************************************************************)
(* runtime/security/cross-process-file-lock.ts: the lock file under which  *)
(* the audit log, the remote registrations, the workspace authority, the   *)
(* workspace commands and the staged transfers are written.  An abandoned  *)
(* lock is taken away by a rename to a private name, under a second lock   *)
(* file (".recovery"), and put back when it proves to be another file than *)
(* the one that was judged.  After creating the lock a process looks for a *)
(* recovery under way, and withdraws when there is one.                    *)
(*                                                                         *)
(* A member of Proc is an operating system process.  The queue in memory   *)
(* lets one call per process and path try at a time, so a process stands   *)
(* for its call, and its name for its nonce and for the inode of a file it *)
(* creates.                                                                *)
(***************************************************************************)
EXTENDS Naturals, Sequences

CONSTANTS
  Proc,         \* operating system processes
  MaxCrashes,   \* bounds how many of them die
  MaxPauses     \* bounds how often a file without an owner reaches the stale age

VARIABLES
  lock,      \* the lock file
  recovery,  \* the ".recovery" file
  claimed,   \* per process: the file it renamed to its private name
  saw,       \* per process: the owner of the file it judged abandoned
  pc,        \* where each process is
  robbed,    \* history: a lock file that its living creator had not filled in yet was judged
             \* abandoned, or its ".recovery" file was taken from a process that lives, or replaced
  spent      \* the bounds already used

fileLockVars == <<lock, recovery, claimed, saw, pc, robbed, spent>>

NoFile == [owner |-> "none", written |-> FALSE, old |-> FALSE]
Created(p) == [owner |-> p, written |-> FALSE, old |-> FALSE]

Dead(p) == pc[p] = "dead"

(* mutant: a file that has no owner yet is nobody's. *)
ProtectedByOwner(f) == f.written /\ ~Dead(f.owner)

(* lockStillProtected: the named owner lives or, while none is named, the file is young. *)
Protected(f) == IF f.written THEN ~Dead(f.owner) ELSE ~f.old

Fill(f, p) == IF f.owner = p THEN [f EXCEPT !.written = TRUE, !.old = FALSE] ELSE f

FileLockInit ==
  /\ lock = NoFile /\ recovery = NoFile
  /\ claimed = [p \in Proc |-> NoFile]
  /\ saw = [p \in Proc |-> "none"]
  /\ pc = [p \in Proc |-> "idle"]
  /\ robbed = FALSE
  /\ spent = [crashes |-> 0, pauses |-> 0]

Moves(p, to) == pc' = [pc EXCEPT ![p] = to]

Enter(p) ==
  /\ pc[p] = "idle"
  /\ Moves(p, "gate")
  /\ UNCHANGED <<lock, recovery, claimed, saw, robbed, spent>>

(* recoveryInProgress is asked before the lock is created and again after it was written:
   the point reached when there is none, and when there is one. *)
Clear(at) == IF at = "gate" THEN "open" ELSE "hold"
Busy(at) == IF at = "gate" THEN "gate" ELSE "withdraw"

(* ... and the points reached when its process is gone: before and after its file is renamed. *)
Claiming(at) == IF at = "gate" THEN "gateClaim" ELSE "recheckClaim"
Verifying(at) == IF at = "gate" THEN "gateVerify" ELSE "recheckVerify"

TakesFromTheLiving == recovery # NoFile /\ ~Dead(recovery.owner)

Look(p, at) ==
  /\ pc[p] = at
  /\ \/ recovery = NoFile /\ Moves(p, Clear(at)) /\ saw' = saw
     \/ recovery # NoFile /\ Protected(recovery) /\ at # Busy(at) /\ Moves(p, Busy(at)) /\ saw' = saw
     \/ recovery # NoFile /\ ~Protected(recovery)
          /\ Moves(p, Claiming(at)) /\ saw' = [saw EXCEPT ![p] = recovery.owner]
  /\ UNCHANGED <<lock, recovery, claimed, robbed, spent>>

LookClaims(p, at) ==
  /\ pc[p] = Claiming(at)
  /\ IF recovery = NoFile
     THEN Moves(p, Clear(at)) /\ UNCHANGED claimed
     ELSE Moves(p, Verifying(at)) /\ claimed' = [claimed EXCEPT ![p] = recovery]
  /\ robbed' = (robbed \/ TakesFromTheLiving)
  /\ recovery' = NoFile
  /\ UNCHANGED <<lock, saw, spent>>

(* The rename back replaces the recovery that another may have begun since. *)
LookVerifies(p, at) ==
  /\ pc[p] = Verifying(at)
  /\ IF claimed[p].owner = saw[p]
     THEN Moves(p, Clear(at)) /\ UNCHANGED <<recovery, robbed>>
     ELSE Moves(p, Busy(at)) /\ recovery' = claimed[p] /\ robbed' = (robbed \/ TakesFromTheLiving)
  /\ claimed' = [claimed EXCEPT ![p] = NoFile]
  /\ saw' = [saw EXCEPT ![p] = "none"]
  /\ UNCHANGED <<lock, spent>>

(* The deadline passes while a recovery or the lock of another is in the way. *)
GiveUp(p) ==
  /\ pc[p] = "gate"
  /\ recovery # NoFile \/ lock # NoFile
  /\ Moves(p, "idle")
  /\ UNCHANGED <<lock, recovery, claimed, saw, robbed, spent>>

Open(p) ==
  /\ pc[p] = "open"
  /\ IF lock = NoFile
     THEN lock' = Created(p) /\ Moves(p, "write")
     ELSE lock' = lock /\ Moves(p, "recover")
  /\ UNCHANGED <<recovery, claimed, saw, robbed, spent>>

(* The file is written where it is now, its path or the name it was claimed under. *)
Write(p) ==
  /\ pc[p] = "write"
  /\ lock' = Fill(lock, p)
  /\ claimed' = [q \in Proc |-> Fill(claimed[q], p)]
  /\ Moves(p, "recheck")
  /\ UNCHANGED <<recovery, saw, robbed, spent>>

(* removeOwnedLock: the nonce is read and the path removed afterwards. *)
Owns(f, p) == f.owner = p /\ f.written

Unlock(p) ==
  /\ pc[p] \in {"hold", "withdraw"}
  /\ Moves(p, IF pc[p] = "hold" THEN IF Owns(lock, p) THEN "holdRemove" ELSE "idle"
             ELSE IF Owns(lock, p) THEN "withdrawRemove" ELSE "gate")
  /\ UNCHANGED <<lock, recovery, claimed, saw, robbed, spent>>

RemoveLock(p) ==
  /\ pc[p] \in {"holdRemove", "withdrawRemove"}
  /\ lock' = NoFile
  /\ Moves(p, IF pc[p] = "holdRemove" THEN "idle" ELSE "gate")
  /\ UNCHANGED <<recovery, claimed, saw, robbed, spent>>

(* recoverStaleLock.  A lock that names no owner is judged by its age alone: its creator may have
   died, or be slow to write it. *)
BeginRecovery(p) ==
  /\ pc[p] = "recover"
  /\ IF recovery = NoFile
     THEN recovery' = Created(p) /\ Moves(p, "recoverWrite")
     ELSE recovery' = recovery /\ Moves(p, "gate")
  /\ UNCHANGED <<lock, claimed, saw, robbed, spent>>

WriteRecovery(p) ==
  /\ pc[p] = "recoverWrite"
  /\ recovery' = Fill(recovery, p)
  /\ claimed' = [q \in Proc |-> Fill(claimed[q], p)]
  /\ Moves(p, "inspect")
  /\ UNCHANGED <<lock, saw, robbed, spent>>

Stalled(f) == f.old /\ ~Dead(f.owner)

Inspect(p) ==
  /\ pc[p] = "inspect"
  /\ IF lock = NoFile \/ Protected(lock)
     THEN Moves(p, "unrecover") /\ UNCHANGED <<saw, robbed>>
     ELSE Moves(p, "claim") /\ saw' = [saw EXCEPT ![p] = lock.owner] /\ robbed' = (robbed \/ Stalled(lock))
  /\ UNCHANGED <<lock, recovery, claimed, spent>>

TakesAway(p) ==
  /\ pc[p] = "claim"
  /\ Moves(p, IF lock = NoFile THEN "unrecover" ELSE "verify")
  /\ claimed' = [claimed EXCEPT ![p] = lock]
  /\ lock' = NoFile
  /\ UNCHANGED <<recovery, saw, robbed, spent>>

IsTheOneInspected(p) == claimed[p].owner = saw[p]

Verify(p) ==
  /\ pc[p] = "verify"
  /\ lock' = IF IsTheOneInspected(p) THEN lock ELSE claimed[p]
  /\ claimed' = [claimed EXCEPT ![p] = NoFile]
  /\ saw' = [saw EXCEPT ![p] = "none"]
  /\ Moves(p, "unrecover")
  /\ UNCHANGED <<recovery, robbed, spent>>

EndRecovery(p) ==
  /\ pc[p] = "unrecover"
  /\ Moves(p, IF Owns(recovery, p) THEN "unrecoverRemove" ELSE "gate")
  /\ UNCHANGED <<lock, recovery, claimed, saw, robbed, spent>>

RemoveRecovery(p) ==
  /\ pc[p] = "unrecoverRemove"
  /\ recovery' = NoFile
  /\ Moves(p, "gate")
  /\ UNCHANGED <<lock, claimed, saw, robbed, spent>>

Dies(p) ==
  /\ ~Dead(p) /\ pc[p] # "idle"
  /\ spent.crashes < MaxCrashes
  /\ Moves(p, "dead")
  /\ spent' = [spent EXCEPT !.crashes = @ + 1]
  /\ UNCHANGED <<lock, recovery, claimed, saw, robbed>>

(* A file that names no owner reaches the stale age, whether its creator died or stalled. *)
Ages(f) == f # NoFile /\ ~f.written /\ ~f.old

Age ==
  /\ spent.pauses < MaxPauses
  /\ \/ Ages(lock) /\ lock' = [lock EXCEPT !.old = TRUE] /\ recovery' = recovery
     \/ Ages(recovery) /\ recovery' = [recovery EXCEPT !.old = TRUE] /\ lock' = lock
  /\ spent' = [spent EXCEPT !.pauses = @ + 1]
  /\ UNCHANGED <<claimed, saw, pc, robbed>>

FileLockNext ==
  \/ Age
  \/ \E p \in Proc :
       \/ Enter(p) \/ GiveUp(p) \/ Open(p) \/ Write(p) \/ Unlock(p) \/ RemoveLock(p)
       \/ \E at \in {"gate", "recheck"} : Look(p, at) \/ LookClaims(p, at) \/ LookVerifies(p, at)
       \/ BeginRecovery(p) \/ WriteRecovery(p) \/ Inspect(p) \/ TakesAway(p) \/ Verify(p)
       \/ EndRecovery(p) \/ RemoveRecovery(p) \/ Dies(p)

FileLockSpec == FileLockInit /\ [][FileLockNext]_fileLockVars

-----------------------------------------------------------------------------

Holds(p) == pc[p] \in {"hold", "holdRemove"}

(* One process at a time is inside, whoever died, as long as nobody judged abandoned a lock whose
   living creator had not written it for the stale age, took a recovery from a living process, or
   put back what it took over one begun since: a process robbed in these ways goes in beside the
   next.  (withCrossProcessFileLock, recoverStaleLock, recoveryInProgress) *)
OneHolder ==
  ~robbed => \A p, q \in Proc : Holds(p) /\ Holds(q) => p = q

==============================================================================
