------------------------- MODULE StagedTransferProofs -------------------------
(***************************************************************************)
(* For any processes, deaths and pauses: one process at a time is inside   *)
(* the cross-process file lock, as long as nobody judged abandoned a lock  *)
(* that its living creator was slow to write, and no recovery that was     *)
(* under way was taken from the process that had begun it.                 *)
(*                                                                         *)
(* For any stages, keys, calls and troubles: the bytes of a staged         *)
(* transfer, whose sections that lock keeps apart, are handed to the       *)
(* importer once, and what the store says of a registration is true.       *)
(***************************************************************************)
EXTENDS StagedTransfer, FileLock, TLAPS

Looking == {"gateClaim", "gateVerify", "recheckClaim", "recheckVerify"}

(* Where a process has created the lock file, or the ".recovery" file, and not left it. *)
Locking == {"write", "recheck", "recheckClaim", "recheckVerify", "hold", "holdRemove", "withdraw",
            "withdrawRemove"}
Recovering == {"recoverWrite", "inspect", "claim", "verify", "unrecover", "unrecoverRemove"}

LockPlaces == {"idle", "gate", "open", "recover", "dead"} \cup Looking \cup Locking \cup Recovering

File == {NoFile} \cup [owner : Proc, written : BOOLEAN, old : BOOLEAN]

FileLockTypes ==
  /\ lock \in File /\ recovery \in File
  /\ claimed \in [Proc -> File]
  /\ saw \in [Proc -> Proc \cup {"none"}]
  /\ pc \in [Proc -> LockPlaces]
  /\ robbed \in BOOLEAN

(* The lock file is that of the process that goes for it or is inside, and so is the ".recovery"
   file of the one that recovers: what makes a removal without a look harmless. *)
LockIsTheirs == \A p \in Proc : pc[p] \in Locking => lock.owner = p
RecoveryIsTheirs == \A p \in Proc : pc[p] \in Recovering => recovery.owner = p

(* Between its look at the lock and the rename, and until it has compared the two, a recovery deals
   with one and the same file of a process that died. *)
JudgedIsThere ==
  \A p \in Proc :
    /\ pc[p] = "claim" => saw[p] \in Proc /\ Dead(saw[p]) /\ lock.owner = saw[p]
    /\ pc[p] = "verify" => claimed[p].owner = saw[p]

(* A ".recovery" file that was taken away, and may be put back, is that of a process that died. *)
CarriedIsDead ==
  \A p \in Proc :
    pc[p] \in {"gateVerify", "recheckVerify"} => claimed[p].owner \in Proc /\ Dead(claimed[p].owner)

FilesKept == LockIsTheirs /\ RecoveryIsTheirs /\ JudgedIsThere /\ CarriedIsDead

FileLockInv == FileLockTypes /\ (robbed \/ FilesKept)

-----------------------------------------------------------------------------

(* A process goes to a place; the others stay where they are. *)
LEMMA MovesTo ==
  ASSUME NEW p \in Proc, NEW to \in LockPlaces, pc \in [Proc -> LockPlaces], Moves(p, to)
  PROVE  /\ pc' \in [Proc -> LockPlaces]
         /\ pc'[p] = to
         /\ \A q \in Proc : q # p => pc'[q] = pc[q]
BY DEF Moves

(* No member of Proc is the owner of a file that is not there. *)
LEMMA FileFacts ==
  ASSUME "none" \notin Proc
  PROVE  /\ NoFile \in File
         /\ \A p \in Proc : Created(p) \in File /\ Created(p).owner = p /\ ~Created(p).old
         /\ \A f \in File : \A p \in Proc : Fill(f, p) \in File /\ Fill(f, p).owner = f.owner
                                         /\ (Fill(f, p).old => f.old)
         /\ NoFile.owner \notin Proc /\ ~NoFile.old /\ ~NoFile.written
         /\ \A f \in File : f # NoFile => f.owner \in Proc /\ f.written \in BOOLEAN /\ f.old \in BOOLEAN
BY DEF File, NoFile, Created, Fill

LEMMA InitIsSound ==
  ASSUME "none" \notin Proc, FileLockInit
  PROVE  FileLockInv
<1>1. FileLockTypes
  BY DEF FileLockInit, FileLockTypes, File, LockPlaces
<1>2. FilesKept
  BY DEF FileLockInit, FilesKept, LockIsTheirs, RecoveryIsTheirs, JudgedIsThere, CarriedIsDead,
     Locking, Recovering, NoFile
<1> QED
  BY <1>1, <1>2 DEF FileLockInv

(* A process that stays out of both files, while they stay as they are. *)
LEMMA MovingIsSound ==
  ASSUME FileLockInv, NEW p \in Proc, NEW to \in LockPlaces, Moves(p, to), pc[p] # "dead",
         UNCHANGED <<lock, recovery, robbed>>,
         claimed' \in [Proc -> File], saw' \in [Proc -> Proc \cup {"none"}],
         \A q \in Proc : q # p => claimed'[q] = claimed[q] /\ saw'[q] = saw[q],
         to \in Locking => pc[p] \in Locking,
         to \in Recovering => pc[p] \in Recovering,
         to \notin {"claim", "verify", "gateVerify", "recheckVerify"}
  PROVE  FileLockInv'
<1>1. /\ pc' \in [Proc -> LockPlaces] /\ pc'[p] = to
      /\ \A q \in Proc : q # p => pc'[q] = pc[q]
  BY MovesTo DEF FileLockInv, FileLockTypes
<1>2. FileLockTypes'
  BY <1>1 DEF FileLockInv, FileLockTypes
<1>3. ASSUME FilesKept PROVE FilesKept'
  <2>1. \A q : Dead(q) /\ q \in Proc => Dead(q)'
    BY <1>1 DEF Dead
  <2>2. LockIsTheirs' /\ RecoveryIsTheirs'
    BY <1>1, <1>3 DEF FilesKept, LockIsTheirs, RecoveryIsTheirs
  <2>4. JudgedIsThere'
    BY <1>1, <1>3, <2>1 DEF FilesKept, JudgedIsThere
  <2>5. CarriedIsDead'
    BY <1>1, <1>3, <2>1 DEF FilesKept, CarriedIsDead
  <2> QED
    BY <2>2, <2>4, <2>5 DEF FilesKept
<1> QED
  BY <1>2, <1>3 DEF FileLockInv

(* The steps that only move a process, or remember whose file it has seen. *)
LEMMA QuietIsSound ==
  ASSUME "none" \notin Proc, FileLockInv, NEW p \in Proc,
         \/ Enter(p) \/ GiveUp(p) \/ Unlock(p) \/ EndRecovery(p)
         \/ \E at \in {"gate", "recheck"} : Look(p, at)
  PROVE  FileLockInv'
<1> USE DEF LockPlaces, Looking, Locking, Recovering
<1>0. /\ saw \in [Proc -> Proc \cup {"none"}] /\ claimed \in [Proc -> File]
      /\ pc \in [Proc -> LockPlaces] /\ recovery \in File
  BY DEF FileLockInv, FileLockTypes
<1>1. CASE Enter(p)
  BY <1>0, <1>1, MovingIsSound DEF Enter
<1>2. CASE GiveUp(p)
  BY <1>0, <1>2, MovingIsSound DEF GiveUp
<1>3. CASE Unlock(p)
  <2>1. PICK to \in {"holdRemove", "idle", "withdrawRemove", "gate"} :
          Moves(p, to) /\ pc[p] \in {"hold", "withdraw"}
    BY <1>3 DEF Unlock
  <2> QED
    BY <1>0, <1>3, <2>1, MovingIsSound DEF Unlock
<1>4. CASE EndRecovery(p)
  <2>1. PICK to \in {"unrecoverRemove", "gate"} : Moves(p, to)
    BY <1>4 DEF EndRecovery
  <2> QED
    BY <1>0, <1>4, <2>1, MovingIsSound DEF EndRecovery
<1>5. ASSUME NEW at \in {"gate", "recheck"}, Look(p, at) PROVE FileLockInv'
  <2>1. PICK to \in {"open", "hold", "gate", "withdraw", "gateClaim", "recheckClaim"} :
          /\ Moves(p, to)
          /\ to \in Locking => at = "recheck"
    BY <1>5 DEF Look, Clear, Busy, Claiming
  <2>2. saw' \in [Proc -> Proc \cup {"none"}] /\ \A q \in Proc : q # p => saw'[q] = saw[q]
    <3>1. CASE saw' = saw
      BY <1>0, <3>1
    <3>2. CASE recovery # NoFile /\ saw' = [saw EXCEPT ![p] = recovery.owner]
      <4>1. recovery.owner \in Proc
        BY <1>0, <3>2, FileFacts
      <4> QED
        BY <1>0, <3>2, <4>1
    <3> QED
      BY <1>5, <3>1, <3>2 DEF Look
  <2> QED
    BY <1>0, <1>5, <2>1, <2>2, MovingIsSound DEF Look
<1> QED
  BY <1>1, <1>2, <1>3, <1>4, <1>5

(* A ".recovery" file is taken away: robbed, unless its process died. *)
LEMMA LookClaimsIsSound ==
  ASSUME "none" \notin Proc, FileLockInv, NEW p \in Proc, NEW at \in {"gate", "recheck"}, LookClaims(p, at)
  PROVE  FileLockInv'
<1> USE DEF LockPlaces, Looking, Locking, Recovering
<1>0. /\ claimed \in [Proc -> File] /\ pc \in [Proc -> LockPlaces] /\ recovery \in File
      /\ saw \in [Proc -> Proc \cup {"none"}] /\ robbed \in BOOLEAN
  BY DEF FileLockInv, FileLockTypes
<1>1. PICK to \in {"open", "hold", "gateVerify", "recheckVerify"} :
        /\ Moves(p, to)
        /\ to \in Locking => pc[p] = "recheckClaim"
        /\ to \in {"gateVerify", "recheckVerify"} => recovery # NoFile /\ claimed' = [claimed EXCEPT ![p] = recovery]
        /\ to \notin {"gateVerify", "recheckVerify"} => recovery = NoFile /\ claimed' = claimed
  <2>1. CASE recovery = NoFile
    BY <2>1 DEF LookClaims, Clear, Claiming
  <2>2. CASE recovery # NoFile
    BY <2>2 DEF LookClaims, Verifying, Claiming
  <2> QED
    BY <2>1, <2>2
<1>2. /\ pc' \in [Proc -> LockPlaces] /\ pc'[p] = to
      /\ \A q \in Proc : q # p => pc'[q] = pc[q]
  BY <1>0, <1>1, MovesTo
<1>3. pc[p] \in {"gateClaim", "recheckClaim"} /\ recovery' = NoFile /\ lock' = lock /\ saw' = saw
      /\ robbed' = (robbed \/ TakesFromTheLiving)
  BY DEF LookClaims, Claiming
<1>4. FileLockTypes'
  <2>1. claimed' \in [Proc -> File]
    BY <1>0, <1>1
  <2>2. robbed' \in BOOLEAN
    BY <1>0, <1>3 DEF TakesFromTheLiving
  <2> QED
    BY <1>2, <1>3, <2>1, <2>2, FileFacts DEF FileLockInv, FileLockTypes
<1>5. ASSUME ~robbed' PROVE FilesKept'
  <2>1. FilesKept /\ (recovery = NoFile \/ Dead(recovery.owner))
    BY <1>3, <1>5 DEF FileLockInv, TakesFromTheLiving
  <2>2. \A q \in Proc : Dead(q) => Dead(q)'
    BY <1>2, <1>3 DEF Dead
  <2>3. LockIsTheirs'
    BY <1>1, <1>2, <1>3, <2>1 DEF FilesKept, LockIsTheirs
  <2>4. \A q \in Proc : pc[q] \notin Recovering
    BY <2>1, FileFacts DEF FilesKept, RecoveryIsTheirs, Dead
  <2>5. RecoveryIsTheirs' /\ JudgedIsThere'
    BY <1>2, <2>4 DEF RecoveryIsTheirs, JudgedIsThere
  <2>7. CarriedIsDead'
    <3>1. ASSUME NEW q \in Proc, pc'[q] \in {"gateVerify", "recheckVerify"}
          PROVE  \E d \in Proc : claimed'[q].owner = d /\ Dead(d)
      <4>1. CASE q = p
        <5>1. claimed'[q] = recovery /\ recovery # NoFile
          BY <1>0, <1>1, <1>2, <3>1, <4>1
        <5> QED
          BY <1>0, <2>1, <5>1, FileFacts
      <4>2. CASE q # p
        <5>1. claimed'[q] = claimed[q]
          BY <1>0, <1>1, <4>2
        <5> QED
          BY <1>2, <2>1, <3>1, <4>2, <5>1 DEF FilesKept, CarriedIsDead
      <4> QED
        BY <4>1, <4>2
    <3> QED
      BY <2>2, <3>1 DEF CarriedIsDead
  <2> QED
    BY <2>3, <2>5, <2>7 DEF FilesKept
<1> QED
  BY <1>4, <1>5 DEF FileLockInv

(* ... and put back, where it proves to be another than the one judged: over none that lives. *)
LEMMA LookVerifiesIsSound ==
  ASSUME "none" \notin Proc, FileLockInv, NEW p \in Proc, NEW at \in {"gate", "recheck"}, LookVerifies(p, at)
  PROVE  FileLockInv'
<1> USE DEF LockPlaces, Looking, Locking, Recovering
<1>0. /\ claimed \in [Proc -> File] /\ pc \in [Proc -> LockPlaces] /\ recovery \in File
      /\ saw \in [Proc -> Proc \cup {"none"}] /\ robbed \in BOOLEAN
  BY DEF FileLockInv, FileLockTypes
<1>1. PICK to \in {"open", "hold", "gate", "withdraw"} :
        /\ Moves(p, to)
        /\ to \in Locking => pc[p] = "recheckVerify"
        /\ \/ recovery' = recovery /\ robbed' = robbed
           \/ recovery' = claimed[p] /\ robbed' = (robbed \/ TakesFromTheLiving)
  BY DEF LookVerifies, Clear, Busy, Verifying
<1>2. /\ pc' \in [Proc -> LockPlaces] /\ pc'[p] = to
      /\ \A q \in Proc : q # p => pc'[q] = pc[q]
  BY <1>0, <1>1, MovesTo
<1>3. /\ pc[p] \in {"gateVerify", "recheckVerify"} /\ lock' = lock
      /\ claimed' = [claimed EXCEPT ![p] = NoFile] /\ saw' = [saw EXCEPT ![p] = "none"]
  BY DEF LookVerifies, Verifying
<1>4. FileLockTypes'
  <2>1. claimed' \in [Proc -> File]
    BY <1>0, <1>3, FileFacts
  <2>2. robbed' \in BOOLEAN
    BY <1>0, <1>1 DEF TakesFromTheLiving
  <2>3. recovery' \in File
    BY <1>0, <1>1
  <2>4. saw' \in [Proc -> Proc \cup {"none"}]
    BY <1>0, <1>3
  <2> QED
    BY <1>2, <1>3, <2>1, <2>2, <2>3, <2>4 DEF FileLockInv, FileLockTypes
<1>5. ASSUME ~robbed' PROVE FilesKept'
  <2>1. FilesKept
    BY <1>0, <1>1, <1>5 DEF FileLockInv, TakesFromTheLiving
  <2>2. \A q \in Proc : Dead(q) => Dead(q)'
    BY <1>2, <1>3 DEF Dead
  <2>3. LockIsTheirs'
    BY <1>1, <1>2, <1>3, <2>1 DEF FilesKept, LockIsTheirs
  <2>4. ASSUME recovery' = recovery PROVE RecoveryIsTheirs'
    BY <1>1, <1>2, <2>1, <2>4 DEF FilesKept, RecoveryIsTheirs
  <2>5. ASSUME recovery' = claimed[p], ~TakesFromTheLiving PROVE RecoveryIsTheirs'
    <3>0. recovery = NoFile \/ Dead(recovery.owner)
      BY <2>5 DEF TakesFromTheLiving
    <3>1. \A q \in Proc : pc[q] \notin Recovering
      BY <2>1, <3>0, FileFacts DEF FilesKept, RecoveryIsTheirs, Dead
    <3> QED
      BY <1>1, <1>2, <3>1 DEF RecoveryIsTheirs
  <2>6. JudgedIsThere'
    BY <1>0, <1>2, <1>3, <2>1, <2>2 DEF FilesKept, JudgedIsThere
  <2>7. CarriedIsDead'
    BY <1>0, <1>2, <1>3, <2>1, <2>2 DEF FilesKept, CarriedIsDead
  <2> QED
    BY <1>1, <1>5, <2>3, <2>4, <2>5, <2>6, <2>7 DEF FilesKept
<1> QED
  BY <1>4, <1>5 DEF FileLockInv

(* The lock file is created, filled, or removed by the process it names. *)
LEMMA LockingIsSound ==
  ASSUME "none" \notin Proc, FileLockInv, NEW p \in Proc, Open(p) \/ Write(p) \/ RemoveLock(p)
  PROVE  FileLockInv'
<1> USE DEF LockPlaces, Looking, Locking, Recovering
<1>0. /\ claimed \in [Proc -> File] /\ pc \in [Proc -> LockPlaces] /\ recovery \in File /\ lock \in File
      /\ saw \in [Proc -> Proc \cup {"none"}] /\ robbed \in BOOLEAN
      /\ UNCHANGED <<recovery, saw, robbed>>
      /\ claimed' \in [Proc -> File] /\ \A q \in Proc : claimed'[q].owner = claimed[q].owner
  <2>0. \A f \in File : Fill(f, p) \in File /\ Fill(f, p).owner = f.owner
    BY FileFacts
  <2>1. CASE Write(p)
    BY <2>0, <2>1 DEF FileLockInv, FileLockTypes, Write
  <2>2. CASE Open(p) \/ RemoveLock(p)
    BY <2>2 DEF FileLockInv, FileLockTypes, Open, RemoveLock
  <2> QED
    BY <2>1, <2>2
<1>1. \/ \E to \in {"idle", "gate"} : lock' = NoFile /\ Moves(p, to) /\ pc[p] \in {"holdRemove", "withdrawRemove"}
      \/ lock = NoFile /\ lock' = Created(p) /\ Moves(p, "write") /\ pc[p] = "open"
      \/ lock' = lock /\ Moves(p, "recover") /\ pc[p] = "open"
      \/ lock' = Fill(lock, p) /\ Moves(p, "recheck") /\ pc[p] = "write"
  BY DEF Open, Write, RemoveLock
<1>2. PICK to \in {"idle", "gate", "write", "recover", "recheck"} : Moves(p, to)
  BY <1>1
<1>3. /\ pc' \in [Proc -> LockPlaces] /\ pc'[p] = to
      /\ \A q \in Proc : q # p => pc'[q] = pc[q]
  BY <1>0, <1>2, MovesTo
<1>4. /\ lock' \in File
      /\ lock'.old => lock'.owner = lock.owner /\ lock.old
      /\ to \in {"write", "recheck"} => lock'.owner = p \/ (pc[p] = "write" /\ lock'.owner = lock.owner)
      /\ \/ lock'.owner = lock.owner
         \/ lock = NoFile
         \/ lock.owner = p \/ pc[p] \in {"holdRemove", "withdrawRemove"}
  <2>1. CASE lock' = Fill(lock, p) /\ Moves(p, "recheck") /\ pc[p] = "write"
    BY <1>0, <2>1, FileFacts
  <2>2. CASE lock' # Fill(lock, p) \/ pc[p] # "write"
    BY <1>0, <1>1, <1>3, <2>2, FileFacts DEF Moves
  <2> QED
    BY <1>1, <2>1, <2>2
<1>5. FileLockTypes'
  BY <1>0, <1>3, <1>4 DEF FileLockTypes
<1>6. ASSUME FilesKept PROVE FilesKept'
  <2>1. \A q \in Proc : Dead(q) => Dead(q)' /\ q # p
    BY <1>1, <1>3 DEF Dead
  <2>2. pc[p] \in {"holdRemove", "withdrawRemove", "write"} => lock.owner = p
    BY <1>6 DEF FilesKept, LockIsTheirs
  <2>3. LockIsTheirs'
    <3>1. NoFile.owner \notin Proc
      BY FileFacts
    <3>2. \A q \in Proc : pc[q] \in Locking => lock.owner = q
      BY <1>6 DEF FilesKept, LockIsTheirs
    <3>3. ASSUME NEW q \in Proc, q # p, pc[q] \in Locking
          PROVE  lock'.owner = q
      BY <1>4, <2>2, <3>1, <3>2, <3>3
    <3>4. to \in Locking => lock'.owner = p
      BY <1>2, <1>4, <2>2
    <3> QED
      BY <1>3, <3>3, <3>4 DEF LockIsTheirs
  <2>4. RecoveryIsTheirs'
    BY <1>0, <1>3, <1>6 DEF FilesKept, RecoveryIsTheirs
  <2>6. JudgedIsThere'
    <3>1. NoFile.owner \notin Proc
      BY FileFacts
    <3>2. ASSUME NEW q \in Proc, pc[q] = "claim"
          PROVE  /\ saw[q] \in Proc /\ Dead(saw[q]) /\ lock.owner = saw[q]
                 /\ lock'.owner = saw[q]
      <4>1. saw[q] \in Proc /\ Dead(saw[q]) /\ lock.owner = saw[q]
        BY <1>6, <3>2 DEF FilesKept, JudgedIsThere
      <4> QED
        BY <1>4, <2>1, <2>2, <3>1, <4>1
    <3>3. \A q \in Proc : pc'[q] \in {"claim", "verify"} => pc'[q] = pc[q]
      BY <1>3
    <3>4. \A q \in Proc : pc[q] = "verify" => claimed[q].owner = saw[q]
      BY <1>6 DEF FilesKept, JudgedIsThere
    <3> QED
      BY <1>0, <2>1, <3>2, <3>3, <3>4 DEF JudgedIsThere
  <2>7. CarriedIsDead'
    BY <1>0, <1>3, <1>6, <2>1 DEF FilesKept, CarriedIsDead
  <2> QED
    BY <2>3, <2>4, <2>6, <2>7 DEF FilesKept
<1> QED
  BY <1>0, <1>5, <1>6 DEF FileLockInv

(* The ".recovery" file is created, filled, or removed by the process it names. *)
LEMMA RecoveringIsSound ==
  ASSUME "none" \notin Proc, FileLockInv, NEW p \in Proc,
         BeginRecovery(p) \/ WriteRecovery(p) \/ RemoveRecovery(p)
  PROVE  FileLockInv'
<1> USE DEF LockPlaces, Looking, Locking, Recovering
<1>0. /\ claimed \in [Proc -> File] /\ pc \in [Proc -> LockPlaces] /\ recovery \in File /\ lock \in File
      /\ saw \in [Proc -> Proc \cup {"none"}] /\ robbed \in BOOLEAN
      /\ UNCHANGED <<lock, saw, robbed>>
      /\ claimed' \in [Proc -> File] /\ \A q \in Proc : claimed'[q].owner = claimed[q].owner
  <2>0. \A f \in File : Fill(f, p) \in File /\ Fill(f, p).owner = f.owner
    BY FileFacts
  <2>1. CASE WriteRecovery(p)
    BY <2>0, <2>1 DEF FileLockInv, FileLockTypes, WriteRecovery
  <2>2. CASE BeginRecovery(p) \/ RemoveRecovery(p)
    BY <2>2 DEF FileLockInv, FileLockTypes, BeginRecovery, RemoveRecovery
  <2> QED
    BY <2>1, <2>2
<1>1. \/ recovery' = NoFile /\ Moves(p, "gate") /\ pc[p] = "unrecoverRemove"
      \/ recovery = NoFile /\ recovery' = Created(p) /\ Moves(p, "recoverWrite") /\ pc[p] = "recover"
      \/ recovery' = recovery /\ Moves(p, "gate") /\ pc[p] = "recover"
      \/ recovery' = Fill(recovery, p) /\ Moves(p, "inspect") /\ pc[p] = "recoverWrite"
  BY DEF BeginRecovery, WriteRecovery, RemoveRecovery
<1>2. PICK to \in {"gate", "recoverWrite", "inspect"} : Moves(p, to)
  BY <1>1
<1>3. /\ pc' \in [Proc -> LockPlaces] /\ pc'[p] = to
      /\ \A q \in Proc : q # p => pc'[q] = pc[q]
  BY <1>0, <1>2, MovesTo
<1>4. /\ recovery' \in File
      /\ recovery'.old => recovery'.owner = recovery.owner /\ recovery.old
      /\ to \in Recovering => recovery'.owner = p \/ (pc[p] = "recoverWrite" /\ recovery'.owner = recovery.owner)
      /\ \/ recovery'.owner = recovery.owner
         \/ recovery = NoFile
         \/ pc[p] = "unrecoverRemove"
  <2>1. CASE recovery' = Fill(recovery, p) /\ Moves(p, "inspect") /\ pc[p] = "recoverWrite"
    BY <1>0, <2>1, FileFacts
  <2>2. CASE recovery' # Fill(recovery, p) \/ pc[p] # "recoverWrite"
    BY <1>0, <1>1, <1>3, <2>2, FileFacts DEF Moves
  <2> QED
    BY <1>1, <2>1, <2>2
<1>5. FileLockTypes'
  BY <1>0, <1>3, <1>4 DEF FileLockTypes
<1>6. ASSUME FilesKept PROVE FilesKept'
  <2>1. \A q \in Proc : Dead(q) => Dead(q)' /\ q # p
    BY <1>1, <1>3 DEF Dead
  <2>2. pc[p] \in {"unrecoverRemove", "recoverWrite"} => recovery.owner = p
    BY <1>6 DEF FilesKept, RecoveryIsTheirs
  <2>3. LockIsTheirs'
    BY <1>0, <1>3, <1>6 DEF FilesKept, LockIsTheirs
  <2>4. RecoveryIsTheirs'
    <3>1. NoFile.owner \notin Proc
      BY FileFacts
    <3>2. \A q \in Proc : pc[q] \in Recovering => recovery.owner = q
      BY <1>6 DEF FilesKept, RecoveryIsTheirs
    <3>3. ASSUME NEW q \in Proc, q # p, pc[q] \in Recovering
          PROVE  recovery'.owner = q
      BY <1>4, <2>2, <3>1, <3>2, <3>3
    <3>4. to \in Recovering => recovery'.owner = p
      BY <1>2, <1>4, <2>2
    <3> QED
      BY <1>3, <3>3, <3>4 DEF RecoveryIsTheirs
  <2>6. JudgedIsThere'
    BY <1>0, <1>3, <1>6, <2>1 DEF FilesKept, JudgedIsThere
  <2>7. CarriedIsDead'
    BY <1>0, <1>3, <1>6, <2>1 DEF FilesKept, CarriedIsDead
  <2> QED
    BY <2>3, <2>4, <2>6, <2>7 DEF FilesKept
<1> QED
  BY <1>0, <1>5, <1>6 DEF FileLockInv

(* The lock is judged abandoned, taken away, and deleted: robbed, if its creator lives. *)
LEMMA ClaimingIsSound ==
  ASSUME "none" \notin Proc, FileLockInv, NEW p \in Proc, Inspect(p) \/ TakesAway(p) \/ Verify(p)
  PROVE  FileLockInv'
<1> USE DEF LockPlaces, Looking, Locking, Recovering
<1>0. /\ claimed \in [Proc -> File] /\ pc \in [Proc -> LockPlaces] /\ recovery \in File /\ lock \in File
      /\ saw \in [Proc -> Proc \cup {"none"}] /\ robbed \in BOOLEAN
      /\ recovery' = recovery /\ pc[p] \in {"inspect", "claim", "verify"}
      /\ robbed' \in BOOLEAN /\ (robbed => robbed')
  BY DEF FileLockInv, FileLockTypes, Inspect, TakesAway, Verify, Stalled
<1>1. PICK to \in {"unrecover", "claim", "verify"} : Moves(p, to)
  BY DEF Inspect, TakesAway, Verify
<1>2. /\ pc' \in [Proc -> LockPlaces] /\ pc'[p] = to
      /\ \A q \in Proc : q # p => pc'[q] = pc[q]
  BY <1>0, <1>1, MovesTo
<1>3. /\ lock' \in File
      /\ claimed' \in [Proc -> File] /\ \A q \in Proc : q # p => claimed'[q] = claimed[q]
      /\ saw' \in [Proc -> Proc \cup {"none"}] /\ \A q \in Proc : q # p => saw'[q] = saw[q]
  <2>1. CASE Inspect(p)
    <3>1. CASE saw' = saw
      BY <1>0, <2>1, <3>1 DEF Inspect
    <3>2. CASE lock # NoFile /\ saw' = [saw EXCEPT ![p] = lock.owner]
      <4>1. lock.owner \in Proc
        BY <1>0, <3>2, FileFacts
      <4> QED
        BY <1>0, <2>1, <3>2, <4>1 DEF Inspect
    <3> QED
      BY <2>1, <3>1, <3>2 DEF Inspect
  <2>2. CASE TakesAway(p)
    <3>1. NoFile \in File
      BY FileFacts
    <3> QED
      BY <1>0, <2>2, <3>1 DEF TakesAway
  <2>3. CASE Verify(p)
    <3>1. NoFile \in File
      BY FileFacts
    <3>2. claimed' = [claimed EXCEPT ![p] = NoFile] /\ saw' = [saw EXCEPT ![p] = "none"]
      BY <2>3 DEF Verify
    <3>3. lock' \in File
      BY <1>0, <2>3 DEF Verify
    <3> QED
      BY <1>0, <3>1, <3>2, <3>3
  <2> QED
    BY <2>1, <2>2, <2>3
<1>4. FileLockTypes'
  BY <1>0, <1>2, <1>3 DEF FileLockTypes
<1>5. ASSUME FilesKept, ~robbed' PROVE FilesKept'
  <2>1. \A q \in Proc : Dead(q) => Dead(q)' /\ q # p
    BY <1>0, <1>2 DEF Dead
  <2>2. \A q \in Proc : pc[q] \in Recovering => q = p
    BY <1>0, <1>5 DEF FilesKept, RecoveryIsTheirs
  <2>3. RecoveryIsTheirs'
    BY <1>0, <1>2, <1>5 DEF FilesKept, RecoveryIsTheirs
  <2>4. CarriedIsDead'
    BY <1>2, <1>3, <1>5, <2>1 DEF FilesKept, CarriedIsDead
  <2>5. LockIsTheirs' /\ JudgedIsThere'
    <3>1. CASE Inspect(p)
      <4>1. lock' = lock /\ recovery' = recovery
        BY <3>1 DEF Inspect
      <4>2. LockIsTheirs'
        BY <1>2, <1>5, <3>1, <4>1 DEF FilesKept, LockIsTheirs, Inspect, Moves
      <4>4. to = "claim" => saw'[p] = lock.owner /\ lock.owner \in Proc /\ Dead(lock.owner)
        <5>1. CASE lock = NoFile \/ Protected(lock)
          BY <1>0, <1>2, <3>1, <5>1 DEF Inspect, Moves
        <5>2. CASE ~(lock = NoFile \/ Protected(lock))
          BY <1>0, <1>2, <1>5, <3>1, <5>2, FileFacts DEF Inspect, Protected, Stalled, Moves
        <5> QED
          BY <5>1, <5>2
      <4>5. to # "verify"
        BY <1>0, <1>2, <3>1 DEF Inspect, Moves
      <4>6. JudgedIsThere'
        BY <1>2, <2>1, <2>2, <4>1, <4>4, <4>5 DEF JudgedIsThere
      <4> QED
        BY <4>2, <4>6
    <3>2. CASE TakesAway(p)
      <4>1. /\ lock' = NoFile /\ claimed'[p] = lock /\ saw' = saw /\ recovery' = recovery
            /\ lock.owner = saw[p] /\ Dead(saw[p]) /\ saw[p] \in Proc
        BY <1>0, <1>5, <3>2 DEF TakesAway, FilesKept, JudgedIsThere
      <4>2. LockIsTheirs'
        BY <1>2, <1>5, <3>2, <4>1 DEF FilesKept, LockIsTheirs, TakesAway, Dead
      <4>4. to # "claim"
        BY <1>0, <1>2, <3>2 DEF TakesAway, Moves
      <4>5. JudgedIsThere'
        BY <1>2, <2>2, <4>1, <4>4 DEF JudgedIsThere
      <4> QED
        BY <4>2, <4>5
    <3>3. CASE Verify(p)
      <4>1. lock' = lock /\ recovery' = recovery
        BY <1>5, <3>3 DEF Verify, IsTheOneInspected, FilesKept, JudgedIsThere
      <4>2. to = "unrecover"
        BY <1>0, <1>2, <3>3 DEF Verify, Moves
      <4>3. LockIsTheirs'
        BY <1>2, <1>5, <4>1, <4>2 DEF FilesKept, LockIsTheirs
      <4>5. JudgedIsThere'
        BY <1>2, <2>2, <4>2 DEF JudgedIsThere
      <4> QED
        BY <4>3, <4>5
    <3> QED
      BY <3>1, <3>2, <3>3
  <2> QED
    BY <2>3, <2>4, <2>5 DEF FilesKept
<1> QED
  BY <1>0, <1>4, <1>5 DEF FileLockInv

LEMMA CrashIsSound ==
  ASSUME "none" \notin Proc, FileLockInv, NEW p \in Proc, Dies(p)
  PROVE  FileLockInv'
<1> USE DEF LockPlaces, Looking, Locking, Recovering
<1>0. /\ pc \in [Proc -> LockPlaces] /\ recovery \in File /\ lock \in File /\ Moves(p, "dead")
      /\ UNCHANGED <<lock, recovery, claimed, saw, robbed>>
  BY DEF FileLockInv, FileLockTypes, Dies
<1>1. /\ pc' \in [Proc -> LockPlaces] /\ pc'[p] = "dead"
      /\ \A q \in Proc : q # p => pc'[q] = pc[q]
  BY <1>0, MovesTo
<1>2. FileLockTypes'
  BY <1>0, <1>1 DEF FileLockInv, FileLockTypes
<1>3. ASSUME FilesKept PROVE FilesKept'
  <2>1. \A q \in Proc : Dead(q) => Dead(q)'
    BY <1>1 DEF Dead
  <2>2. LockIsTheirs' /\ RecoveryIsTheirs'
    BY <1>0, <1>1, <1>3 DEF FilesKept, LockIsTheirs, RecoveryIsTheirs
  <2>4. JudgedIsThere' /\ CarriedIsDead'
    BY <1>0, <1>1, <1>3, <2>1 DEF FilesKept, JudgedIsThere, CarriedIsDead
  <2> QED
    BY <2>2, <2>4 DEF FilesKept
<1> QED
  BY <1>0, <1>2, <1>3 DEF FileLockInv

LEMMA AgeIsSound ==
  ASSUME "none" \notin Proc, FileLockInv, Age
  PROVE  FileLockInv'
<1>0. UNCHANGED <<claimed, saw, pc, robbed>> /\ lock \in File /\ recovery \in File
  BY DEF Age, FileLockInv, FileLockTypes
<1>1. lock' \in File /\ lock'.owner = lock.owner /\ recovery' \in File /\ recovery'.owner = recovery.owner
  <2>1. CASE Ages(lock) /\ lock' = [lock EXCEPT !.old = TRUE] /\ recovery' = recovery
    BY <1>0, <2>1 DEF Ages, File
  <2>2. CASE Ages(recovery) /\ recovery' = [recovery EXCEPT !.old = TRUE] /\ lock' = lock
    BY <1>0, <2>2 DEF Ages, File
  <2> QED
    BY <2>1, <2>2 DEF Age
<1>2. FileLockTypes'
  BY <1>0, <1>1 DEF FileLockInv, FileLockTypes
<1>3. ASSUME FilesKept PROVE FilesKept'
  BY <1>0, <1>1, <1>3 DEF FilesKept, LockIsTheirs, RecoveryIsTheirs, JudgedIsThere, CarriedIsDead, Dead
<1> QED
  BY <1>0, <1>2, <1>3 DEF FileLockInv

LEMMA StepIsSound ==
  ASSUME "none" \notin Proc, FileLockInv, [FileLockNext]_fileLockVars
  PROVE  FileLockInv'
<1>1. CASE UNCHANGED fileLockVars
  BY <1>1 DEF fileLockVars, FileLockInv, FileLockTypes, FilesKept, LockIsTheirs, RecoveryIsTheirs,
     JudgedIsThere, CarriedIsDead, Dead
<1>2. CASE Age
  BY <1>2, AgeIsSound
<1>3. ASSUME NEW p \in Proc,
             \/ Enter(p) \/ GiveUp(p) \/ Open(p) \/ Write(p) \/ Unlock(p) \/ RemoveLock(p)
             \/ \E at \in {"gate", "recheck"} : Look(p, at) \/ LookClaims(p, at) \/ LookVerifies(p, at)
             \/ BeginRecovery(p) \/ WriteRecovery(p) \/ Inspect(p) \/ TakesAway(p) \/ Verify(p)
             \/ EndRecovery(p) \/ RemoveRecovery(p) \/ Dies(p)
      PROVE  FileLockInv'
  BY <1>3, QuietIsSound, LookClaimsIsSound, LookVerifiesIsSound, LockingIsSound, RecoveringIsSound,
     ClaimingIsSound, CrashIsSound
<1> QED
  BY <1>1, <1>2, <1>3 DEF FileLockNext

-----------------------------------------------------------------------------

(* The inductive invariant of the cross-process file lock, for any processes, deaths and pauses. *)
THEOREM FileLockIsInvariant ==
  ASSUME "none" \notin Proc
  PROVE  FileLockSpec => []FileLockInv
<1>1. FileLockInit => FileLockInv
  BY InitIsSound
<1>2. FileLockInv /\ [FileLockNext]_fileLockVars => FileLockInv'
  BY StepIsSound
<1> QED
  BY <1>1, <1>2, PTL DEF FileLockSpec

(* One process at a time is inside the lock, as long as nobody judged abandoned a lock that its living
   creator was slow to write, and no recovery under way was taken away or replaced:
   withCrossProcessFileLock excludes, whoever died and left its files behind. *)
THEOREM FileLockExcludes ==
  ASSUME "none" \notin Proc
  PROVE  FileLockSpec => []OneHolder
<1>1. FileLockInv => OneHolder
  BY DEF FileLockInv, FilesKept, LockIsTheirs, OneHolder, Holds, Locking
<1> QED
  BY <1>1, FileLockIsInvariant, PTL

-----------------------------------------------------------------------------
(* The staged transfer. *)

Word == {"unknown", "completed", "conflict"}
StageRecord ==
  [state : {"absent", "uploading", "ready", "rejected", "expired", "quarantined", "claimed",
            "unknown", "consumed", "cleaned"},
   due : BOOLEAN, received : BOOLEAN, object : BOOLEAN, confirmation : BOOLEAN,
   journal : Key \cup {None}, phase : {"none", "prepared", "claimed", "sealed"},
   key : Key \cup {None}, operation : {"none"} \cup Word]
CallRecord ==
  [at : {"idle", "lookup", "unknown", "completed", "resolve", "prepare", "claim", "handle", "import",
         "record", "reconcile", "settle", "recheck", "doubt", "flush", "append", "sent"},
   stage : Stage \cup {None}, key : Key \cup {None}, outcome : {"none"} \cup Word]

StagedTypes ==
  /\ stages \in [Stage -> StageRecord]
  /\ outbox \in [Stage -> {"none"} \cup Word]
  /\ child \in Stage \cup {None, "other"}
  /\ calls \in [Call -> CallRecord]
  /\ imports \in [Stage -> 0..1]
  /\ published \subseteq Stage

(* A call that registers, or that tells of an outcome, does so of a stage. *)
AboutStage(c) == calls[c].at \notin {"idle", "flush"} => calls[c].stage \in Stage

(* Whoever has claimed a stage is the only one, and hands it over once. *)
Claimed(c) == calls[c].at \in {"handle", "import"}
OneClaim == \A c, d \in Call : Claimed(c) /\ Claimed(d) /\ calls[c].stage = calls[d].stage => c = d
ClaimHolds(c) ==
  /\ At(c, "handle") => imports[calls[c].stage] = 0 /\ stages[calls[c].stage].operation # "none"
  /\ At(c, "import") => imports[calls[c].stage] = 1 /\ calls[c].stage \notin published

(* What is said of a stage, in the store or by a call that is about to record it. *)
IsTrue(s, word) ==
  /\ word = "completed" => s \in published
  /\ word = "conflict" => child \notin {s, None}
TellsTruth(c) == calls[c].at \in {"record", "settle"} => /\ calls[c].outcome \in Word
                                                         /\ IsTrue(calls[c].stage, calls[c].outcome)

StageHolds(s) ==
  /\ IsTrue(s, stages[s].operation)
  /\ imports[s] = 1 => stages[s].operation # "none"
  /\ s \in published => imports[s] = 1
  /\ child = s => s \in published

StagedInv ==
  /\ StagedTypes /\ OneClaim
  /\ \A c \in Call : AboutStage(c) /\ ClaimHolds(c) /\ TellsTruth(c)
  /\ \A s \in Stage : StageHolds(s)

-----------------------------------------------------------------------------
LEMMA OpenedKeeps ==
  ASSUME StagedTypes
  PROVE  /\ Opened \in [Stage -> StageRecord]
         /\ \A s \in Stage : Opened[s].operation = stages[s].operation
<1>1. ASSUME NEW s \in Stage
      PROVE  Recovered(s) \in StageRecord /\ Recovered(s).operation = stages[s].operation
  <2>1. stages[s] \in StageRecord
    BY DEF StagedTypes
  <2>2. /\ ~stages[s].due => Recovered(s) = stages[s]
        /\ stages[s].due =>
             \/ Recovered(s) = [stages[s] EXCEPT !.state = "expired", !.due = FALSE, !.confirmation = FALSE]
             \/ Recovered(s) = [stages[s] EXCEPT !.state = "cleaned", !.due = FALSE, !.received = FALSE,
                                                 !.object = FALSE]
             \/ Recovered(s) = [stages[s] EXCEPT !.due = FALSE]
    BY <2>1 DEF Recovered, StageRecord
  <2>3. ASSUME NEW x \in StageRecord
        PROVE  /\ [x EXCEPT !.due = FALSE] \in StageRecord
               /\ [x EXCEPT !.state = "expired"] \in StageRecord
               /\ [x EXCEPT !.state = "cleaned"] \in StageRecord
               /\ [x EXCEPT !.confirmation = FALSE] \in StageRecord
               /\ [x EXCEPT !.received = FALSE] \in StageRecord
               /\ [x EXCEPT !.object = FALSE] \in StageRecord
    <3>1. [x EXCEPT !.due = FALSE] \in StageRecord
      BY DEF StageRecord
    <3>2. [x EXCEPT !.state = "expired"] \in StageRecord /\ [x EXCEPT !.state = "cleaned"] \in StageRecord
      BY DEF StageRecord
    <3>3. [x EXCEPT !.confirmation = FALSE] \in StageRecord /\ [x EXCEPT !.received = FALSE] \in StageRecord
      BY DEF StageRecord
    <3>4. [x EXCEPT !.object = FALSE] \in StageRecord
      BY DEF StageRecord
    <3> QED
      BY <3>1, <3>2, <3>3, <3>4
  <2>4. /\ [stages[s] EXCEPT !.state = "expired", !.due = FALSE, !.confirmation = FALSE] \in StageRecord
        /\ [stages[s] EXCEPT !.state = "cleaned", !.due = FALSE, !.received = FALSE, !.object = FALSE]
             \in StageRecord
    <3> DEFINE a == [stages[s] EXCEPT !.state = "expired"]
               b == [a EXCEPT !.due = FALSE]
               d == [b EXCEPT !.confirmation = FALSE]
               e == [stages[s] EXCEPT !.state = "cleaned"]
               f == [e EXCEPT !.due = FALSE]
               g == [f EXCEPT !.received = FALSE]
               h == [g EXCEPT !.object = FALSE]
    <3>1. d \in StageRecord /\ h \in StageRecord
      <4>1. a \in StageRecord /\ e \in StageRecord
        BY <2>1, <2>3
      <4> HIDE DEF a, e
      <4>2. b \in StageRecord /\ f \in StageRecord
        BY <2>3, <4>1
      <4> HIDE DEF b, f
      <4>3. d \in StageRecord /\ g \in StageRecord
        BY <2>3, <4>2
      <4> HIDE DEF g
      <4> QED
        BY <2>3, <4>3
    <3> QED
      BY <3>1
  <2>5. Recovered(s) \in StageRecord
    BY <2>1, <2>2, <2>3, <2>4
  <2>6. Recovered(s).operation = stages[s].operation
    BY <2>1, <2>2 DEF StageRecord
  <2> QED
    BY <2>5, <2>6
<1> QED
  BY <1>1 DEF Opened

(* A step that leaves the child and what has been handed over, and says    *)
(* nothing new of a stage.                                                 *)
Unsaid == \A s \in Stage : stages'[s].operation = stages[s].operation

LEMMA QuietStage ==
  ASSUME StagedInv, UNCHANGED <<child, imports, published>>, Unsaid
  PROVE  \A s \in Stage : StageHolds(s)'
BY DEF StagedInv, Unsaid, StageHolds, IsTrue

LEMMA OtherCalls ==
  ASSUME StagedInv, NEW d \in Call, calls'[d] = calls[d],
         UNCHANGED <<child, imports, published>>,
         \A s \in Stage : stages[s].operation # "none" => stages'[s].operation # "none"
  PROVE  AboutStage(d)' /\ ClaimHolds(d)' /\ TellsTruth(d)'
<1>1. AboutStage(d) /\ ClaimHolds(d) /\ TellsTruth(d)
  BY DEF StagedInv
<1>2. AboutStage(d)'
  BY <1>1 DEF AboutStage
<1>3. ClaimHolds(d)'
  BY <1>1 DEF ClaimHolds, AboutStage, At
<1>4. TellsTruth(d)'
  BY <1>1 DEF TellsTruth, IsTrue
<1> QED
  BY <1>2, <1>3, <1>4

(* The document is written, no call goes on. *)
LEMMA DocumentStep ==
  ASSUME StagedInv, UNCHANGED <<child, calls, imports, published>>, outbox' = outbox,
         stages' \in [Stage -> StageRecord], Unsaid
  PROVE  StagedInv'
<1>1. \A s \in Stage : StageHolds(s)'
  BY QuietStage
<1>2. \A d \in Call : AboutStage(d)' /\ ClaimHolds(d)' /\ TellsTruth(d)'
  BY OtherCalls DEF Unsaid
<1>3. OneClaim'
  BY DEF StagedInv, OneClaim, Claimed
<1>4. StagedTypes'
  BY DEF StagedInv, StagedTypes
<1> QED
  BY <1>1, <1>2, <1>3, <1>4 DEF StagedInv

(* A call goes on. *)
Becomes(c, r) == r \in CallRecord /\ calls' = [calls EXCEPT ![c] = r]

LEMMA CallStep ==
  ASSUME StagedInv, NEW c \in Call, NEW r, Becomes(c, r),
         UNCHANGED <<child, imports, published>>,
         stages' \in [Stage -> StageRecord], outbox' \in [Stage -> {"none"} \cup Word], Unsaid,
         r.at \notin {"idle", "flush"} => r.stage \in Stage,
         r.at # "handle",
         r.at # "import",
         r.at \in {"record", "settle"} => r.outcome \in Word /\ IsTrue(r.stage, r.outcome)
  PROVE  StagedInv'
<1>1. \A s \in Stage : StageHolds(s)'
  BY QuietStage
<1>2. calls'[c] = r /\ \A d \in Call : d # c => calls'[d] = calls[d]
  BY DEF Becomes, StagedInv, StagedTypes
<1>3. ASSUME NEW d \in Call PROVE AboutStage(d)' /\ ClaimHolds(d)' /\ TellsTruth(d)'
  <2>1. CASE d = c
    BY <1>2, <2>1 DEF AboutStage, ClaimHolds, TellsTruth, IsTrue, At
  <2>2. CASE d # c
    BY <1>2, <2>2, OtherCalls DEF Unsaid
  <2> QED
    BY <2>1, <2>2
<1>4. OneClaim'
  BY <1>2 DEF StagedInv, OneClaim, Claimed
<1>5. StagedTypes'
  BY DEF StagedInv, StagedTypes, Becomes
<1> QED
  BY <1>1, <1>3, <1>4, <1>5 DEF StagedInv

(* The store is told a true word of a stage whose operation it knows. *)
LEMMA WordStep ==
  ASSUME StagedInv, NEW c \in Call, NEW r, Becomes(c, r), NEW s \in Stage, NEW word \in Word,
         UNCHANGED <<child, imports, published>>,
         stages' \in [Stage -> StageRecord], outbox' \in [Stage -> {"none"} \cup Word],
         stages'[s].operation = word, IsTrue(s, word),
         \A t \in Stage : t # s => stages'[t].operation = stages[t].operation,
         r.at \in {"idle", "flush"}
  PROVE  StagedInv'
<1>0. word # "none"
  BY DEF Word
<1>1. ASSUME NEW t \in Stage PROVE StageHolds(t)'
  <2>1. StageHolds(t)
    BY DEF StagedInv
  <2> QED
    BY <1>0, <2>1 DEF StageHolds, IsTrue
<1>2. calls'[c] = r /\ \A d \in Call : d # c => calls'[d] = calls[d]
  BY DEF Becomes, StagedInv, StagedTypes
<1>3. ASSUME NEW d \in Call PROVE AboutStage(d)' /\ ClaimHolds(d)' /\ TellsTruth(d)'
  <2>1. CASE d = c
    BY <1>2, <2>1 DEF AboutStage, ClaimHolds, TellsTruth, At
  <2>2. CASE d # c
    <3>1. \A t \in Stage : stages[t].operation # "none" => stages'[t].operation # "none"
      BY <1>0
    <3> QED
      BY <1>2, <2>2, <3>1, OtherCalls
  <2> QED
    BY <2>1, <2>2
<1>4. OneClaim'
  BY <1>2 DEF StagedInv, OneClaim, Claimed
<1>5. StagedTypes'
  BY DEF StagedInv, StagedTypes, Becomes
<1> QED
  BY <1>1, <1>3, <1>4, <1>5 DEF StagedInv

-----------------------------------------------------------------------------
(* The records a call becomes. *)
Places == {"lookup", "unknown", "completed", "resolve", "prepare", "claim", "handle", "import", "record",
           "reconcile", "settle", "recheck", "doubt", "flush", "append", "sent"}

LEMMA ReturnsTo ==
  ASSUME StagedTypes, NEW c \in Call, Returns(c)
  PROVE  Becomes(c, Idle) /\ Idle.at = "idle"
BY DEF Returns, Becomes, Idle, CallRecord

LEMMA GoesTo ==
  ASSUME StagedTypes, NEW c \in Call, NEW place \in Places, Goes(c, place)
  PROVE  \E r \in CallRecord : /\ Becomes(c, r) /\ r.at = place
                               /\ r.stage = calls[c].stage /\ r.outcome = calls[c].outcome
<1> DEFINE r == [calls[c] EXCEPT !.at = place]
<1>1. calls[c] \in CallRecord /\ calls \in [Call -> CallRecord]
  BY DEF StagedTypes
<1>2. r \in CallRecord /\ r.at = place /\ r.stage = calls[c].stage /\ r.outcome = calls[c].outcome
  BY <1>1 DEF CallRecord, Places
<1>3. calls' = [calls EXCEPT ![c] = r]
  BY <1>1 DEF Goes
<1> QED
  BY <1>2, <1>3 DEF Becomes

LEMMA TellsOutcome ==
  ASSUME StagedTypes, NEW c \in Call, NEW place \in {"record", "settle"}, NEW word \in Word,
         Outcome(c, place, word)
  PROVE  \E r \in CallRecord : /\ Becomes(c, r) /\ r.at = place
                               /\ r.stage = calls[c].stage /\ r.outcome = word
<1> DEFINE r == [calls[c] EXCEPT !.at = place, !.outcome = word]
<1>1. calls[c] \in CallRecord /\ calls \in [Call -> CallRecord]
  BY DEF StagedTypes
<1>2. r \in CallRecord /\ r.at = place /\ r.stage = calls[c].stage /\ r.outcome = word
  BY <1>1 DEF CallRecord
<1>3. calls' = [calls EXCEPT ![c] = r]
  BY <1>1 DEF Outcome
<1> QED
  BY <1>2, <1>3 DEF Becomes

-----------------------------------------------------------------------------
LEMMA DocumentKeeps ==
  ASSUME StagedInv, NEW s \in Stage,
         TimePasses(s) \/ Create(s) \/ Upload(s) \/ Finalize(s) \/ Confirmation(s)
  PROVE  StagedInv'
<1>0. /\ StagedTypes /\ stages \in [Stage -> StageRecord] /\ stages[s] \in StageRecord
      /\ Opened \in [Stage -> StageRecord] /\ Opened[s] \in StageRecord
      /\ \A t \in Stage : Opened[t].operation = stages[t].operation
  BY OpenedKeeps DEF StagedInv, StagedTypes
<1>1. UNCHANGED <<child, calls, imports, published, outbox>>
  BY DEF TimePasses, Create, Upload, Finalize, Confirmation, Calm
<1>2. \E r \in StageRecord :
        \/ stages' = [stages EXCEPT ![s] = r] /\ r.operation = stages[s].operation
        \/ stages' = [Opened EXCEPT ![s] = r] /\ r.operation = Opened[s].operation
  <2>1. ASSUME TimePasses(s) PROVE stages' = [stages EXCEPT ![s] = [stages[s] EXCEPT !.due = TRUE]]
    BY <1>0, <2>1 DEF TimePasses
  <2>2. ASSUME Create(s) PROVE stages' = [Opened EXCEPT ![s] = [Opened[s] EXCEPT !.state = "uploading"]]
    BY <1>0, <2>2 DEF Create
  <2>3. ASSUME Upload(s) PROVE stages' = [Opened EXCEPT ![s] = [Opened[s] EXCEPT !.received = TRUE]]
    BY <1>0, <2>3 DEF Upload
  <2>4. ASSUME Finalize(s)
        PROVE  \/ stages' = [Opened EXCEPT ![s] = [Opened[s] EXCEPT !.state = "ready", !.object = TRUE]]
               \/ stages' = [Opened EXCEPT ![s] = [Opened[s] EXCEPT !.state = "rejected"]]
    BY <1>0, <2>4 DEF Finalize
  <2>5. ASSUME Confirmation(s)
        PROVE  stages' = [Opened EXCEPT ![s] = [Opened[s] EXCEPT !.confirmation = TRUE]]
    BY <1>0, <2>5 DEF Confirmation
  <2>6. ASSUME NEW x \in StageRecord
        PROVE  /\ [x EXCEPT !.due = TRUE] \in StageRecord
               /\ [x EXCEPT !.due = TRUE].operation = x.operation
               /\ [x EXCEPT !.state = "uploading"] \in StageRecord
               /\ [x EXCEPT !.state = "uploading"].operation = x.operation
               /\ [x EXCEPT !.received = TRUE] \in StageRecord
               /\ [x EXCEPT !.received = TRUE].operation = x.operation
               /\ [x EXCEPT !.state = "ready", !.object = TRUE] \in StageRecord
               /\ [x EXCEPT !.state = "ready", !.object = TRUE].operation = x.operation
               /\ [x EXCEPT !.state = "rejected"] \in StageRecord
               /\ [x EXCEPT !.state = "rejected"].operation = x.operation
               /\ [x EXCEPT !.confirmation = TRUE] \in StageRecord
               /\ [x EXCEPT !.confirmation = TRUE].operation = x.operation
    BY DEF StageRecord
  <2>7. CASE TimePasses(s)
    BY <1>0, <2>1, <2>6, <2>7
  <2>8. CASE Create(s)
    BY <1>0, <2>2, <2>6, <2>8
  <2>9. CASE Upload(s)
    BY <1>0, <2>3, <2>6, <2>9
  <2>10. CASE Finalize(s)
    BY <1>0, <2>4, <2>6, <2>10
  <2>11. CASE Confirmation(s)
    BY <1>0, <2>5, <2>6, <2>11
  <2> QED
    BY <2>7, <2>8, <2>9, <2>10, <2>11
<1>3. stages' \in [Stage -> StageRecord] /\ Unsaid
  BY <1>0, <1>2 DEF Unsaid
<1> QED
  BY <1>1, <1>3, DocumentStep

(* A call that goes on without a word: it returns, or goes where nothing   *)
(* is claimed or told.                                                     *)
LEMMA PlainStep ==
  ASSUME StagedInv, NEW c \in Call, UNCHANGED <<child, imports, published>>,
         stages' \in [Stage -> StageRecord], outbox' \in [Stage -> {"none"} \cup Word], Unsaid,
         \/ Returns(c)
         \/ \E place \in Places \ {"handle", "import", "record", "settle"} :
              /\ Goes(c, place)
              /\ calls[c].at # "idle" \/ place = "flush"
              /\ calls[c].at # "flush" \/ place = "flush"
  PROVE  StagedInv'
<1>0. StagedTypes /\ AboutStage(c)
  BY DEF StagedInv
<1>1. CASE Returns(c)
  BY <1>0, <1>1, ReturnsTo, CallStep
<1>2. ASSUME NEW place \in Places \ {"handle", "import", "record", "settle"}, Goes(c, place),
             calls[c].at # "idle" \/ place = "flush", calls[c].at # "flush" \/ place = "flush"
      PROVE  StagedInv'
  <2>1. PICK r \in CallRecord : Becomes(c, r) /\ r.at = place /\ r.stage = calls[c].stage
    BY <1>0, <1>2, GoesTo
  <2>2. r.at \notin {"idle", "flush"} => r.stage \in Stage
    BY <1>0, <1>2, <2>1 DEF AboutStage
  <2> QED
    BY <1>2, <2>1, <2>2, CallStep
<1> QED
  BY <1>1, <1>2

LEMMA OpenedStep ==
  ASSUME StagedInv
  PROVE  /\ Kept => stages' \in [Stage -> StageRecord] /\ Unsaid
         /\ UNCHANGED stages => stages' \in [Stage -> StageRecord] /\ Unsaid
         /\ UNCHANGED outbox => outbox' \in [Stage -> {"none"} \cup Word]
<1>1. StagedTypes
  BY DEF StagedInv
<1>2. /\ Opened \in [Stage -> StageRecord]
      /\ \A s \in Stage : Opened[s].operation = stages[s].operation
  BY <1>1, OpenedKeeps
<1> QED
  BY <1>1, <1>2 DEF Kept, Unsaid, StagedTypes

LEMMA PlainKeeps ==
  ASSUME StagedInv, NEW c \in Call,
         \/ Lookup(c) \/ Resolve(c) \/ Prepare(c) \/ ReconcileInput(c) \/ Recheck(c) \/ Status(c)
         \/ AppendEvent(c) \/ Sent(c) \/ Unavailable(c) \/ Crash(c)
  PROVE  StagedInv'
<1>0. StagedTypes /\ Opened \in [Stage -> StageRecord]
      /\ \A s \in Stage : Opened[s].operation = stages[s].operation
  BY OpenedKeeps DEF StagedInv
<1>1. CASE Lookup(c)
  <2>1. UNCHANGED <<child, imports, published, outbox>> /\ Kept /\ calls[c].at = "lookup"
    BY <1>1 DEF Lookup, KeptOnly, Calm, At
  <2>2. Returns(c) \/ \E place \in {"unknown", "completed", "resolve"} : Goes(c, place)
    BY <1>1 DEF Lookup
  <2> QED
    BY <2>1, <2>2, OpenedStep, PlainStep DEF Places
<1>2. CASE Resolve(c)
  <2>1. UNCHANGED <<child, imports, published, outbox, stages>> /\ calls[c].at = "resolve"
    BY <1>2 DEF Resolve, At
  <2>2. Returns(c) \/ Goes(c, "prepare")
    BY <1>2 DEF Resolve
  <2> QED
    BY <2>1, <2>2, OpenedStep, PlainStep DEF Places
<1>3. CASE Prepare(c)
  <2>1. UNCHANGED <<child, imports, published, outbox>> /\ calls[c].at = "prepare"
    BY <1>3 DEF Prepare, Calm, At
  <2>2. Returns(c) \/ Goes(c, "claim")
    BY <1>3 DEF Prepare
  <2>3. stages' \in [Stage -> StageRecord] /\ Unsaid
    <3>1. CASE Kept
      BY <3>1, OpenedStep
    <3>2. CASE stages' = [Opened EXCEPT ![calls[c].stage].phase = "prepared",
                                        ![calls[c].stage].journal = calls[c].key]
      <4> DEFINE s == calls[c].stage
                 x == [Opened[s] EXCEPT !.phase = "prepared", !.journal = calls[c].key]
      <4>1. s \in Stage /\ Opened[s] \in StageRecord /\ calls[c].key \in Key \cup {None}
        BY <1>0, <2>1 DEF StagedInv, AboutStage, StagedTypes, CallRecord
      <4>2. x \in StageRecord /\ x.operation = Opened[s].operation
        BY <4>1 DEF StageRecord
      <4>3. stages' = [Opened EXCEPT ![s] = x]
        BY <1>0, <3>2, <4>1
      <4> HIDE DEF x
      <4> QED
        BY <1>0, <4>1, <4>2, <4>3 DEF Unsaid
    <3> QED
      BY <1>3, <3>1, <3>2 DEF Prepare, Kept
  <2> QED
    BY <2>1, <2>2, <2>3, OpenedStep, PlainStep DEF Places
<1>4. CASE ReconcileInput(c)
  <2>1. /\ UNCHANGED <<child, imports, published, outbox>> /\ Kept
        /\ calls[c].at \in {"unknown", "completed"}
    BY <1>4 DEF ReconcileInput, KeptOnly, Calm, At
  <2>2. Returns(c) \/ \E place \in {"reconcile", "recheck", "doubt"} : Goes(c, place)
    BY <1>4 DEF ReconcileInput
  <2> QED
    BY <2>1, <2>2, OpenedStep, PlainStep DEF Places
<1>5. CASE Recheck(c)
  <2>1. UNCHANGED <<child, imports, published, outbox, stages>> /\ calls[c].at = "recheck"
    BY <1>5 DEF Recheck, At
  <2>2. Returns(c) \/ Goes(c, "doubt")
    BY <1>5 DEF Recheck
  <2> QED
    BY <2>1, <2>2, OpenedStep, PlainStep DEF Places
<1>6. CASE Status(c)
  <2>1. UNCHANGED <<child, imports, published, outbox, stages>> /\ Goes(c, "flush")
    BY <1>6 DEF Status, Calm
  <2> QED
    BY <2>1, OpenedStep, PlainStep DEF Places
<1>7. CASE AppendEvent(c)
  <2>1. UNCHANGED <<child, imports, published, outbox, stages>> /\ calls[c].at = "append"
    BY <1>7 DEF AppendEvent, At
  <2>2. Returns(c) \/ Goes(c, "sent")
    BY <1>7 DEF AppendEvent
  <2> QED
    BY <2>1, <2>2, OpenedStep, PlainStep DEF Places
<1>8. CASE Sent(c)
  <2>1. UNCHANGED <<child, imports, published>> /\ Kept /\ Returns(c)
        /\ outbox' = [outbox EXCEPT ![calls[c].stage] = "none"]
    BY <1>8 DEF Sent, Calm
  <2>2. outbox' \in [Stage -> {"none"} \cup Word]
    BY <1>0, <2>1 DEF StagedTypes
  <2> QED
    BY <2>1, <2>2, OpenedStep, PlainStep
<1>9. CASE Unavailable(c) \/ Crash(c)
  <2>1. UNCHANGED <<child, imports, published, outbox, stages>> /\ Returns(c)
    BY <1>9 DEF Unavailable, Crash, Calm
  <2> QED
    BY <2>1, OpenedStep, PlainStep
<1> QED
  BY <1>1, <1>2, <1>3, <1>4, <1>5, <1>6, <1>7, <1>8, <1>9

LEMMA BeginKeeps ==
  ASSUME StagedInv, NEW c \in Call, NEW s \in Stage, NEW k \in Key, Begin(c, s, k)
  PROVE  StagedInv'
<1> DEFINE r == [Idle EXCEPT !.at = "lookup", !.stage = s, !.key = k]
<1>1. /\ UNCHANGED <<child, imports, published, outbox, stages>>
      /\ calls' = [calls EXCEPT ![c] = r]
  BY DEF Begin, Calm
<1>2. r \in CallRecord /\ r.at = "lookup" /\ r.stage = s
  BY DEF Idle, CallRecord
<1> HIDE DEF r
<1> QED
  BY <1>1, <1>2, OpenedStep, CallStep DEF Becomes

LEMMA FlushKeeps ==
  ASSUME StagedInv, NEW c \in Call, Flush(c)
  PROVE  StagedInv'
<1>1. UNCHANGED <<child, imports, published, outbox>> /\ Kept
  BY DEF Flush, KeptOnly, Calm
<1>2. CASE Returns(c)
  BY <1>1, <1>2, OpenedStep, PlainStep
<1>3. ASSUME NEW s \in Stage, outbox[s] # "none",
             calls' = [calls EXCEPT ![c] = [Idle EXCEPT !.at = "append", !.stage = s, !.outcome = outbox[s]]]
      PROVE  StagedInv'
  <2> DEFINE r == [Idle EXCEPT !.at = "append", !.stage = s, !.outcome = outbox[s]]
  <2>1. outbox[s] \in {"none"} \cup Word
    BY DEF StagedInv, StagedTypes
  <2>2. r \in CallRecord /\ r.at = "append" /\ r.stage = s
    BY <2>1 DEF Idle, CallRecord
  <2> HIDE DEF r
  <2>3. Becomes(c, r)
    BY <1>3, <2>2 DEF Becomes, r
  <2> QED
    BY <1>1, <2>2, <2>3, OpenedStep, CallStep
<1> QED
  BY <1>2, <1>3 DEF Flush

(* A reconciliation that finds the child tells what it found. *)
LEMMA ReconcileKeeps ==
  ASSUME StagedInv, StagedAssumption, NEW c \in Call, Reconcile(c)
  PROVE  StagedInv'
<1>1. /\ UNCHANGED <<child, imports, published, outbox, stages>> /\ calls[c].at = "reconcile"
      /\ StagedTypes /\ calls[c].stage \in Stage
  BY DEF Reconcile, At, StagedInv, AboutStage
<1>2. CASE Returns(c)
  BY <1>1, <1>2, OpenedStep, PlainStep
<1>3. CASE Found(calls[c].stage) # "unknown" /\ Outcome(c, "settle", Found(calls[c].stage))
  <2> DEFINE s == calls[c].stage
  <2>1. s # None
    BY <1>1 DEF StagedAssumption
  <2>2. \/ Found(s) = "completed" /\ child = s
        \/ Found(s) = "conflict" /\ child \notin {s, None}
    BY <1>3, <2>1 DEF Found
  <2>3. Found(s) \in Word /\ IsTrue(s, Found(s))
    BY <1>1, <2>2 DEF IsTrue, Word, StagedInv, StageHolds
  <2>4. PICK r \in CallRecord : Becomes(c, r) /\ r.at = "settle" /\ r.stage = s /\ r.outcome = Found(s)
    BY <1>1, <1>3, <2>3, TellsOutcome
  <2> QED
    BY <1>1, <2>3, <2>4, OpenedStep, CallStep
<1> QED
  BY <1>2, <1>3 DEF Reconcile

-----------------------------------------------------------------------------
(* What is recorded is true: the store keeps it as a true word. *)
LEMMA RecordedKeeps ==
  ASSUME StagedInv, NEW c \in Call, calls[c].at \in {"record", "settle"}, Recorded(c),
         UNCHANGED <<child, imports, published>>,
         Returns(c) \/ Goes(c, "flush")
  PROVE  StagedInv'
<1> DEFINE s == calls[c].stage
           word == calls[c].outcome
<1>1. /\ StagedTypes /\ s \in Stage /\ word \in Word /\ IsTrue(s, word)
      /\ Opened \in [Stage -> StageRecord] /\ Opened[s] \in StageRecord
      /\ \A t \in Stage : Opened[t].operation = stages[t].operation
      /\ outbox \in [Stage -> {"none"} \cup Word]
  BY OpenedKeeps DEF StagedInv, AboutStage, TellsTruth, StagedTypes
<1>2. CASE Kept /\ UNCHANGED outbox
  BY <1>1, <1>2, OpenedStep, PlainStep DEF Places
<1>3. CASE /\ stages' = [Opened EXCEPT ![s].operation = word, ![s].state = StateFor(word),
                           ![s].phase = IF word = "unknown" THEN "claimed" ELSE "sealed"]
           /\ outbox' = [outbox EXCEPT ![s] = IF @ = "none" THEN word ELSE @]
  <2> DEFINE x == [Opened[s] EXCEPT !.operation = word, !.state = StateFor(word),
                                    !.phase = IF word = "unknown" THEN "claimed" ELSE "sealed"]
  <2>1. StateFor(word) \in {"consumed", "quarantined", "unknown"}
    BY DEF StateFor
  <2>2. x.operation = word
    BY <1>1 DEF StageRecord
  <2>3. x \in StageRecord
    <3> DEFINE state == StateFor(word)
               phase == IF word = "unknown" THEN "claimed" ELSE "sealed"
    <3>1. /\ state \in {"consumed", "quarantined", "unknown"} /\ phase \in {"claimed", "sealed"}
          /\ word \in Word
          /\ x = [Opened[s] EXCEPT !.operation = word, !.state = state, !.phase = phase]
      BY <1>1, <2>1
    <3> HIDE DEF x, state, phase, word
    <3> QED
      BY <1>1, <3>1 DEF StageRecord
  <2>4. stages' = [Opened EXCEPT ![s] = x]
    BY <1>1, <1>3
  <2> HIDE DEF x
  <2>5. /\ stages' \in [Stage -> StageRecord] /\ stages'[s].operation = word
        /\ \A t \in Stage : t # s => stages'[t].operation = stages[t].operation
    BY <1>1, <2>2, <2>4, <2>3
  <2>6. outbox' \in [Stage -> {"none"} \cup Word]
    BY <1>1, <1>3
  <2>7. PICK r : Becomes(c, r) /\ r.at \in {"idle", "flush"}
    BY <1>1, ReturnsTo, GoesTo DEF Places
  <2> QED
    BY <1>1, <2>5, <2>6, <2>7, WordStep
<1> QED
  BY <1>2, <1>3 DEF Recorded, KeptOnly

LEMMA OutcomeKeeps ==
  ASSUME StagedInv, NEW c \in Call, RecordOutcome(c) \/ Settle(c) \/ Doubt(c)
  PROVE  StagedInv'
<1>1. CASE RecordOutcome(c) \/ Settle(c)
  BY <1>1, RecordedKeeps DEF RecordOutcome, Settle, At, Calm
<1>2. CASE Doubt(c)
  <2> DEFINE s == calls[c].stage
  <2>1. /\ StagedTypes /\ s \in Stage /\ Returns(c)
        /\ UNCHANGED <<child, imports, published, outbox>>
        /\ Opened \in [Stage -> StageRecord] /\ Opened[s] \in StageRecord
        /\ \A t \in Stage : Opened[t].operation = stages[t].operation
    BY <1>2, OpenedKeeps DEF Doubt, At, Calm, StagedInv, AboutStage
  <2>2. CASE Kept
    BY <2>1, <2>2, OpenedStep, PlainStep
  <2>3. CASE stages' = [Opened EXCEPT ![s] = [@ EXCEPT !.operation = "unknown", !.state = "unknown",
                                                       !.phase = "claimed"]]
    <3> DEFINE x == [Opened[s] EXCEPT !.operation = "unknown", !.state = "unknown", !.phase = "claimed"]
    <3>1. x \in StageRecord /\ x.operation = "unknown"
      BY <2>1 DEF StageRecord, Word
    <3>2. stages' = [Opened EXCEPT ![s] = x]
      BY <2>1, <2>3
    <3> HIDE DEF x
    <3>3. /\ stages' \in [Stage -> StageRecord] /\ stages'[s].operation = "unknown"
          /\ \A t \in Stage : t # s => stages'[t].operation = stages[t].operation
      BY <2>1, <3>1, <3>2
    <3>4. "unknown" \in Word /\ IsTrue(s, "unknown")
      BY DEF Word, IsTrue
    <3> QED
      BY <2>1, <3>3, <3>4, OpenedStep, ReturnsTo, WordStep
  <2> QED
    BY <1>2, <2>2, <2>3 DEF Doubt
<1> QED
  BY <1>1, <1>2

-----------------------------------------------------------------------------
(* The claim: nobody has claimed the stage before. *)
LEMMA ClaimKeeps ==
  ASSUME StagedInv, NEW c \in Call, Claim(c)
  PROVE  StagedInv'
<1> DEFINE s == calls[c].stage
<1>1. /\ StagedTypes /\ s \in Stage
      /\ UNCHANGED <<child, imports, published, outbox>>
      /\ Opened \in [Stage -> StageRecord] /\ Opened[s] \in StageRecord
      /\ \A t \in Stage : Opened[t].operation = stages[t].operation
      /\ calls[c].key \in Key \cup {None}
  BY OpenedKeeps DEF Claim, At, Calm, StagedInv, AboutStage, StagedTypes, CallRecord
<1>2. CASE Kept /\ Returns(c)
  BY <1>1, <1>2, OpenedStep, PlainStep
<1>3. CASE /\ Claimable(c) /\ Goes(c, "handle")
           /\ stages' = [Opened EXCEPT ![s] =
                [@ EXCEPT !.state = "claimed", !.confirmation = FALSE, !.phase = "claimed",
                          !.operation = "unknown", !.key = calls[c].key]]
  <2> DEFINE x == [Opened[s] EXCEPT !.state = "claimed", !.confirmation = FALSE, !.phase = "claimed",
                                    !.operation = "unknown", !.key = calls[c].key]
  <2>1. x \in StageRecord /\ x.operation = "unknown"
    BY <1>1 DEF StageRecord, Word
  <2>2. stages' = [Opened EXCEPT ![s] = x]
    BY <1>1, <1>3
  <2> HIDE DEF x
  <2>3. /\ stages' \in [Stage -> StageRecord] /\ stages'[s].operation = "unknown"
        /\ \A t \in Stage : t # s => stages'[t].operation = stages[t].operation
    BY <1>1, <2>1, <2>2
  <2>4. stages[s].operation = "none"
    BY <1>1, <1>3 DEF Claimable, Mine
  <2>5. imports[s] = 0 /\ s \notin published /\ child # s
    BY <1>1, <2>4 DEF StagedInv, StageHolds, StagedTypes
  <2>6. PICK r \in CallRecord : Becomes(c, r) /\ r.at = "handle" /\ r.stage = s
    BY <1>1, <1>3, GoesTo DEF Places
  <2>7. calls'[c] = r /\ \A d \in Call : d # c => calls'[d] = calls[d]
    BY <1>1, <2>6 DEF Becomes, StagedTypes
  <2>8. ASSUME NEW t \in Stage PROVE StageHolds(t)'
    BY <1>1, <2>3, <2>5 DEF StagedInv, StageHolds, IsTrue
  <2>9. ASSUME NEW d \in Call PROVE AboutStage(d)' /\ ClaimHolds(d)' /\ TellsTruth(d)'
    <3>1. CASE d = c
      BY <1>1, <2>3, <2>5, <2>6, <2>7, <3>1 DEF AboutStage, ClaimHolds, TellsTruth, At
    <3>2. CASE d # c
      <4>1. \A t \in Stage : stages[t].operation # "none" => stages'[t].operation # "none"
        BY <2>3
      <4> QED
        BY <1>1, <2>7, <3>2, <4>1, OtherCalls
    <3> QED
      BY <3>1, <3>2
  <2>10. \A d \in Call : Claimed(d) => calls[d].stage # s
    BY <2>4, <2>5 DEF StagedInv, ClaimHolds, Claimed, At
  <2>11. OneClaim'
    BY <2>6, <2>7, <2>10 DEF StagedInv, OneClaim, Claimed
  <2>12. StagedTypes'
    BY <1>1, <2>3, <2>6 DEF StagedTypes, Becomes
  <2> QED
    BY <2>8, <2>9, <2>11, <2>12 DEF StagedInv
<1> QED
  BY <1>2, <1>3 DEF Claim

(* The bytes are handed over: the call that has claimed them is counted. *)
LEMMA HandleKeeps ==
  ASSUME StagedInv, NEW c \in Call, Handle(c)
  PROVE  StagedInv'
<1> DEFINE s == calls[c].stage
<1>1. /\ StagedTypes /\ s \in Stage /\ calls[c].at = "handle" /\ Kept
      /\ UNCHANGED <<child, published, outbox>>
      /\ imports[s] = 0 /\ stages[s].operation # "none"
      /\ stages' \in [Stage -> StageRecord] /\ Unsaid
      /\ imports \in [Stage -> 0..1]
  BY OpenedStep DEF Handle, KeptOnly, At, StagedInv, AboutStage, ClaimHolds, StagedTypes
<1>2. CASE UNCHANGED imports /\ calls' = [calls EXCEPT ![c].at = "record", ![c].outcome = "unknown"]
  <2>1. "unknown" \in Word /\ IsTrue(s, "unknown")
    BY DEF Word, IsTrue
  <2>2. Outcome(c, "record", "unknown")
    BY <1>2 DEF Outcome
  <2>3. PICK r \in CallRecord : Becomes(c, r) /\ r.at = "record" /\ r.stage = s /\ r.outcome = "unknown"
    BY <1>1, <2>1, <2>2, TellsOutcome
  <2> QED
    BY <1>1, <1>2, <2>1, <2>3, OpenedStep, CallStep
<1>3. CASE Goes(c, "import") /\ imports' = [imports EXCEPT ![s] = @ + 1]
  <2>1. imports' = [imports EXCEPT ![s] = 1]
    BY <1>1, <1>3
  <2>2. PICK r \in CallRecord : Becomes(c, r) /\ r.at = "import" /\ r.stage = s
    BY <1>1, <1>3, GoesTo DEF Places
  <2>3. calls'[c] = r /\ \A d \in Call : d # c => calls'[d] = calls[d]
    BY <1>1, <2>2 DEF Becomes, StagedTypes
  <2>4. s \notin published
    BY <1>1 DEF StagedInv, StageHolds
  <2>5. ASSUME NEW t \in Stage PROVE StageHolds(t)'
    BY <1>1, <2>1 DEF StagedInv, StageHolds, IsTrue, Unsaid
  <2>6. ASSUME NEW d \in Call PROVE AboutStage(d)' /\ ClaimHolds(d)' /\ TellsTruth(d)'
    <3>1. CASE d = c
      BY <1>1, <2>1, <2>2, <2>3, <2>4, <3>1 DEF AboutStage, ClaimHolds, TellsTruth, At
    <3>2. CASE d # c
      <4>1. AboutStage(d) /\ ClaimHolds(d) /\ TellsTruth(d) /\ calls'[d] = calls[d]
        BY <2>3, <3>2 DEF StagedInv
      <4>2. Claimed(d) => calls[d].stage # s
        BY <1>1, <3>2 DEF StagedInv, OneClaim, Claimed
      <4>3. AboutStage(d)' /\ TellsTruth(d)'
        BY <1>1, <4>1 DEF AboutStage, TellsTruth, IsTrue
      <4>4. ClaimHolds(d)'
        BY <1>1, <2>1, <4>1, <4>2 DEF ClaimHolds, Claimed, At, AboutStage, Unsaid
      <4> QED
        BY <4>3, <4>4
    <3> QED
      BY <3>1, <3>2
  <2>7. OneClaim'
    BY <1>1, <2>2, <2>3 DEF StagedInv, OneClaim, Claimed
  <2>8. StagedTypes'
    BY <1>1, <2>1, <2>2 DEF StagedTypes, Becomes
  <2> QED
    BY <2>5, <2>6, <2>7, <2>8 DEF StagedInv
<1> QED
  BY <1>2, <1>3 DEF Handle

(* What the importer says is true, and it says conflict of no stage it     *)
(* has published.                                                          *)
LEMMA ImportKeeps ==
  ASSUME StagedInv, StagedAssumption, NEW c \in Call, Import(c)
  PROVE  StagedInv'
<1> DEFINE s == calls[c].stage
<1>1. /\ StagedTypes /\ s \in Stage /\ s # None /\ calls[c].at = "import"
      /\ UNCHANGED <<stages, outbox, imports>>
      /\ imports[s] = 1 /\ s \notin published /\ child # s
  BY DEF Import, At, StagedInv, AboutStage, ClaimHolds, StageHolds, StagedAssumption
<1>2. "unknown" \in Word /\ "completed" \in Word /\ "conflict" \in Word
      /\ \A t \in Stage : IsTrue(t, "unknown")
  BY DEF Word, IsTrue
<1>3. CASE UNCHANGED <<child, published>>
  <2>1. PICK word \in {"conflict", "unknown"} :
             Outcome(c, "record", word) /\ (word = "conflict" => child # None)
    BY <1>3, <1>1 DEF Import, StagedInv, StagedTypes
  <2>2. word \in Word /\ IsTrue(s, word)
    BY <1>1, <1>2, <2>1 DEF IsTrue
  <2>3. PICK r \in CallRecord : Becomes(c, r) /\ r.at = "record" /\ r.stage = s /\ r.outcome = word
    BY <1>1, <2>1, <2>2, TellsOutcome
  <2> QED
    BY <1>1, <1>3, <2>2, <2>3, OpenedStep, CallStep
<1>4. CASE child = None /\ child' = s /\ published' = published \cup {s}
  <2>1. PICK word \in {"completed", "unknown"} : Outcome(c, "record", word)
    BY <1>1, <1>4 DEF Import
  <2>2. PICK r \in CallRecord : Becomes(c, r) /\ r.at = "record" /\ r.stage = s /\ r.outcome = word
    BY <1>1, <1>2, <2>1, TellsOutcome
  <2>3. calls'[c] = r /\ \A d \in Call : d # c => calls'[d] = calls[d]
    BY <1>1, <2>2 DEF Becomes, StagedTypes
  <2>4. ASSUME NEW t \in Stage PROVE StageHolds(t)'
    BY <1>1, <1>4 DEF StagedInv, StageHolds, IsTrue
  <2>5. ASSUME NEW d \in Call PROVE AboutStage(d)' /\ ClaimHolds(d)' /\ TellsTruth(d)'
    <3>1. CASE d = c
      BY <1>1, <1>2, <1>4, <2>1, <2>2, <2>3, <3>1 DEF AboutStage, ClaimHolds, TellsTruth, IsTrue, At
    <3>2. CASE d # c
      <4>1. AboutStage(d) /\ ClaimHolds(d) /\ TellsTruth(d) /\ calls'[d] = calls[d]
        BY <2>3, <3>2 DEF StagedInv
      <4>2. Claimed(d) => calls[d].stage # s
        BY <1>1, <3>2 DEF StagedInv, OneClaim, Claimed
      <4>3. AboutStage(d)' /\ TellsTruth(d)'
        BY <1>4, <4>1 DEF AboutStage, TellsTruth, IsTrue
      <4>4. ClaimHolds(d)'
        BY <1>1, <1>4, <4>1, <4>2 DEF ClaimHolds, Claimed, At
      <4> QED
        BY <4>3, <4>4
    <3> QED
      BY <3>1, <3>2
  <2>6. OneClaim'
    BY <2>2, <2>3 DEF StagedInv, OneClaim, Claimed
  <2>7. StagedTypes'
    BY <1>1, <1>4, <2>2 DEF StagedTypes, Becomes
  <2> QED
    BY <2>4, <2>5, <2>6, <2>7 DEF StagedInv
<1> QED
  BY <1>3, <1>4 DEF Import

(* Damage takes the child away: no stage is in its place. *)
LEMMA DamageKeeps ==
  ASSUME StagedInv, StagedAssumption, Damage
  PROVE  StagedInv'
<1>1. UNCHANGED <<stages, outbox, calls, imports, published>> /\ child' = "other"
  BY DEF Damage
<1>2. "other" \notin Stage /\ "other" # None
  BY DEF StagedAssumption
<1>3. ASSUME NEW s \in Stage PROVE StageHolds(s)'
  BY <1>1, <1>2 DEF StagedInv, StageHolds, IsTrue
<1>4. ASSUME NEW d \in Call PROVE AboutStage(d)' /\ ClaimHolds(d)' /\ TellsTruth(d)'
  <2>1. AboutStage(d) /\ ClaimHolds(d) /\ TellsTruth(d)
    BY DEF StagedInv
  <2>2. calls[d].at \in {"record", "settle"} => calls[d].stage \in Stage
    BY <2>1 DEF AboutStage
  <2> QED
    BY <1>1, <1>2, <2>1, <2>2 DEF AboutStage, ClaimHolds, TellsTruth, IsTrue, At
<1>5. OneClaim'
  BY <1>1 DEF StagedInv, OneClaim, Claimed
<1>6. StagedTypes'
  BY <1>1 DEF StagedInv, StagedTypes
<1> QED
  BY <1>3, <1>4, <1>5, <1>6 DEF StagedInv

LEMMA InitStaged == StagedAssumption /\ StagedInit => StagedInv
<1> SUFFICES ASSUME StagedAssumption, StagedInit PROVE StagedInv
  OBVIOUS
<1>1. StagedTypes
  BY DEF StagedInit, StagedTypes, StageRecord, CallRecord, NoStage, Idle
<1>2. \A c \in Call : calls[c].at = "idle"
  BY DEF StagedInit, Idle
<1>3. \A s \in Stage : StageHolds(s)
  BY DEF StagedInit, StageHolds, IsTrue, NoStage, StagedAssumption
<1> QED
  BY <1>1, <1>2, <1>3 DEF StagedInv, OneClaim, Claimed, AboutStage, ClaimHolds, TellsTruth, At

LEMMA StagedStays == StagedInv /\ StagedAssumption /\ [StagedNext]_stagedVars => StagedInv'
<1> SUFFICES ASSUME StagedInv, StagedAssumption, [StagedNext]_stagedVars PROVE StagedInv'
  OBVIOUS
<1>1. CASE UNCHANGED stagedVars
  BY <1>1, OpenedStep, DocumentStep DEF stagedVars
<1>2. CASE \E s \in Stage : TimePasses(s) \/ Create(s) \/ Upload(s) \/ Finalize(s) \/ Confirmation(s)
  BY <1>2, DocumentKeeps
<1>3. CASE \E c \in Call, s \in Stage, k \in Key : Begin(c, s, k)
  BY <1>3, BeginKeeps
<1>4. CASE \E c \in Call : \/ Lookup(c) \/ Resolve(c) \/ Prepare(c) \/ ReconcileInput(c) \/ Recheck(c)
                           \/ Status(c) \/ AppendEvent(c) \/ Sent(c) \/ Unavailable(c) \/ Crash(c)
  BY <1>4, PlainKeeps
<1>5. CASE \E c \in Call : Claim(c) \/ Handle(c) \/ Import(c)
  BY <1>5, ClaimKeeps, HandleKeeps, ImportKeeps
<1>6. CASE \E c \in Call : RecordOutcome(c) \/ Settle(c) \/ Doubt(c)
  BY <1>6, OutcomeKeeps
<1>7. CASE \E c \in Call : Reconcile(c) \/ Flush(c)
  BY <1>7, ReconcileKeeps, FlushKeeps
<1>8. CASE Damage
  BY <1>8, DamageKeeps
<1> QED
  BY <1>1, <1>2, <1>3, <1>4, <1>5, <1>6, <1>7, <1>8 DEF StagedNext

(* However the calls of an archive race, are repeated or die, its bytes    *)
(* are handed to the importer at most once; a registration that the store  *)
(* calls complete was published, and one it calls a conflict is not the    *)
(* child.  (register, importClaimed, recordOutcome, reconcileUnknown)      *)
THEOREM StagesAreImportedOnce == StagedSpec => []ImportedOnce
<1>1. StagedInit => StagedInv
  BY StagedAssumption, InitStaged
<1>2. StagedInv /\ [StagedNext]_stagedVars => StagedInv'
  BY StagedAssumption, StagedStays
<1>3. StagedInv => ImportedOnce
  BY DEF StagedInv, StagedTypes, StageHolds, IsTrue, ImportedOnce
<1> QED
  BY <1>1, <1>2, <1>3, PTL DEF StagedSpec
====
