--------------------- MODULE StartupMaterializationProofs ---------------------
(***************************************************************************)
(* Safety of StartupMaterialization for every number of files, flags,      *)
(* entries, startups, retries, crashes and edits.                          *)
(*                                                                         *)
(* None of the four properties is inductive alone.  IInv adds what the     *)
(* code relies on without saying so: which statuses go with which point of *)
(* the startup (Phased), that the identifiers a write step carries belong  *)
(* to recorded entries (Prepared), that a sidecar exists only while its    *)
(* discard is pending (Guarded), that an identifier is forgotten before    *)
(* its entry is (Evidenced), and that an unverifiable setup command stays  *)
(* on record (Accounted).  Each conjunct is preserved by one lemma per     *)
(* group of actions; the theorems at the end follow from IInv.             *)
(***************************************************************************)
EXTENDS StartupMaterialization, SequenceTheorems, TLAPS

Working == {"open", "prepare", "write", "record", "untracked"}
Undoing == {"rollback", "restored", "reconcile", "discard", "discarded", "seal"}
Sealing == {"cleanup", "recover_cleanup"}

(* The journal says what the process is doing. *)
Phased ==
  /\ pc \in Working \cup Undoing \cup Sealing => journal.status = "active"
  /\ pc \in Working \cup Undoing => ~Committed
  /\ pc \in Sealing => Committed

(* The identifiers a write step carries belong to sidecar entries. *)
Prepared ==
  /\ step.fresh # NoId => pc = "prepare" /\ HasEntry(step.fresh)
  /\ step.recorded # NoId =>
       /\ pc = "record" /\ HasEntry(step.recorded)
       /\ sidecar[step.recorded.index].postimage \in Image
  /\ step.open # {} => pc \in {"prepare", "write", "record"}
  /\ \A id \in step.open : HasEntry(id)

(* The sidecar lives from its intent to its discard. *)
Guarded ==
  /\ sidecar # << >> => Discard \in journal.pending
  /\ ~Interrupted(journal) => sidecar = << >>
  /\ pc = "discarded" => sidecar = << >>

(* What is pending, and what a rollback is about to journal, has evidence. *)
Evidenced ==
  /\ PendingWorkHasEvidence
  /\ pass.done # {} => pc \in {"rollback", "restored"}
  /\ \A id \in pass.done : HasEntry(id)
  /\ pc = "discard" => Restores = {} /\ Reconciles = {}
  /\ pc \in Working \cup Sealing \/ Committed => Reconciles = {}

(* A setup command nobody can verify stays on record until a commit. *)
Accounted ==
  /\ untracked => Committed \/ Verifies # {}
  /\ pc = "untracked" => Verifies # {}
  /\ journal.status = "rolled_back" => ~untracked

IInv == TypeOK /\ Phased /\ Prepared /\ Guarded /\ Evidenced /\ Accounted
-----------------------------------------------------------------------------
(* The record-valued names of the pending compensations never coincide. *)
LEMMA CompensationNames ==
  /\ Discard \in MaterializationCompensation
  /\ \A id \in ActionId : /\ Restore(id) \in MaterializationCompensation
                          /\ Reconcile(id) \in MaterializationCompensation
                          /\ Restore(id) # Discard /\ Reconcile(id) # Discard
  /\ \A u \in Unit : /\ Verify(u) \in MaterializationCompensation
                     /\ Verify(u) # Discard
  /\ \A a, b \in ActionId : /\ Restore(a) # Reconcile(b)
                            /\ Restore(a) = Restore(b) => a = b
                            /\ Reconcile(a) = Reconcile(b) => a = b
  /\ \A a \in ActionId, u \in Unit : Verify(u) # Restore(a) /\ Verify(u) # Reconcile(a)
BY DEF MaterializationCompensation, Discard, Restore, Reconcile, Verify

(* advanceStartupTransaction changes exactly what its update names. *)
LEMMA AdvanceFields ==
  ASSUME NEW j \in Journal, NEW p \in Phase, NEW a, NEW b, NEW c
  PROVE  /\ Advance(j, p, Update(a, b, c)).status = j.status
         /\ Advance(j, p, Update(a, b, c)).phase = p
         /\ Advance(j, p, Update(a, b, c)).completed = j.completed \cup a
         /\ Advance(j, p, Update(a, b, c)).pending = (j.pending \ c) \cup b
BY DEF Advance, Update, ApplyUpdate, Journal

LEMMA AdvanceType ==
  ASSUME NEW j \in Journal, NEW p \in Phase,
         NEW a \in SUBSET MaterializationAction,
         NEW b \in SUBSET MaterializationCompensation, NEW c
  PROVE  Advance(j, p, Update(a, b, c)) \in Journal
BY DEF Advance, Update, ApplyUpdate, Journal

LEMMA RecordFields ==
  ASSUME journal \in Journal, NEW a, NEW b, NEW c, Record(Update(a, b, c))
  PROVE  /\ journal'.status = journal.status
         /\ journal'.phase = journal.phase
         /\ journal'.completed = journal.completed \cup a
         /\ journal'.pending = (journal.pending \ c) \cup b
<1>1. journal.phase \in Phase
  BY DEF Journal
<1>2. journal' = Advance(journal, journal.phase, Update(a, b, c))
  BY DEF Record
<1>. QED BY <1>1, <1>2, AdvanceFields

LEMMA RecordType ==
  ASSUME journal \in Journal,
         NEW a \in SUBSET MaterializationAction,
         NEW b \in SUBSET MaterializationCompensation, NEW c,
         Record(Update(a, b, c))
  PROVE  journal' \in Journal
<1>1. journal.phase \in Phase
  BY DEF Journal
<1>. QED BY <1>1, AdvanceType DEF Record

(* Each settled journal keeps its phase and completed actions. *)
LEMMA SettleFields ==
  ASSUME NEW j \in Journal, NEW s \in Status, NEW k \in FailureCode, NEW c
  PROVE  /\ Settle(j, s, Update({}, {}, c)) \in Journal
         /\ Settle(j, s, Update({}, {}, c)).status = s
         /\ Settle(j, s, Update({}, {}, c)).phase = j.phase
         /\ Settle(j, s, Update({}, {}, c)).completed = j.completed
         /\ Settle(j, s, Update({}, {}, c)).pending = j.pending \ c
         /\ SettleFailed(j, s, k) \in Journal
         /\ SettleFailed(j, s, k).status = s
         /\ SettleFailed(j, s, k).phase = j.phase
         /\ SettleFailed(j, s, k).completed = j.completed
         /\ SettleFailed(j, s, k).pending = j.pending
BY DEF Settle, SettleFailed, Update, ApplyUpdate, Journal

LEMMA SettleNames ==
  /\ {"committed", "rolled_back", "blocked"} \subseteq Status
  /\ {"none", "startup_failure", "materialization_commit_cleanup_failed"} \subseteq FailureCode
BY DEF Status, FailureCode

LEMMA ActivateFields ==
  ASSUME NEW j \in Journal, NEW action
  PROVE  /\ Activate(j, action) \in Journal
         /\ Activate(j, action).status = "active"
         /\ Activate(j, action).phase = j.phase
         /\ Activate(j, action).completed = j.completed
         /\ Activate(j, action).pending = j.pending
BY DEF Activate, Journal, Status, FailureCode

LEMMA NewJournalFields ==
  /\ NewJournal \in Journal
  /\ NoJournal \in Journal
  /\ NewJournal.status = "active" /\ NewJournal.pending = {} /\ NewJournal.completed = {}
  /\ NoJournal.status = "none" /\ NoJournal.pending = {} /\ NoJournal.completed = {}
BY DEF NewJournal, NoJournal, Journal, Status, Phase, PhaseRank, FailureCode
-----------------------------------------------------------------------------
LEMMA TypeInit == Init => TypeOK
<1>. SUFFICES ASSUME Init PROVE TypeOK
  OBVIOUS
<1>1. sidecar \in Seq(Entry) /\ Len(sidecar) <= MaxEntries
  BY ConstantsAssumption DEF Init
<1>2. journal \in Journal
  BY NewJournalFields DEF Init
<1>3. digests \in [ActionId -> Image \cup {"none"}] /\ claims \in SUBSET Unit
  BY DEF Init
<1>4. step \in [unit : Unit \cup {"none"}, todo : SUBSET File,
               fresh : ActionId \cup {NoId}, open : SUBSET ActionId,
               recorded : ActionId \cup {NoId}]
  BY DEF Init, NoStep
<1>5. pass \in [todo : SUBSET ActionId, done : SUBSET ActionId,
               dirty : SUBSET ActionId, persisted : Unit \cup {"none"},
               recovery : BOOLEAN]
  BY DEF Init, NoPass
<1>6. budget \in [transactions : Nat, crashes : Nat, retries : Nat, edits : Nat]
  BY ConstantsAssumption DEF Init
<1>. QED BY <1>1, <1>2, <1>3, <1>4, <1>5, <1>6 DEF Init, TypeOK, PC

LEMMA TypeBoot ==
  ASSUME TypeOK, Boot PROVE TypeOK'
<1>1. CASE BeginTransaction
  <2>1. journal' \in Journal
    BY <1>1, NewJournalFields DEF BeginTransaction
  <2>2. budget' \in [transactions : Nat, crashes : Nat, retries : Nat, edits : Nat]
    <3>1. /\ budget \in [transactions : Nat, crashes : Nat, retries : Nat, edits : Nat]
          /\ budget.transactions - 1 \in Nat /\ MaxRetries \in Nat
      BY <1>1, ConstantsAssumption DEF BeginTransaction, TypeOK
    <3>2. budget' = [budget EXCEPT !.transactions = @ - 1, !.retries = MaxRetries]
      BY <1>1 DEF BeginTransaction
    <3>. QED BY <3>1, <3>2
  <2>3. digests' \in [ActionId -> Image \cup {"none"}]
    BY <1>1 DEF BeginTransaction
  <2>. QED BY <1>1, <2>1, <2>2, <2>3 DEF BeginTransaction, TypeOK, PC
<1>2. CASE BootRollback
  BY <1>2, ActivateFields DEF BootRollback, StartPass, NoPass, Restores, TypeOK, PC, history
<1>3. CASE BootResume
  BY <1>3, ActivateFields DEF BootResume, TypeOK, PC
<1>4. CASE BootCommitCleanup
  BY <1>4, ActivateFields DEF BootCommitCleanup, TypeOK, PC, history
<1>. QED BY <1>1, <1>2, <1>3, <1>4 DEF Boot

LEMMA TypeWriteStep ==
  ASSUME TypeOK, Prepared, WriteStep PROVE TypeOK'
<1>1. ASSUME NEW u \in Unit, NEW outputs \in SUBSET File, BeginStep(u, outputs)
      PROVE  TypeOK'
  BY <1>1 DEF BeginStep, NoStep, TypeOK, PC, durable, history
<1>2. CASE IntendSidecar
  <2>1. journal' \in Journal
    BY <1>2, RecordType, CompensationNames DEF IntendSidecar, TypeOK, MaterializationAction
  <2>. QED BY <1>2, <2>1 DEF IntendSidecar, TypeOK, history
<1>3. ASSUME NEW f \in File, RecordPreimage(f) PROVE TypeOK'
  <2>1. /\ Len(sidecar) \in Nat /\ Len(sidecar) < MaxEntries
        /\ [file |-> f, preimage |-> disk[f], postimage |-> Unrecorded] \in Entry
    BY <1>3 DEF RecordPreimage, HasRoom, TypeOK, Entry
  <2>2. sidecar' \in Seq(Entry) /\ Len(sidecar') = Len(sidecar) + 1
    BY <1>3, <2>1 DEF RecordPreimage, TypeOK
  <2>3. [file |-> f, index |-> Len(sidecar) + 1] \in ActionId
    BY <2>1, ConstantsAssumption DEF ActionId
  <2>4. Len(sidecar') <= MaxEntries
    BY <2>1, <2>2, ConstantsAssumption
  <2>. QED BY <1>3, <2>2, <2>3, <2>4 DEF RecordPreimage, TypeOK, history
<1>4. CASE JournalPreimage
  <2>1. step.fresh \in ActionId
    BY <1>4 DEF JournalPreimage, TypeOK
  <2>2. journal' \in Journal
    BY <1>4, <2>1, RecordType, CompensationNames DEF JournalPreimage, TypeOK
  <2>. QED BY <1>4, <2>1, <2>2 DEF JournalPreimage, TypeOK, PC, history
<1>5. ASSUME NEW id \in ActionId, NEW image \in Image, WriteTarget(id, image)
      PROVE  TypeOK'
  BY <1>5 DEF WriteTarget, TypeOK, history
<1>6. CASE WriteReturns
  BY <1>6 DEF WriteReturns, TypeOK, PC, durable, history
<1>7. ASSUME NEW id \in ActionId, RecordPostimage(id) PROVE TypeOK'
  <2>1. /\ id.file \in File /\ id.index \in DOMAIN sidecar
        /\ disk[id.file] \in Image
    BY <1>7 DEF RecordPostimage, Prepared, HasEntry, TypeOK, ActionId
  <2>2. [sidecar[id.index] EXCEPT !.postimage = disk[id.file]] \in Entry
    <3>1. sidecar[id.index] \in Entry
      BY <2>1, ElementOfSeq DEF TypeOK
    <3>. QED BY <2>1, <3>1 DEF Entry
  <2>3. sidecar' \in Seq(Entry) /\ Len(sidecar') = Len(sidecar)
    <3>1. sidecar' = [sidecar EXCEPT ![id.index] =
                        [sidecar[id.index] EXCEPT !.postimage = disk[id.file]]]
      BY <1>7 DEF RecordPostimage
    <3>. QED BY <3>1, <2>1, <2>2, ExceptSeq DEF TypeOK
  <2>. QED BY <1>7, <2>1, <2>3 DEF RecordPostimage, TypeOK, history
<1>8. CASE JournalPostimage
  <2>1. journal' \in Journal
    BY <1>8, RecordType DEF JournalPostimage, TypeOK
  <2>2. sidecar[step.recorded.index].postimage \in Image
    BY <1>8 DEF JournalPostimage, Prepared
  <2>. QED BY <1>8, <2>1, <2>2 DEF JournalPostimage, TypeOK, PC, history
<1>9. CASE PersistClaim
  BY <1>9 DEF PersistClaim, NoStep, TypeOK
<1>10. ASSUME NEW u \in Unit, IntendUnverifiable(u) PROVE TypeOK'
  <2>1. journal' \in Journal
    BY <1>10, RecordType, CompensationNames DEF IntendUnverifiable, TypeOK
  <2>. QED BY <1>10, <2>1 DEF IntendUnverifiable, TypeOK, PC, history
<1>11. CASE RunUnverifiable
  BY <1>11 DEF RunUnverifiable, TypeOK, PC, durable
<1>. QED BY <1>1, <1>2, <1>3, <1>4, <1>5, <1>6, <1>7, <1>8, <1>9, <1>10, <1>11
         DEF WriteStep

LEMMA TypeRollback ==
  ASSUME TypeOK, Rollback PROVE TypeOK'
<1>1. ASSUME NEW id \in ActionId, RollbackEntry(id) PROVE TypeOK'
  <2>1. Intact(id) => sidecar[id.index].preimage \in Image
    <3>1. Intact(id) => sidecar[id.index] \in Entry
      BY DEF Intact, HasEntry, TypeOK
    <3>. QED BY <3>1 DEF Entry
  <2>2. disk' \in [File -> Image]
    BY <1>1, <2>1 DEF RollbackEntry, TypeOK
  <2>3. pass'.todo \in SUBSET ActionId /\ pass' = [pass EXCEPT
          !.todo = pass'.todo, !.done = pass'.done, !.dirty = pass'.dirty]
        /\ pass'.done \in SUBSET ActionId /\ pass'.dirty \in SUBSET ActionId
    BY <1>1 DEF RollbackEntry, TypeOK
  <2>4. pass' \in [todo : SUBSET ActionId, done : SUBSET ActionId, dirty : SUBSET ActionId,
                   persisted : Unit \cup {"none"}, recovery : BOOLEAN]
    BY <2>3 DEF TypeOK
  <2>. QED BY <1>1, <2>2, <2>4 DEF RollbackEntry, TypeOK, history
<1>2. ASSUME NEW id \in ActionId, JournalRestored(id) PROVE TypeOK'
  <2>1. journal' \in Journal
    BY <1>2, RecordType, CompensationNames DEF JournalRestored, TypeOK
  <2>. QED BY <1>2, <2>1 DEF JournalRestored, TypeOK, history
<1>3. CASE RollbackEnds \/ RestoredEnds \/ ReconcileEnds
  BY <1>3 DEF RollbackEnds, RestoredEnds, ReconcileEnds, TypeOK, PC, durable, history
<1>4. ASSUME NEW u \in Unit, ReconcileClaim(u) PROVE TypeOK'
  BY <1>4 DEF ReconcileClaim, TypeOK, history
<1>5. CASE JournalReconciled
  <2>1. journal' \in Journal
    BY <1>5, RecordType DEF JournalReconciled, TypeOK
  <2>. QED BY <1>5, <2>1 DEF JournalReconciled, TypeOK, history
<1>6. CASE DiscardSidecar
  BY <1>6, ConstantsAssumption DEF DiscardSidecar, TypeOK, PC, history
<1>7. CASE JournalDiscarded
  <2>1. journal' \in Journal
    BY <1>7, RecordType DEF JournalDiscarded, TypeOK
  <2>. QED BY <1>7, <2>1 DEF JournalDiscarded, TypeOK, PC, history
<1>8. CASE RetryAttempt
  BY <1>8 DEF RetryAttempt, NoPass, TypeOK, PC, durable, history
<1>9. CASE SealRolledBack
  <2>1. journal' \in Journal
    BY <1>9, SettleFields, SettleNames DEF SealRolledBack, TypeOK
  <2>. QED BY <1>9, <2>1 DEF SealRolledBack, NoPass, TypeOK, PC, history
<1>10. CASE SealBlocked
  <2>1. journal' \in Journal
    BY <1>10, SettleFields, SettleNames DEF SealBlocked, TypeOK
  <2>. QED BY <1>10, <2>1 DEF SealBlocked, NoPass, TypeOK, PC, history
<1>. QED BY <1>1, <1>2, <1>3, <1>4, <1>5, <1>6, <1>7, <1>8, <1>9, <1>10 DEF Rollback

LEMMA TypeCommit ==
  ASSUME TypeOK, Commit PROVE TypeOK'
<1>1. CASE CommitGeneration
  <2>1. journal' \in Journal
    BY <1>1, AdvanceType
       DEF CommitGeneration, TypeOK, MaterializationAction, Phase, PhaseRank
  <2>. QED BY <1>1, <2>1 DEF CommitGeneration, TypeOK, PC, history
<1>2. CASE IntendCleanup
  <2>1. journal' \in Journal
    BY <1>2, RecordType DEF IntendCleanup, TypeOK, MaterializationAction
  <2>. QED BY <1>2, <2>1 DEF IntendCleanup, TypeOK, history
<1>3. CASE CleanupSidecar
  BY <1>3, ConstantsAssumption DEF CleanupSidecar, TypeOK, history
<1>4. CASE JournalCleanup
  <2>1. journal' \in Journal
    BY <1>4, RecordType DEF JournalCleanup, TypeOK
  <2>. QED BY <1>4, <2>1 DEF JournalCleanup, TypeOK, history
<1>5. CASE SealCommitted
  <2>1. journal' \in Journal
    BY <1>5, SettleFields, SettleNames DEF SealCommitted, TypeOK
  <2>. QED BY <1>5, <2>1 DEF SealCommitted, TypeOK, PC, history
<1>6. CASE CleanupFails
  <2>1. journal' \in Journal
    BY <1>6, SettleFields, SettleNames DEF CleanupFails, TypeOK
  <2>. QED BY <1>6, <2>1 DEF CleanupFails, TypeOK, PC, history
<1>7. CASE Announce \/ Stop
  BY <1>7 DEF Announce, Stop, TypeOK, PC, durable, history
<1>. QED BY <1>1, <1>2, <1>3, <1>4, <1>5, <1>6, <1>7 DEF Commit

LEMMA TypeEnvironment ==
  ASSUME TypeOK, Fail \/ Environment PROVE TypeOK'
<1>1. CASE Fail
  <2>1. /\ step' = NoStep /\ pass' = StartPass(FALSE) /\ pc' = "rollback"
        /\ torn' \in BOOLEAN
        /\ UNCHANGED <<durable, budget, original, foreign, vouched, untracked, undoing>>
    BY <1>1 DEF Fail
  <2>2. step' \in [unit : Unit \cup {"none"}, todo : SUBSET File,
                   fresh : ActionId \cup {NoId}, open : SUBSET ActionId,
                   recorded : ActionId \cup {NoId}]
    BY <2>1 DEF NoStep
  <2>3. pass' \in [todo : SUBSET ActionId, done : SUBSET ActionId,
                   dirty : SUBSET ActionId, persisted : Unit \cup {"none"},
                   recovery : BOOLEAN]
    BY <2>1 DEF StartPass, NoPass, Restores
  <2>4. /\ disk' \in [File -> Image]
        /\ sidecar' \in Seq(Entry) /\ Len(sidecar') <= MaxEntries
        /\ journal' \in Journal
        /\ digests' \in [ActionId -> Image \cup {"none"}]
        /\ claims' \in SUBSET Unit
        /\ pc' \in PC
    BY <2>1 DEF TypeOK, PC, durable
  <2>5. /\ budget' \in [transactions : Nat, crashes : Nat, retries : Nat, edits : Nat]
        /\ original' \in [File -> Image] /\ vouched' \in [File -> Image]
        /\ foreign' \in SUBSET File
        /\ undoing' \in {"no", "begun", "resumed"}
    BY <2>1 DEF TypeOK
  <2>6. untracked' \in BOOLEAN
    BY <2>1, Zenon DEF TypeOK
  <2>. QED BY <2>1, <2>2, <2>3, <2>4, <2>5, <2>6 DEF TypeOK
<1>2. CASE Crash
  <2>1. /\ step' = NoStep /\ pass' = NoPass /\ pc' = "down"
        /\ torn' \in BOOLEAN
        /\ UNCHANGED <<durable, original, foreign, vouched, untracked, undoing>>
    BY <1>2 DEF Crash
  <2>2. budget' \in [transactions : Nat, crashes : Nat, retries : Nat, edits : Nat]
    <3>1. /\ budget \in [transactions : Nat, crashes : Nat, retries : Nat, edits : Nat]
          /\ budget.crashes \in Nat /\ budget.crashes > 0
      BY <1>2 DEF Crash, TypeOK
    <3>2. budget' = [budget EXCEPT !.crashes = @ - 1] /\ budget.crashes - 1 \in Nat
      BY <1>2, <3>1 DEF Crash
    <3>. QED BY <3>1, <3>2
  <2>. QED BY <2>1, <2>2 DEF NoPass, NoStep, TypeOK, PC, durable
<1>3. CASE CrashPersisting
  <2>1. budget' \in [transactions : Nat, crashes : Nat, retries : Nat, edits : Nat]
    BY <1>3 DEF CrashPersisting, TypeOK
  <2>. QED BY <1>3, <2>1 DEF CrashPersisting, NoPass, NoStep, TypeOK, PC, history
<1>4. ASSUME NEW f \in File, NEW image \in Image, Edit(f, image) PROVE TypeOK'
  <2>1. budget' \in [transactions : Nat, crashes : Nat, retries : Nat, edits : Nat]
    <3>1. /\ budget \in [transactions : Nat, crashes : Nat, retries : Nat, edits : Nat]
          /\ budget.edits \in Nat /\ budget.edits > 0
      BY <1>4 DEF Edit, TypeOK
    <3>2. budget' = [budget EXCEPT !.edits = @ - 1] /\ budget.edits - 1 \in Nat
      BY <1>4, <3>1 DEF Edit
    <3>. QED BY <3>1, <3>2
  <2>2. disk' \in [File -> Image] /\ foreign' \in SUBSET File
    BY <1>4 DEF Edit, TypeOK
  <2>. QED BY <1>4, <2>1, <2>2 DEF Edit, TypeOK
<1>. QED BY <1>1, <1>2, <1>3, <1>4 DEF Environment

LEMMA TypeNext ==
  ASSUME TypeOK, Prepared, [Next]_vars PROVE TypeOK'
<1>1. CASE UNCHANGED vars
  BY <1>1 DEF vars, durable, history, TypeOK
<1>. QED BY <1>1, TypeBoot, TypeWriteStep, TypeRollback, TypeCommit, TypeEnvironment DEF Next
-----------------------------------------------------------------------------
(* Only CommitGeneration makes a transaction committed. *)
LEMMA RecordKeepsCommitted ==
  ASSUME journal \in Journal, NEW a, NEW b, NEW c, "generation_committed" \notin a,
         Record(Update(a, b, c))
  PROVE  Committed' <=> Committed
BY RecordFields DEF Committed

LEMMA InspectionCommitted ==
  /\ Inspection \in {"rollback", "agree"} => ~Committed
  /\ Inspection = "commit_cleanup" => Committed
BY DEF Inspection, InspectUncommitted

LEMMA PhasedBoot ==
  ASSUME TypeOK, Phased, Boot PROVE Phased'
<1>1. CASE BeginTransaction
  BY <1>1, NewJournalFields
     DEF BeginTransaction, Phased, Committed, Working, Undoing, Sealing
<1>2. CASE BootRollback
  BY <1>2, ActivateFields, InspectionCommitted
     DEF BootRollback, Phased, Committed, Working, Undoing, Sealing, TypeOK
<1>3. CASE BootResume
  BY <1>3, ActivateFields, InspectionCommitted
     DEF BootResume, Phased, Committed, Working, Undoing, Sealing, TypeOK
<1>4. CASE BootCommitCleanup
  BY <1>4, ActivateFields, InspectionCommitted
     DEF BootCommitCleanup, Phased, Committed, Working, Undoing, Sealing, TypeOK
<1>. QED BY <1>1, <1>2, <1>3, <1>4 DEF Boot

LEMMA PhasedWriteStep ==
  ASSUME TypeOK, Phased, WriteStep PROVE Phased'
<1>0. pc \in Working /\ pc' \in Working
  BY DEF WriteStep, BeginStep, IntendSidecar, RecordPreimage, JournalPreimage,
         WriteTarget, WriteReturns, RecordPostimage, JournalPostimage, PersistClaim,
         IntendUnverifiable, RunUnverifiable, Working
<1>. DEFINE Kept == journal'.status = journal.status /\ (Committed' <=> Committed)
<1>1. Kept
  <2>1. ASSUME journal' = journal PROVE Kept
    BY <2>1 DEF Committed
  <2>2. CASE IntendSidecar
    BY <2>2, RecordFields, RecordKeepsCommitted DEF IntendSidecar, TypeOK
  <2>3. CASE JournalPreimage
    BY <2>3, RecordFields, RecordKeepsCommitted DEF JournalPreimage, TypeOK
  <2>4. CASE JournalPostimage
    BY <2>4, RecordFields, RecordKeepsCommitted DEF JournalPostimage, TypeOK
  <2>5. ASSUME NEW u \in Unit, IntendUnverifiable(u) PROVE Kept
    BY <2>5, RecordFields, RecordKeepsCommitted DEF IntendUnverifiable, TypeOK
  <2>. QED
    BY <2>1, <2>2, <2>3, <2>4, <2>5
       DEF WriteStep, BeginStep, RecordPreimage, WriteTarget, WriteReturns,
           RecordPostimage, PersistClaim, RunUnverifiable, durable
<1>. QED BY <1>0, <1>1 DEF Phased, Working, Undoing, Sealing

LEMMA PhasedRollback ==
  ASSUME TypeOK, Phased, Rollback PROVE Phased'
<1>1. CASE SealRolledBack \/ SealBlocked
  BY <1>1 DEF SealRolledBack, SealBlocked, Phased, Working, Undoing, Sealing
<1>2. CASE RetryAttempt
  BY <1>2 DEF RetryAttempt, durable, Phased, Committed, Working, Undoing, Sealing
<1>3. ASSUME ~(SealRolledBack \/ SealBlocked \/ RetryAttempt) PROVE Phased'
  <2>0. pc \in Undoing /\ pc' \in Undoing
    BY <1>3 DEF Rollback, RollbackEntry, JournalRestored, RollbackEnds, RestoredEnds,
                ReconcileClaim, JournalReconciled, ReconcileEnds, DiscardSidecar,
                JournalDiscarded, Undoing
  <2>. DEFINE Kept == journal'.status = journal.status /\ (Committed' <=> Committed)
  <2>1. Kept
    <3>1. ASSUME journal' = journal PROVE Kept
      BY <3>1 DEF Committed
    <3>2. ASSUME NEW id \in ActionId, JournalRestored(id) PROVE Kept
      BY <3>2, RecordFields, RecordKeepsCommitted DEF JournalRestored, TypeOK
    <3>3. CASE JournalReconciled
      BY <3>3, RecordFields, RecordKeepsCommitted DEF JournalReconciled, TypeOK
    <3>4. CASE JournalDiscarded
      BY <3>4, RecordFields, RecordKeepsCommitted DEF JournalDiscarded, TypeOK
    <3>. QED
      BY <1>3, <3>1, <3>2, <3>3, <3>4
         DEF Rollback, RollbackEntry, RollbackEnds, RestoredEnds, ReconcileClaim,
             ReconcileEnds, DiscardSidecar, durable
  <2>. QED BY <2>0, <2>1 DEF Phased, Working, Undoing, Sealing
<1>. QED BY <1>1, <1>2, <1>3

LEMMA PhasedCommit ==
  ASSUME TypeOK, Phased, Commit PROVE Phased'
<1>1. CASE CommitGeneration
  <2>1. journal \in Journal /\ "generation_committed" \in Phase
    BY DEF TypeOK, Phase, PhaseRank
  <2>2. /\ journal'.status = "active"
        /\ journal'.phase = "generation_committed"
        /\ journal'.completed = journal.completed \cup {"generation_committed"}
    BY <1>1, <2>1, AdvanceFields DEF CommitGeneration, CanAdvance
  <2>. QED BY <1>1, <2>2
           DEF CommitGeneration, Phased, Committed, Working, Undoing, Sealing
<1>2. CASE IntendCleanup
  BY <1>2, RecordFields, RecordKeepsCommitted
     DEF IntendCleanup, Phased, Working, Undoing, Sealing, TypeOK
<1>3. CASE JournalCleanup
  BY <1>3, RecordFields, RecordKeepsCommitted
     DEF JournalCleanup, Phased, Working, Undoing, Sealing, TypeOK
<1>4. CASE CleanupSidecar
  BY <1>4 DEF CleanupSidecar, Phased, Committed
<1>5. CASE SealCommitted \/ CleanupFails \/ Announce \/ Stop
  BY <1>5 DEF SealCommitted, CleanupFails, Announce, Stop, Phased, Working, Undoing, Sealing
<1>. QED BY <1>1, <1>2, <1>3, <1>4, <1>5 DEF Commit

LEMMA PhasedEnvironment ==
  ASSUME Phased, Fail \/ Environment PROVE Phased'
<1>1. CASE Fail
  BY <1>1 DEF Fail, durable, Phased, Committed, Working, Undoing, Sealing
<1>2. CASE Crash \/ CrashPersisting
  BY <1>2 DEF Crash, CrashPersisting, Phased, Working, Undoing, Sealing
<1>3. ASSUME NEW f \in File, NEW image \in Image, Edit(f, image) PROVE Phased'
  BY <1>3 DEF Edit, Phased, Committed
<1>. QED BY <1>1, <1>2, <1>3 DEF Environment

LEMMA PhasedNext ==
  ASSUME TypeOK, Phased, [Next]_vars PROVE Phased'
<1>1. CASE UNCHANGED vars
  BY <1>1 DEF vars, durable, Phased, Committed
<1>. QED
  BY <1>1, PhasedBoot, PhasedWriteStep, PhasedRollback, PhasedCommit, PhasedEnvironment
     DEF Next
-----------------------------------------------------------------------------
(* Preparing and completing entries keeps the entries that exist. *)
LEMMA EntriesSurvive ==
  ASSUME TypeOK, Prepared, NEW id \in ActionId, HasEntry(id),
         \/ sidecar' = sidecar
         \/ \E f \in File : RecordPreimage(f)
         \/ \E k \in ActionId : RecordPostimage(k)
  PROVE  HasEntry(id)'
<1>1. CASE sidecar' = sidecar
  BY <1>1 DEF HasEntry
<1>2. ASSUME NEW f \in File, RecordPreimage(f) PROVE HasEntry(id)'
  <2>1. id.index \in 1 .. Len(sidecar)
    BY DEF HasEntry, TypeOK
  <2>2. PICK e : sidecar' = Append(sidecar, e)
    BY <1>2 DEF RecordPreimage
  <2>3. /\ DOMAIN sidecar' = 1 .. Len(sidecar) + 1
        /\ sidecar'[id.index] = sidecar[id.index]
    BY <2>1, <2>2 DEF TypeOK
  <2>. QED BY <2>1, <2>3 DEF HasEntry, TypeOK
<1>3. ASSUME NEW k \in ActionId, RecordPostimage(k) PROVE HasEntry(id)'
  <2>1. sidecar' = [sidecar EXCEPT ![k.index] =
                      [sidecar[k.index] EXCEPT !.postimage = disk[k.file]]]
    BY <1>3 DEF RecordPostimage
  <2>2. id.index \in DOMAIN sidecar /\ k.index \in DOMAIN sidecar
    BY <1>3 DEF RecordPostimage, Prepared, HasEntry
  <2>3. sidecar[id.index] \in Entry /\ sidecar[k.index] \in Entry
    BY <2>2, ElementOfSeq DEF TypeOK
  <2>4. sidecar'[id.index].file = sidecar[id.index].file
    BY <2>1, <2>2, <2>3 DEF Entry
  <2>. QED BY <2>1, <2>4 DEF HasEntry
<1>. QED BY <1>1, <1>2, <1>3

LEMMA PreparedWriteStep ==
  ASSUME TypeOK, Prepared, WriteStep PROVE Prepared'
<1>1. ASSUME NEW u \in Unit, NEW outputs \in SUBSET File, BeginStep(u, outputs)
      PROVE  Prepared'
  BY <1>1 DEF BeginStep, NoStep, Prepared
<1>2. CASE IntendSidecar \/ RunUnverifiable
  BY <1>2 DEF IntendSidecar, RunUnverifiable, durable, Prepared, HasEntry
<1>3. ASSUME NEW f \in File, RecordPreimage(f) PROVE Prepared'
  <2>1. HasEntry(step.fresh)'
    <3>1. /\ sidecar'[Len(sidecar) + 1].file = f
          /\ Len(sidecar) + 1 \in DOMAIN sidecar'
      BY <1>3 DEF RecordPreimage, TypeOK
    <3>2. step'.fresh = [file |-> f, index |-> Len(sidecar) + 1]
      BY <1>3 DEF RecordPreimage, TypeOK
    <3>. QED BY <3>1, <3>2 DEF HasEntry
  <2>2. \A id \in step.open : HasEntry(id)'
    BY <1>3, EntriesSurvive DEF Prepared, TypeOK
  <2>3. /\ step'.open = step.open /\ step'.recorded = step.recorded
        /\ pc' = pc /\ pc = "prepare"
    BY <1>3 DEF RecordPreimage, TypeOK
  <2>. QED BY <2>1, <2>2, <2>3 DEF Prepared
<1>4. CASE JournalPreimage
  BY <1>4 DEF JournalPreimage, Prepared, HasEntry
<1>5. ASSUME NEW id \in ActionId, NEW image \in Image, WriteTarget(id, image)
      PROVE  Prepared'
  BY <1>5 DEF WriteTarget, Prepared, HasEntry
<1>6. CASE WriteReturns
  BY <1>6 DEF WriteReturns, durable, Prepared, HasEntry
<1>7. ASSUME NEW id \in ActionId, RecordPostimage(id) PROVE Prepared'
  <2>1. \A k \in step.open : HasEntry(k)'
    BY <1>7, EntriesSurvive DEF Prepared, TypeOK
  <2>2. sidecar[id.index] \in Entry /\ id.index \in DOMAIN sidecar
    <3>1. id.index \in DOMAIN sidecar
      BY <1>7 DEF RecordPostimage, Prepared, HasEntry
    <3>. QED BY <3>1, ElementOfSeq DEF TypeOK
  <2>3. sidecar'[id.index].postimage = disk[id.file] /\ disk[id.file] \in Image
    BY <1>7, <2>2 DEF RecordPostimage, TypeOK, Entry, ActionId
  <2>. QED BY <1>7, <2>1, <2>3 DEF RecordPostimage, Prepared
<1>8. CASE JournalPostimage
  BY <1>8 DEF JournalPostimage, Prepared, HasEntry
<1>9. CASE PersistClaim
  BY <1>9 DEF PersistClaim, NoStep, Prepared
<1>10. ASSUME NEW u \in Unit, IntendUnverifiable(u) PROVE Prepared'
  BY <1>10 DEF IntendUnverifiable, Prepared, HasEntry
<1>. QED BY <1>1, <1>2, <1>3, <1>4, <1>5, <1>6, <1>7, <1>8, <1>9, <1>10 DEF WriteStep

LEMMA PreparedNext ==
  ASSUME TypeOK, Prepared, [Next]_vars PROVE Prepared'
<1>1. CASE WriteStep
  BY <1>1, PreparedWriteStep
<1>2. CASE Fail \/ Crash \/ CrashPersisting
  <2>1. /\ step'.fresh = NoId /\ step'.recorded = NoId /\ step'.open = {}
    <3>1. step' = NoStep
      BY <1>2 DEF Fail, Crash, CrashPersisting
    <3>. QED BY <3>1 DEF NoStep
  <2>. QED BY <2>1 DEF Prepared
<1>3. CASE Boot \/ Rollback \/ Commit
  <2>1. step' = step /\ pc \notin {"prepare", "write", "record"}
    BY <1>3
       DEF Boot, BeginTransaction, BootRollback, BootResume, BootCommitCleanup, Rollback,
           RollbackEntry, JournalRestored, RollbackEnds, RestoredEnds, ReconcileClaim,
           JournalReconciled, ReconcileEnds, DiscardSidecar, JournalDiscarded,
           RetryAttempt, SealRolledBack, SealBlocked, Commit, CommitGeneration,
           IntendCleanup, CleanupSidecar, JournalCleanup, SealCommitted, CleanupFails,
           Announce, Stop
  <2>. QED BY <2>1 DEF Prepared
<1>4. ASSUME NEW f \in File, NEW image \in Image, Edit(f, image) PROVE Prepared'
  BY <1>4 DEF Edit, Prepared, HasEntry
<1>5. CASE UNCHANGED vars
  BY <1>5 DEF vars, durable, Prepared, HasEntry
<1>. QED BY <1>1, <1>2, <1>3, <1>4, <1>5 DEF Next, Environment
-----------------------------------------------------------------------------
LEMMA GuardedBoot ==
  ASSUME TypeOK, Guarded, Boot PROVE Guarded'
<1>1. CASE BeginTransaction
  BY <1>1 DEF BeginTransaction, Guarded
<1>2. CASE BootRollback \/ BootResume \/ BootCommitCleanup
  <2>1. /\ sidecar' = sidecar /\ pc' # "discarded"
        /\ journal'.status = "active" /\ journal'.pending = journal.pending
    <3>1. PICK action : journal' = Activate(journal, action)
      BY <1>2 DEF BootRollback, BootResume, BootCommitCleanup
    <3>2. journal'.status = "active" /\ journal'.pending = journal.pending
      BY <3>1, ActivateFields DEF TypeOK
    <3>. QED BY <1>2, <3>2 DEF BootRollback, BootResume, BootCommitCleanup
  <2>. QED BY <2>1 DEF Guarded, Interrupted
<1>. QED BY <1>1, <1>2 DEF Boot

LEMMA GuardedWriteStep ==
  ASSUME TypeOK, Phased, Guarded, WriteStep PROVE Guarded'
<1>1. Interrupted(journal) /\ pc' # "discarded"
  BY DEF Phased, Working, Interrupted, WriteStep, BeginStep, IntendSidecar,
         RecordPreimage, JournalPreimage, WriteTarget, WriteReturns, RecordPostimage,
         JournalPostimage, PersistClaim, IntendUnverifiable, RunUnverifiable
<1>2. ASSUME NEW f \in File, RecordPreimage(f) PROVE Guarded'
  BY <1>1, <1>2 DEF RecordPreimage, Guarded
<1>3. ASSUME NEW id \in ActionId, RecordPostimage(id) PROVE Guarded'
  <2>1. sidecar' # << >> => sidecar # << >>
    BY <1>3 DEF RecordPostimage, TypeOK
  <2>. QED BY <1>1, <1>3, <2>1 DEF RecordPostimage, Guarded
<1>4. ASSUME sidecar' = sidecar, journal' = journal PROVE Guarded'
  BY <1>1, <1>4 DEF Guarded
<1>5. ASSUME sidecar' = sidecar, NEW a, NEW b, Record(Update(a, b, {})) PROVE Guarded'
  <2>1. journal'.status = journal.status /\ journal.pending \subseteq journal'.pending
    BY <1>5, RecordFields DEF TypeOK
  <2>. QED BY <1>1, <1>5, <2>1 DEF Guarded, Interrupted
<1>. QED
  BY <1>2, <1>3, <1>4, <1>5
     DEF WriteStep, BeginStep, IntendSidecar, JournalPreimage, WriteTarget, WriteReturns,
         JournalPostimage, PersistClaim, IntendUnverifiable, RunUnverifiable, durable

LEMMA GuardedRollback ==
  ASSUME TypeOK, Phased, Guarded, Rollback PROVE Guarded'
<1>1. Interrupted(journal)
  BY DEF Phased, Undoing, Interrupted, Rollback, RollbackEntry, JournalRestored,
         RollbackEnds, RestoredEnds, ReconcileClaim, JournalReconciled, ReconcileEnds,
         DiscardSidecar, JournalDiscarded, RetryAttempt, SealRolledBack, SealBlocked
<1>2. ASSUME NEW id \in ActionId, JournalRestored(id) PROVE Guarded'
  <2>1. /\ journal'.status = journal.status
        /\ journal.pending \ {Restore(id)} \subseteq journal'.pending
    BY <1>2, RecordFields DEF JournalRestored, TypeOK
  <2>. QED BY <1>1, <1>2, <2>1, CompensationNames DEF JournalRestored, Guarded, Interrupted
<1>3. CASE JournalReconciled
  <2>1. /\ journal'.status = journal.status
        /\ journal.pending \ {Reconcile(id) : id \in ReconcileUnit(pass.persisted)}
              \subseteq journal'.pending
    BY <1>3, RecordFields DEF JournalReconciled, TypeOK
  <2>2. Discard \notin {Reconcile(id) : id \in ReconcileUnit(pass.persisted)}
    BY CompensationNames DEF ReconcileUnit, Reconciles
  <2>. QED BY <1>1, <1>3, <2>1, <2>2 DEF JournalReconciled, Guarded, Interrupted
<1>4. CASE DiscardSidecar
  BY <1>1, <1>4 DEF DiscardSidecar, Guarded
<1>5. CASE JournalDiscarded
  BY <1>5 DEF JournalDiscarded, Guarded
<1>6. CASE SealRolledBack
  <2>1. journal.pending = {}
    BY <1>6 DEF SealRolledBack, CanSettle, ApplyUpdate, Update, TypeOK, Journal
  <2>. QED BY <1>6, <2>1 DEF SealRolledBack, Guarded
<1>7. CASE SealBlocked
  <2>1. journal'.status = "blocked" /\ journal'.pending = journal.pending
    <3>1. journal \in Journal /\ journal' = SettleFailed(journal, "blocked", "startup_failure")
      BY <1>7 DEF SealBlocked, TypeOK
    <3>. QED BY <3>1, SettleFields, SettleNames
  <2>. QED BY <1>7, <2>1 DEF SealBlocked, Guarded, Interrupted
<1>8. ASSUME sidecar' = sidecar, journal' = journal, pc' # "discarded" PROVE Guarded'
  BY <1>8 DEF Guarded
<1>. QED
  BY <1>2, <1>3, <1>4, <1>5, <1>6, <1>7, <1>8
     DEF Rollback, RollbackEntry, RollbackEnds, RestoredEnds, ReconcileClaim,
         ReconcileEnds, RetryAttempt, durable

LEMMA UndoableNames == Discard \notin Undoable
BY CompensationNames DEF Undoable, Restores, Verifies

LEMMA GuardedCommit ==
  ASSUME TypeOK, Phased, Guarded, Commit PROVE Guarded'
<1>1. CASE CommitGeneration
  <2>1. /\ journal'.status = journal.status
        /\ journal.pending \subseteq journal'.pending
    <3>1. journal \in Journal /\ "generation_committed" \in Phase
      BY DEF TypeOK, Phase, PhaseRank
    <3>. QED BY <1>1, <3>1, AdvanceFields DEF CommitGeneration
  <2>. QED BY <1>1, <2>1 DEF CommitGeneration, Guarded, Interrupted
<1>2. CASE IntendCleanup
  <2>1. /\ journal'.status = journal.status
        /\ journal.pending \ Undoable \subseteq journal'.pending
    BY <1>2, RecordFields DEF IntendCleanup, TypeOK
  <2>. QED BY <1>2, <2>1, UndoableNames DEF IntendCleanup, Guarded, Interrupted
<1>3. CASE CleanupSidecar
  BY <1>3 DEF CleanupSidecar, Guarded
<1>4. CASE JournalCleanup
  BY <1>4 DEF JournalCleanup, Guarded
<1>5. CASE SealCommitted
  BY <1>5 DEF SealCommitted, Guarded
<1>6. CASE CleanupFails
  <2>1. journal'.status = "blocked" /\ journal'.pending = journal.pending
    BY <1>6, SettleFields DEF CleanupFails, TypeOK, Status, FailureCode
  <2>. QED BY <1>6, <2>1 DEF CleanupFails, Guarded, Interrupted
<1>7. CASE Announce \/ Stop
  BY <1>7 DEF Announce, Stop, durable, Guarded
<1>. QED BY <1>1, <1>2, <1>3, <1>4, <1>5, <1>6, <1>7 DEF Commit

LEMMA GuardedNext ==
  ASSUME TypeOK, Phased, Guarded, [Next]_vars PROVE Guarded'
<1>1. CASE Fail \/ Environment
  BY <1>1 DEF Fail, Environment, Crash, CrashPersisting, Edit, durable, Guarded
<1>2. CASE UNCHANGED vars
  BY <1>2 DEF vars, durable, Guarded
<1>. QED
  BY <1>1, <1>2, GuardedBoot, GuardedWriteStep, GuardedRollback, GuardedCommit DEF Next
-----------------------------------------------------------------------------
LEMMA EvidencedBoot ==
  ASSUME TypeOK, Evidenced, Boot PROVE Evidenced'
<1>1. CASE BeginTransaction
  <2>1. Restores' = {} /\ Reconciles' = {}
    BY <1>1, NewJournalFields DEF BeginTransaction, Restores, Reconciles
  <2>2. pass.done = {}
    BY <1>1 DEF BeginTransaction, Evidenced
  <2>. QED BY <1>1, <2>1, <2>2 DEF BeginTransaction, Evidenced, PendingWorkHasEvidence
<1>2. ASSUME sidecar' = sidecar, journal'.pending = journal.pending, pass'.done = {},
             pc' # "discard", Reconciles = {} \/ (pc' = "rollback" /\ ~Committed')
      PROVE  Evidenced'
  <2>1. Restores' = Restores /\ Reconciles' = Reconciles
    BY <1>2 DEF Restores, Reconciles
  <2>. QED BY <1>2, <2>1
           DEF Evidenced, PendingWorkHasEvidence, HasEntry, Working, Sealing
<1>3. CASE BootRollback
  <2>1. /\ journal'.pending = journal.pending
        /\ ~Committed'
    BY <1>3, ActivateFields, InspectionCommitted DEF BootRollback, Committed, TypeOK
  <2>. QED BY <1>2, <1>3, <2>1 DEF BootRollback, StartPass, NoPass
<1>4. CASE BootResume
  <2>1. Reconciles = {}
    BY <1>4 DEF BootResume, Inspection, InspectUncommitted
  <2>2. pass'.done = {}
    BY <1>4 DEF BootResume, Evidenced
  <2>3. journal'.pending = journal.pending
    BY <1>4, ActivateFields DEF BootResume, TypeOK
  <2>4. sidecar' = sidecar /\ pc' # "discard"
    BY <1>4 DEF BootResume
  <2>. QED BY <1>2, <2>1, <2>2, <2>3, <2>4
<1>5. CASE BootCommitCleanup
  <2>1. Reconciles = {}
    BY <1>5, InspectionCommitted DEF BootCommitCleanup, Evidenced
  <2>2. pass'.done = {}
    BY <1>5 DEF BootCommitCleanup, Evidenced
  <2>3. journal'.pending = journal.pending
    BY <1>5, ActivateFields DEF BootCommitCleanup, TypeOK
  <2>4. sidecar' = sidecar /\ pc' # "discard"
    BY <1>5 DEF BootCommitCleanup
  <2>. QED BY <1>2, <2>1, <2>2, <2>3, <2>4
<1>. QED BY <1>1, <1>3, <1>4, <1>5 DEF Boot

LEMMA EvidencedWriteStep ==
  ASSUME TypeOK, Phased, Prepared, Evidenced, WriteStep PROVE Evidenced'
<1>1. pc \in Working /\ pc' \in Working /\ pass' = pass
  BY DEF Working, WriteStep, BeginStep, IntendSidecar, RecordPreimage, JournalPreimage,
         WriteTarget, WriteReturns, RecordPostimage, JournalPostimage, PersistClaim,
         IntendUnverifiable, RunUnverifiable
<1>2. Reconciles = {} /\ pass.done = {}
  BY <1>1 DEF Evidenced, Working
<1>3. ASSUME \A id \in ActionId : HasEntry(id) => HasEntry(id)',
             Reconciles' = {}, \A id \in Restores' : id \in Restores \/ HasEntry(id)
      PROVE  Evidenced'
  <2>1. \A id \in Restores' : id \in ActionId /\ HasEntry(id)
    BY <1>3 DEF Restores, Evidenced, PendingWorkHasEvidence
  <2>. QED BY <1>1, <1>2, <1>3, <2>1 DEF Evidenced, PendingWorkHasEvidence, Working
<1>4. ASSUME journal' = journal, \A id \in ActionId : HasEntry(id) => HasEntry(id)'
      PROVE  Evidenced'
  <2>1. Restores' = Restores /\ Reconciles' = Reconciles
    BY <1>4 DEF Restores, Reconciles
  <2>. QED BY <1>2, <1>3, <1>4, <2>1
<1>5. ASSUME NEW a, NEW b, Record(Update(a, b, {})), sidecar' = sidecar,
             \A id \in ActionId : Reconcile(id) \notin b,
             \A id \in ActionId : Restore(id) \in b => HasEntry(id)
      PROVE  Evidenced'
  <2>1. journal'.pending = journal.pending \cup b
    BY <1>5, RecordFields DEF TypeOK
  <2>2. Reconciles' = {}
    BY <1>2, <1>5, <2>1 DEF Reconciles
  <2>3. \A id \in Restores' : id \in Restores \/ HasEntry(id)
    BY <1>5, <2>1 DEF Restores
  <2>. QED BY <1>3, <1>5, <2>2, <2>3, EntriesSurvive
<1>6. ASSUME NEW f \in File, RecordPreimage(f) PROVE Evidenced'
  BY <1>4, <1>6, EntriesSurvive DEF RecordPreimage
<1>7. ASSUME NEW id \in ActionId, RecordPostimage(id) PROVE Evidenced'
  BY <1>4, <1>7, EntriesSurvive DEF RecordPostimage
<1>8. CASE IntendSidecar
  BY <1>5, <1>8, CompensationNames DEF IntendSidecar
<1>9. CASE JournalPreimage
  <2>1. step.fresh \in ActionId /\ HasEntry(step.fresh)
    BY <1>9 DEF JournalPreimage, Prepared, TypeOK
  <2>. QED BY <1>5, <1>9, <2>1, CompensationNames DEF JournalPreimage
<1>10. CASE JournalPostimage
  BY <1>5, <1>10 DEF JournalPostimage
<1>11. ASSUME NEW u \in Unit, IntendUnverifiable(u) PROVE Evidenced'
  BY <1>5, <1>11, CompensationNames DEF IntendUnverifiable
<1>12. ASSUME sidecar' = sidecar, journal' = journal PROVE Evidenced'
  BY <1>4, <1>12, EntriesSurvive
<1>. QED
  BY <1>6, <1>7, <1>8, <1>9, <1>10, <1>11, <1>12
     DEF WriteStep, BeginStep, WriteTarget, WriteReturns, PersistClaim, RunUnverifiable,
         durable

LEMMA EvidencedRollback ==
  ASSUME TypeOK, Phased, Evidenced, Rollback PROVE Evidenced'
<1>1. ~Committed /\ pc \notin Working \cup Sealing
  BY DEF Phased, Working, Undoing, Sealing, Rollback, RollbackEntry, JournalRestored,
         RollbackEnds, RestoredEnds, ReconcileClaim, JournalReconciled, ReconcileEnds,
         DiscardSidecar, JournalDiscarded, RetryAttempt, SealRolledBack, SealBlocked
<1>2. ASSUME NEW id \in ActionId, RollbackEntry(id) PROVE Evidenced'
  <2>1. Restores' = Restores /\ Reconciles' = Reconciles
    BY <1>2 DEF RollbackEntry, Restores, Reconciles
  <2>2. \A k \in pass'.done : k \in pass.done \/ HasEntry(k)
    BY <1>2 DEF RollbackEntry, Undone, Restored, Intact, TypeOK
  <2>3. pc' = pc /\ pc = "rollback" /\ sidecar' = sidecar /\ journal' = journal
    BY <1>2 DEF RollbackEntry
  <2>. QED BY <1>1, <2>1, <2>2, <2>3
           DEF Evidenced, PendingWorkHasEvidence, HasEntry, Committed, Working, Sealing
<1>3. ASSUME NEW id \in ActionId, JournalRestored(id) PROVE Evidenced'
  <2>1. PICK b \in {{Reconcile(id)}, {}} : Record(Update({}, b, {Restore(id)}))
    BY <1>3 DEF JournalRestored
  <2>2. /\ journal'.pending = (journal.pending \ {Restore(id)}) \cup b
        /\ ~Committed'
    BY <1>1, <2>1, RecordFields, RecordKeepsCommitted DEF TypeOK
  <2>3. Restores' \subseteq Restores /\ Reconciles' \subseteq Reconciles \cup {id}
    BY <2>1, <2>2, CompensationNames DEF Restores, Reconciles
  <2>4. HasEntry(id)
    BY <1>3 DEF JournalRestored, Latest, Evidenced
  <2>5. /\ pc' = pc /\ pc = "restored" /\ sidecar' = sidecar
        /\ pass'.done \subseteq pass.done
    BY <1>3 DEF JournalRestored, TypeOK
  <2>. QED BY <2>2, <2>3, <2>4, <2>5
           DEF Evidenced, PendingWorkHasEvidence, HasEntry, Working, Sealing
<1>4. ASSUME sidecar' = sidecar, journal' = journal, pass'.done = {} \/ pass' = pass,
             pass.done # {} => pc' \in {"rollback", "restored"},
             pc' \in Working \cup Sealing => Reconciles = {},
             pc' = "discard" => NothingRemains
      PROVE  Evidenced'
  <2>1. /\ Restores' = Restores /\ Reconciles' = Reconciles
        /\ Committed' <=> Committed
    BY <1>4 DEF Restores, Reconciles, Committed
  <2>. QED BY <1>1, <1>4, <2>1
           DEF Evidenced, PendingWorkHasEvidence, HasEntry, NothingRemains
<1>5. CASE RollbackEnds \/ RestoredEnds \/ ReconcileEnds
  BY <1>4, <1>5 DEF RollbackEnds, RestoredEnds, ReconcileEnds, durable, Working, Sealing,
                    Evidenced
<1>6. ASSUME NEW u \in Unit, ReconcileClaim(u) PROVE Evidenced'
  <2>1. pass.done = {} /\ pass'.done = pass.done
    BY <1>6 DEF ReconcileClaim, Evidenced, TypeOK
  <2>. QED BY <1>4, <1>6, <2>1 DEF ReconcileClaim, Working, Sealing
<1>7. ASSUME NEW c, Record(Update({}, {}, c)), pass'.done = pass.done, pass.done = {},
             pc' \notin {"discard"} \cup Working \cup Sealing,
             \/ sidecar' = sidecar
             \/ Restores = {} /\ Reconciles = {}
      PROVE  Evidenced'
  <2>1. journal'.pending = journal.pending \ c /\ ~Committed'
    BY <1>1, <1>7, RecordFields, RecordKeepsCommitted DEF TypeOK
  <2>2. Restores' \subseteq Restores /\ Reconciles' \subseteq Reconciles
    BY <2>1 DEF Restores, Reconciles
  <2>. QED BY <1>7, <2>1, <2>2 DEF Evidenced, PendingWorkHasEvidence, HasEntry
<1>8. CASE JournalReconciled
  <2>1. pass.done = {} /\ pass'.done = pass.done
    BY <1>8 DEF JournalReconciled, Evidenced, TypeOK
  <2>. QED BY <1>7, <1>8, <2>1 DEF JournalReconciled, Working, Sealing
<1>9. CASE DiscardSidecar
  <2>1. Restores' = {} /\ Reconciles' = {}
    BY <1>9 DEF DiscardSidecar, Evidenced, Restores, Reconciles
  <2>. QED BY <1>9, <2>1
           DEF DiscardSidecar, Evidenced, PendingWorkHasEvidence, Working, Sealing
<1>10. CASE JournalDiscarded
  <2>1. pass.done = {} /\ pass' = pass
    BY <1>10 DEF JournalDiscarded, Evidenced
  <2>. QED BY <1>7, <1>10, <2>1 DEF JournalDiscarded, Working, Sealing
<1>11. CASE RetryAttempt
  <2>1. Reconciles = {} /\ pass'.done = {} /\ pass.done = {}
    BY <1>11 DEF RetryAttempt, NoPass, Reconciles, Evidenced
  <2>. QED BY <1>4, <1>11, <2>1 DEF RetryAttempt, durable
<1>12. CASE SealRolledBack \/ SealBlocked
  <2>1. journal'.pending \subseteq journal.pending /\ ~Committed'
    <3>1. CASE SealRolledBack
      <4>1. journal \in Journal /\ "rolled_back" \in Status /\ "none" \in FailureCode
        BY DEF TypeOK, Status, FailureCode
      <4>2. journal' = Settle(journal, "rolled_back", Update({}, {}, {}))
        BY <3>1 DEF SealRolledBack
      <4>3. journal'.pending \subseteq journal.pending
        BY <4>1, <4>2, SettleFields
      <4>4. journal'.phase = journal.phase /\ journal'.completed = journal.completed
        BY <4>1, <4>2, SettleFields
      <4>. QED BY <1>1, <4>3, <4>4 DEF Committed
    <3>2. CASE SealBlocked
      <4>1. journal \in Journal /\ "blocked" \in Status /\ "startup_failure" \in FailureCode
        BY DEF TypeOK, Status, FailureCode
      <4>. QED BY <1>1, <3>2, <4>1, SettleFields DEF SealBlocked, Committed
    <3>. QED BY <1>12, <3>1, <3>2
  <2>2. Restores' \subseteq Restores /\ Reconciles' \subseteq Reconciles
    BY <2>1 DEF Restores, Reconciles
  <2>3. pass'.done = {} /\ pc' = "down" /\ sidecar' = sidecar
    BY <1>12 DEF SealRolledBack, SealBlocked, NoPass
  <2>. QED BY <2>1, <2>2, <2>3
           DEF Evidenced, PendingWorkHasEvidence, HasEntry, Working, Sealing
<1>. QED
  BY <1>2, <1>3, <1>5, <1>6, <1>8, <1>9, <1>10, <1>11, <1>12 DEF Rollback

LEMMA EvidencedCommit ==
  ASSUME TypeOK, Phased, Evidenced, Commit PROVE Evidenced'
<1>1. pc \notin {"rollback", "restored"} /\ pass' = pass /\ pc' # "discard"
  BY DEF Commit, CommitGeneration, IntendCleanup, CleanupSidecar, JournalCleanup,
         SealCommitted, CleanupFails, Announce, Stop
<1>2. pass.done = {}
  BY <1>1 DEF Evidenced
<1>3. ASSUME journal'.pending \subseteq journal.pending,
             sidecar' = sidecar \/ Restores = {},
             Reconciles = {}
      PROVE  Evidenced'
  <2>1. Restores' \subseteq Restores /\ Reconciles' = {}
    BY <1>3 DEF Restores, Reconciles
  <2>. QED BY <1>1, <1>2, <1>3, <2>1 DEF Evidenced, PendingWorkHasEvidence, HasEntry
<1>4. CASE CommitGeneration
  <2>1. "generation_committed" \in Phase /\ journal \in Journal
    BY DEF TypeOK, Phase, PhaseRank
  <2>2. journal'.pending \subseteq journal.pending
    <3>1. journal' = Advance(journal, "generation_committed",
                             Update({"generation_committed"}, {}, {}))
      BY <1>4 DEF CommitGeneration
    <3>. QED BY <2>1, <3>1, AdvanceFields
  <2>. QED BY <1>3, <1>4, <2>2 DEF CommitGeneration, Evidenced, Working
<1>5. CASE IntendCleanup \/ JournalCleanup
  <2>1. journal'.pending \subseteq journal.pending
    BY <1>5, RecordFields DEF IntendCleanup, JournalCleanup, TypeOK
  <2>. QED BY <1>3, <1>5, <2>1 DEF IntendCleanup, JournalCleanup, Evidenced, Sealing
<1>6. CASE CleanupSidecar
  <2>1. Restores = {}
    BY <1>6 DEF CleanupSidecar, CleanupIntended, HasEvidence, Undoable
  <2>. QED BY <1>3, <1>6, <2>1 DEF CleanupSidecar, Evidenced, Sealing
<1>7. CASE SealCommitted
  <2>1. journal'.pending \subseteq journal.pending
    <3>1. journal \in Journal /\ "committed" \in Status /\ "none" \in FailureCode
      BY DEF TypeOK, Status, FailureCode
    <3>. QED BY <1>7, <3>1, SettleFields DEF SealCommitted
  <2>. QED BY <1>3, <1>7, <2>1 DEF SealCommitted, Evidenced, Sealing
<1>8. CASE CleanupFails \/ Announce \/ Stop
  <2>1. /\ journal'.pending = journal.pending /\ sidecar' = sidecar
        /\ Committed' <=> Committed
        /\ pc' \notin Working \cup Sealing
    <3>1. CASE CleanupFails
      <4>1. /\ journal \in Journal /\ "blocked" \in Status
            /\ "materialization_commit_cleanup_failed" \in FailureCode
        BY DEF TypeOK, Status, FailureCode
      <4>. QED
        BY <3>1, <4>1, SettleFields DEF CleanupFails, Committed, Working, Sealing
    <3>2. CASE Announce \/ Stop
      BY <3>2 DEF Announce, Stop, durable, Committed, Working, Sealing
    <3>. QED BY <1>8, <3>1, <3>2
  <2>2. Restores' = Restores /\ Reconciles' = Reconciles
    BY <2>1 DEF Restores, Reconciles
  <2>. QED BY <1>1, <1>2, <2>1, <2>2 DEF Evidenced, PendingWorkHasEvidence, HasEntry
<1>. QED BY <1>4, <1>5, <1>6, <1>7, <1>8 DEF Commit

LEMMA EvidencedNext ==
  ASSUME TypeOK, Phased, Prepared, Evidenced, [Next]_vars PROVE Evidenced'
<1>1. ASSUME sidecar' = sidecar, journal' = journal PROVE
        /\ Restores' = Restores /\ Reconciles' = Reconciles
        /\ Committed' <=> Committed
        /\ \A id : HasEntry(id)' <=> HasEntry(id)
  BY <1>1 DEF Restores, Reconciles, Committed, HasEntry
<1>2. CASE Fail \/ Crash \/ CrashPersisting
  <2>1. /\ pass'.done = {} /\ pc' \in {"rollback", "down"}
        /\ sidecar' = sidecar /\ journal' = journal
    <3>1. CASE Fail
      BY <3>1 DEF Fail, StartPass, NoPass, durable
    <3>2. CASE Crash \/ CrashPersisting
      BY <3>2 DEF Crash, CrashPersisting, NoPass, durable
    <3>. QED BY <1>2, <3>1, <3>2
  <2>. QED BY <1>1, <2>1 DEF Evidenced, PendingWorkHasEvidence, Working, Sealing
<1>3. CASE UNCHANGED vars \/ \E f \in File, image \in Image : Edit(f, image)
  <2>1. sidecar' = sidecar /\ journal' = journal /\ pass' = pass /\ pc' = pc
    BY <1>3 DEF Edit, vars, durable
  <2>. QED BY <1>1, <2>1 DEF Evidenced, PendingWorkHasEvidence
<1>. QED
  BY <1>2, <1>3, EvidencedBoot, EvidencedWriteStep, EvidencedRollback, EvidencedCommit
     DEF Next, Environment
-----------------------------------------------------------------------------
(* A step that forgets no verification and rolls nothing back. *)
LEMMA AccountedKept ==
  ASSUME Accounted, untracked' = untracked, Committed => Committed',
         Verifies \subseteq Verifies', pc' = "untracked" => pc = "untracked",
         journal'.status = "rolled_back" => journal.status = "rolled_back"
  PROVE  Accounted'
BY DEF Accounted

LEMMA AccountedRecord ==
  ASSUME TypeOK, Accounted, untracked' = untracked, NEW a, NEW b, NEW c,
         "generation_committed" \notin a, \A u \in Unit : Verify(u) \notin c,
         Record(Update(a, b, c)), pc' = "untracked" => pc = "untracked"
  PROVE  Accounted'
<1>1. /\ journal'.status = journal.status
      /\ journal'.pending = (journal.pending \ c) \cup b
      /\ Committed' <=> Committed
  BY RecordFields, RecordKeepsCommitted DEF TypeOK
<1>2. Verifies \subseteq Verifies'
  BY <1>1 DEF Verifies
<1>. QED BY <1>1, <1>2, AccountedKept

LEMMA AccountedBoot ==
  ASSUME TypeOK, Accounted, Boot PROVE Accounted'
<1>1. CASE BeginTransaction
  BY <1>1, NewJournalFields DEF BeginTransaction, Accounted
<1>2. CASE BootRollback \/ BootResume \/ BootCommitCleanup
  <2>1. PICK action : journal' = Activate(journal, action)
    BY <1>2 DEF BootRollback, BootResume, BootCommitCleanup
  <2>2. /\ journal'.status = "active" /\ journal'.pending = journal.pending
        /\ Committed' <=> Committed
    BY <2>1, ActivateFields DEF Committed, TypeOK
  <2>3. Verifies' = Verifies
    BY <2>2 DEF Verifies
  <2>4. untracked' = untracked /\ pc' # "untracked"
    BY <1>2 DEF BootRollback, BootResume, BootCommitCleanup, history
  <2>. QED BY <2>2, <2>3, <2>4, AccountedKept
<1>. QED BY <1>1, <1>2 DEF Boot

LEMMA AccountedWriteStep ==
  ASSUME TypeOK, Phased, Accounted, WriteStep PROVE Accounted'
<1>1. CASE IntendSidecar
  BY <1>1, AccountedRecord DEF IntendSidecar, history
<1>2. CASE JournalPreimage
  BY <1>2, AccountedRecord DEF JournalPreimage, history
<1>3. CASE JournalPostimage
  BY <1>3, AccountedRecord DEF JournalPostimage, history
<1>4. ASSUME NEW u \in Unit, IntendUnverifiable(u) PROVE Accounted'
  <2>1. /\ Verify(u) \in journal'.pending
        /\ journal'.status = journal.status
    BY <1>4, RecordFields DEF IntendUnverifiable, TypeOK
  <2>2. Verifies' # {}
    BY <2>1 DEF Verifies
  <2>3. journal'.status # "rolled_back"
    BY <1>4, <2>1 DEF IntendUnverifiable, Phased, Working
  <2>. QED BY <2>2, <2>3 DEF Accounted
<1>5. CASE RunUnverifiable
  <2>1. journal' = journal /\ Verifies' = Verifies /\ (Committed' <=> Committed)
    BY <1>5 DEF RunUnverifiable, durable, Verifies, Committed
  <2>2. Verifies # {} /\ journal.status = "active" /\ pc' = "open"
    BY <1>5 DEF RunUnverifiable, Accounted, Phased, Working
  <2>. QED BY <2>1, <2>2 DEF Accounted
<1>6. ASSUME journal' = journal, untracked' = untracked,
             pc' = "untracked" => pc = "untracked"
      PROVE  Accounted'
  BY <1>6, AccountedKept DEF Verifies, Committed
<1>. QED
  BY <1>1, <1>2, <1>3, <1>4, <1>5, <1>6
     DEF WriteStep, BeginStep, RecordPreimage, WriteTarget, WriteReturns,
         RecordPostimage, PersistClaim, durable, history

LEMMA AccountedRollback ==
  ASSUME TypeOK, Phased, Accounted, Rollback PROVE Accounted'
<1>1. ASSUME NEW id \in ActionId, JournalRestored(id) PROVE Accounted'
  <2>1. PICK b : Record(Update({}, b, {Restore(id)}))
    BY <1>1 DEF JournalRestored
  <2>2. /\ untracked' = untracked /\ pc' = pc
        /\ \A u \in Unit : Verify(u) \notin {Restore(id)}
    BY <1>1, CompensationNames DEF JournalRestored, history
  <2>. QED BY <2>1, <2>2, AccountedRecord
<1>2. CASE JournalReconciled
  <2>1. \A u \in Unit :
          Verify(u) \notin {Reconcile(id) : id \in ReconcileUnit(pass.persisted)}
    BY CompensationNames DEF ReconcileUnit, Reconciles
  <2>. QED BY <1>2, <2>1, AccountedRecord DEF JournalReconciled, history
<1>3. CASE JournalDiscarded
  BY <1>3, AccountedRecord, CompensationNames DEF JournalDiscarded, history
<1>4. CASE SealRolledBack
  <2>1. Verifies = {}
    BY <1>4 DEF SealRolledBack, CanSettle, ApplyUpdate, Update, TypeOK, Journal, Verifies
  <2>2. ~Committed
    BY <1>4 DEF SealRolledBack, Phased, Undoing
  <2>3. ~untracked' /\ pc' = "down"
    BY <1>4, <2>1, <2>2 DEF SealRolledBack, Accounted, history
  <2>. QED BY <2>3 DEF Accounted
<1>5. CASE SealBlocked
  <2>1. /\ journal \in Journal /\ "blocked" \in Status
        /\ "startup_failure" \in FailureCode
    BY DEF TypeOK, Status, FailureCode
  <2>2. /\ journal'.status = "blocked" /\ journal'.pending = journal.pending
        /\ journal'.phase = journal.phase /\ journal'.completed = journal.completed
    BY <1>5, <2>1, SettleFields DEF SealBlocked
  <2>. QED BY <1>5, <2>2, AccountedKept DEF SealBlocked, Verifies, Committed, history
<1>6. ASSUME journal' = journal, untracked' = untracked,
             pc' = "untracked" => pc = "untracked"
      PROVE  Accounted'
  BY <1>6, AccountedKept DEF Verifies, Committed
<1>. QED
  BY <1>1, <1>2, <1>3, <1>4, <1>5, <1>6
     DEF Rollback, RollbackEntry, RollbackEnds, RestoredEnds, ReconcileClaim,
         ReconcileEnds, DiscardSidecar, RetryAttempt, durable, history

LEMMA AccountedCommit ==
  ASSUME TypeOK, Phased, Accounted, Commit PROVE Accounted'
<1>0. untracked' = untracked /\ pc' # "untracked"
  BY DEF Commit, CommitGeneration, IntendCleanup, CleanupSidecar, JournalCleanup,
         SealCommitted, CleanupFails, Announce, Stop, history
<1>1. CASE CommitGeneration \/ IntendCleanup \/ JournalCleanup
  <2>1. Committed' /\ journal'.status = "active"
    BY <1>1, PhasedCommit DEF CommitGeneration, IntendCleanup, JournalCleanup, Commit,
                              Phased, Sealing
  <2>. QED BY <1>0, <2>1 DEF Accounted
<1>2. CASE SealCommitted
  <2>1. journal \in Journal /\ "committed" \in Status /\ "none" \in FailureCode
    BY DEF TypeOK, Status, FailureCode
  <2>2. /\ journal'.status = "committed"
        /\ journal'.phase = journal.phase /\ journal'.completed = journal.completed
    BY <1>2, <2>1, SettleFields DEF SealCommitted
  <2>3. Committed'
    BY <1>2, <2>2 DEF SealCommitted, Phased, Sealing, Committed
  <2>. QED BY <1>0, <2>2, <2>3 DEF Accounted
<1>3. CASE CleanupFails
  <2>1. /\ journal \in Journal /\ "blocked" \in Status
        /\ "materialization_commit_cleanup_failed" \in FailureCode
    BY DEF TypeOK, Status, FailureCode
  <2>2. /\ journal'.status = "blocked" /\ journal'.pending = journal.pending
        /\ journal'.phase = journal.phase /\ journal'.completed = journal.completed
    BY <1>3, <2>1, SettleFields DEF CleanupFails
  <2>. QED BY <1>0, <2>2, AccountedKept DEF Verifies, Committed
<1>4. CASE CleanupSidecar \/ Announce \/ Stop
  <2>1. journal' = journal
    BY <1>4 DEF CleanupSidecar, Announce, Stop, durable
  <2>. QED BY <1>0, <2>1, AccountedKept DEF Verifies, Committed
<1>. QED BY <1>1, <1>2, <1>3, <1>4 DEF Commit

LEMMA AccountedNext ==
  ASSUME TypeOK, Phased, Accounted, [Next]_vars PROVE Accounted'
<1>1. CASE Fail \/ Environment \/ UNCHANGED vars
  <2>1. /\ journal' = journal /\ untracked' = untracked
        /\ pc' = "untracked" => pc = "untracked"
    BY <1>1 DEF Fail, Environment, Crash, CrashPersisting, Edit, vars, durable, history
  <2>. QED BY <2>1, AccountedKept DEF Verifies, Committed
<1>. QED
  BY <1>1, AccountedBoot, AccountedWriteStep, AccountedRollback, AccountedCommit DEF Next
-----------------------------------------------------------------------------
LEMMA InitIInv == Init => IInv
<1>. SUFFICES ASSUME Init PROVE IInv
  OBVIOUS
<1>1. /\ Restores = {} /\ Reconciles = {} /\ journal.status = "none" /\ ~Committed
  BY NewJournalFields DEF Init, Restores, Reconciles, Committed
<1>2. Phased /\ Guarded
  BY <1>1 DEF Init, Phased, Guarded, Working, Undoing, Sealing
<1>3. Prepared
  BY DEF Init, Prepared, NoStep
<1>4. Evidenced
  BY <1>1 DEF Init, Evidenced, PendingWorkHasEvidence, NoPass, Working, Sealing
<1>5. Accounted
  BY <1>1 DEF Init, Accounted
<1>. QED BY <1>2, <1>3, <1>4, <1>5, TypeInit DEF IInv

LEMMA NextIInv == IInv /\ [Next]_vars => IInv'
BY TypeNext, PhasedNext, PreparedNext, GuardedNext, EvidencedNext, AccountedNext DEF IInv

THEOREM Invariance == Spec => []IInv
BY InitIInv, NextIInv, PTL DEF Spec

(* Every state the startup reaches, for any number of files, flags, entries, *)
(* transactions, retries, crashes and edits, is of the declared type.        *)
THEOREM TypeCorrect == Spec => []TypeOK
<1>1. IInv => TypeOK
  BY DEF IInv
<1>. QED BY <1>1, Invariance, PTL

(* No sealed startup leaves private preimages behind. *)
THEOREM NoEvidenceAfterSeal == Spec => []SealedLeavesNoEvidence
<1>1. IInv => SealedLeavesNoEvidence
  BY DEF IInv, Guarded, SealedLeavesNoEvidence, Sealed, Interrupted
<1>. QED BY <1>1, Invariance, PTL

(* No pending restore or reconciliation ever refers to a lost entry. *)
THEOREM EvidenceKept == Spec => []PendingWorkHasEvidence
<1>1. IInv => PendingWorkHasEvidence
  BY DEF IInv, Evidenced
<1>. QED BY <1>1, Invariance, PTL

(* A startup that ran a setup command nobody can verify is never reported *)
(* as rolled back.                                                        *)
THEOREM UnverifiableNeverRolledBack == Spec => []UntrackedBlocks
<1>1. IInv => UntrackedBlocks
  BY DEF IInv, Accounted, UntrackedBlocks
<1>. QED BY <1>1, Invariance, PTL

-----------------------------------------------------------------------------
(***************************************************************************)
(* A rolled back startup has put the files back, the flags it leaves are   *)
(* true, a refusal has a cause, and the journalled startup implements the  *)
(* promise of StartupOutcome: for every number of files, flags, entries,   *)
(* startups, retries, crashes and edits.                                   *)
(*                                                                         *)
(* Three invariants, each on top of the one before.                        *)
(*                                                                         *)
(* RestoreInv.  Its heart is Recoverable: a file nobody edited either is   *)
(* back for good or has a pending restore whose entry holds what it was.   *)
(* It survives a rollback only because restores run from the newest entry  *)
(* down (Ordered), a write because the file's restore is already pending   *)
(* (Opened), and a new entry because no rollback has begun on this sidecar *)
(* (Begun).  Closed ties statuses to what is pending; Unspoiled shows that *)
(* without edits no startup goes on after its rollback began.              *)
(*                                                                         *)
(* ClaimsInv.  A flag that does not stand for the files of the beginning   *)
(* is one the rollback gives up (Honest), because every file that changed  *)
(* has an entry that says so or is open (Traced).                          *)
(*                                                                         *)
(* EvidenceInv.  The entries of one file form a chain, each finding what   *)
(* the pending one before it left (Linked), so that restoring one makes    *)
(* the next one acceptable to the inspection (Returning).                  *)
(***************************************************************************)

(* The restore that gives a file its first image back: nothing recorded of *)
(* the file up to that entry shows anything else.                          *)
RestoresFirst(f, id) ==
  /\ id \in Restores /\ id.file = f /\ HasEntry(id)
  /\ \A k \in 1 .. id.index : sidecar[k].file = f => sidecar[k].preimage = original[f]
CanComeBack(f) == \E id \in ActionId : RestoresFirst(f, id)

(* The file is what it was, and no restore that is pending can change that. *)
IsBack(f) ==
  /\ disk[f] = original[f]
  /\ undoing = "no" =>
       \A k \in DOMAIN sidecar : sidecar[k].file = f => sidecar[k].preimage = original[f]
  /\ \A id \in Restores : id.file = f =>
       \E k \in 1 .. id.index : sidecar[k].file = f /\ sidecar[k].preimage = original[f]

Recoverable ==
  ~Committed /\ undoing # "resumed" =>
    \A f \in File \ foreign : CanComeBack(f) \/ IsBack(f)

(* A rollback works through what is pending, from the newest entry down, and *)
(* what it calls done shows an old image.                                    *)
Ordered ==
  /\ pass.todo # {} => pc = "rollback"
  /\ pass.todo \cup pass.done \subseteq Restores /\ pass.todo \cap pass.done = {}
  /\ pc = "rollback" => \A a \in Restores \ pass.todo, b \in pass.todo : b.index <= a.index
  /\ \A id \in pass.done : id.file \in foreign \/ AlreadyRestored(id)

(* A file is open for writing only while its restore is pending. *)
Opened == step.open \subseteq Restores

(* A startup does not go on after its rollback began unless it is resumed. *)
Begun ==
  undoing = "begun" /\ ~Committed =>
    Discard \in journal.pending /\ pc \notin Working \cup {"discarded"}

(* What a status says of the journal and of the process. *)
Closed ==
  /\ journal.status = "rolled_back" => journal.pending = {} /\ ~Committed /\ pc = "down"
  /\ journal.status = "committed" => Committed
  /\ journal.status = "none" => pc = "down" /\ ~Committed
  /\ pc = "announce" => Committed

(* The rollback has nothing left to do for this restore, or cannot do it. *)
Handled(id) == AlreadyRestored(id) \/ sidecar[id.index].postimage # disk[id.file]

(* While nobody edits a file, a rollback that has begun is never resumed. *)
Unspoiled ==
  foreign = {} =>
    /\ undoing # "resumed"
    /\ ~Committed =>
         /\ pc = "rollback" => \A id \in Restores \ pass.todo : Handled(id)
         /\ pc = "restored" => \A id \in Restores : Handled(id)
         /\ undoing = "begun" => Restores = {} \/ \E id \in Restores : Handled(id)

RestoreInv == /\ IInv /\ Recoverable /\ Ordered /\ Opened
              /\ Begun /\ Closed /\ Unspoiled
-----------------------------------------------------------------------------
(* The indexes of the entries up to a recorded one are indexes of entries. *)
LEMMA IndexBelow ==
  ASSUME TypeOK, NEW id \in ActionId, HasEntry(id)
  PROVE  /\ 1 .. id.index \subseteq DOMAIN sidecar
         /\ id.index \in 1 .. id.index /\ sidecar[id.index].file = id.file
         /\ id.index \in Nat
<1>1. DOMAIN sidecar = 1 .. Len(sidecar) /\ Len(sidecar) \in Nat
  BY DEF TypeOK
<1>2. id.index \in 1 .. MaxEntries /\ MaxEntries \in Nat
  BY ConstantsAssumption DEF ActionId
<1>. QED BY <1>1, <1>2 DEF HasEntry

(* An entry of the same file at the same index is the same entry. *)
LEMMA EntryIsId ==
  ASSUME NEW a \in ActionId, NEW b \in ActionId, a.file = b.file, a.index = b.index
  PROVE  a = b
BY DEF ActionId

LEMMA AppendedEntry ==
  ASSUME TypeOK, NEW f \in File, RecordPreimage(f)
  PROVE  /\ DOMAIN sidecar = 1 .. Len(sidecar) /\ Len(sidecar) \in Nat
         /\ DOMAIN sidecar' = 1 .. Len(sidecar) + 1
         /\ \A k \in DOMAIN sidecar : sidecar'[k] = sidecar[k]
         /\ sidecar'[Len(sidecar) + 1].file = f
         /\ sidecar'[Len(sidecar) + 1].preimage = disk[f]
<1>. DEFINE e == [file |-> f, preimage |-> disk[f], postimage |-> Unrecorded]
<1>1. sidecar' = Append(sidecar, e) /\ sidecar \in Seq(Entry)
  BY DEF RecordPreimage, TypeOK
<1>2. e.file = f /\ e.preimage = disk[f]
  OBVIOUS
<1>. HIDE DEF e
<1>. QED BY <1>1, <1>2

LEMMA CompletedEntry ==
  ASSUME TypeOK, Prepared, NEW id \in ActionId, RecordPostimage(id)
  PROVE  /\ DOMAIN sidecar' = DOMAIN sidecar
         /\ \A k \in DOMAIN sidecar : /\ sidecar'[k].file = sidecar[k].file
                                      /\ sidecar'[k].preimage = sidecar[k].preimage
<1>1. sidecar' = [sidecar EXCEPT ![id.index] =
                    [sidecar[id.index] EXCEPT !.postimage = disk[id.file]]]
  BY DEF RecordPostimage
<1>2. id.index \in DOMAIN sidecar
  BY DEF RecordPostimage, Prepared, HasEntry
<1>3. \A k \in DOMAIN sidecar : sidecar[k] \in Entry
  BY ElementOfSeq DEF TypeOK
<1>. QED BY <1>1, <1>2, <1>3 DEF Entry
-----------------------------------------------------------------------------
(* The steps that begin, prepare, write, restore or discard. *)
Moving ==
  \/ BeginTransaction \/ BootResume
  \/ \E f \in File : RecordPreimage(f)
  \/ JournalPreimage
  \/ \E id \in ActionId, image \in Image : WriteTarget(id, image)
  \/ \E id \in ActionId : RecordPostimage(id)
  \/ \E id \in ActionId : RollbackEntry(id) \/ JournalRestored(id)
  \/ DiscardSidecar \/ CleanupSidecar
  \/ \E f \in File, image \in Image : Edit(f, image)

(* A committed transaction stays so until the next one begins. *)
LEMMA CommittedLasts ==
  ASSUME TypeOK, [Next]_vars, ~BeginTransaction, Committed PROVE Committed'
<1>1. ASSUME journal' = journal PROVE Committed'
  BY <1>1 DEF Committed
<1>2. ASSUME NEW a, NEW b, NEW c, Record(Update(a, b, c)) PROVE Committed'
  BY <1>2, RecordFields DEF Committed, TypeOK
<1>3. ASSUME NEW action, journal' = Activate(journal, action) PROVE Committed'
  BY <1>3, ActivateFields DEF Committed, TypeOK
<1>4. ASSUME NEW s \in Status, NEW k \in FailureCode, NEW c,
             \/ journal' = Settle(journal, s, Update({}, {}, c))
             \/ journal' = SettleFailed(journal, s, k)
      PROVE  Committed'
  BY <1>4, SettleFields DEF Committed, TypeOK
<1>5. /\ {"committed", "rolled_back", "blocked"} \subseteq Status
      /\ {"none", "startup_failure", "materialization_commit_cleanup_failed"}
           \subseteq FailureCode
  BY DEF Status, FailureCode
<1>6. CASE Boot
  BY <1>3, <1>6 DEF Boot, BootRollback, BootResume, BootCommitCleanup
<1>7. CASE WriteStep
  BY <1>1, <1>2, <1>7
     DEF WriteStep, BeginStep, IntendSidecar, RecordPreimage, JournalPreimage, WriteTarget,
         WriteReturns, RecordPostimage, JournalPostimage, PersistClaim, IntendUnverifiable,
         RunUnverifiable, durable
<1>8. CASE Rollback
  <2>1. CASE SealRolledBack \/ SealBlocked
    BY <1>4, <1>5, <2>1 DEF SealRolledBack, SealBlocked
  <2>2. CASE \E id \in ActionId : JournalRestored(id)
    BY <1>2, <2>2 DEF JournalRestored
  <2>. QED
    BY <1>1, <1>2, <1>8, <2>1, <2>2
       DEF Rollback, RollbackEntry, RollbackEnds, RestoredEnds, ReconcileClaim,
           JournalReconciled, ReconcileEnds, DiscardSidecar, JournalDiscarded, RetryAttempt,
           durable
<1>9. CASE Commit
  <2>1. CASE CommitGeneration
    <3>1. journal \in Journal /\ "generation_committed" \in Phase
      BY DEF TypeOK, Phase, PhaseRank
    <3>. QED BY <2>1, <3>1, AdvanceFields DEF CommitGeneration, Committed
  <2>2. CASE SealCommitted \/ CleanupFails
    BY <1>4, <1>5, <2>2 DEF SealCommitted, CleanupFails
  <2>. QED
    BY <1>1, <1>2, <1>9, <2>1, <2>2
       DEF Commit, IntendCleanup, CleanupSidecar, JournalCleanup, Announce, Stop, durable
<1>10. CASE Fail \/ Environment \/ UNCHANGED vars
  BY <1>1, <1>10 DEF Fail, Environment, Crash, CrashPersisting, Edit, vars, durable
<1>. QED BY <1>6, <1>7, <1>8, <1>9, <1>10 DEF Next
(* The pending restores change only where their names are recorded. *)
LEMMA PendingKept == journal'.pending = journal.pending => Restores' = Restores
BY DEF Restores

LEMMA RestoresKept ==
  ASSUME journal \in Journal, NEW a, NEW b, NEW c, Record(Update(a, b, c)),
         \A id \in ActionId : Restore(id) \notin b /\ Restore(id) \notin c
  PROVE  Restores' = Restores
<1>1. journal'.pending = (journal.pending \ c) \cup b
  BY RecordFields
<1>. QED BY <1>1 DEF Restores

(* No other step touches what a rollback needs. *)
LEMMA Quiet ==
  ASSUME TypeOK, Phased, [Next]_vars, ~Committed, ~Moving
  PROVE  /\ UNCHANGED <<disk, sidecar, original, foreign, undoing>>
         /\ Restores' = Restores
<1>. DEFINE Still == /\ UNCHANGED <<disk, sidecar, original, foreign, undoing>>
                     /\ Restores' = Restores
<1>0. journal \in Journal
  BY DEF TypeOK
<1>1. CASE Boot
  <2>1. \A action : Activate(journal, action).pending = journal.pending
    BY <1>0, ActivateFields
  <2>. QED BY <1>1, <2>1, PendingKept
           DEF Boot, Moving, BootRollback, BootCommitCleanup, history
<1>2. CASE WriteStep
  <2>1. CASE IntendSidecar
    BY <2>1, <1>0, RestoresKept, CompensationNames DEF IntendSidecar, history
  <2>2. CASE JournalPostimage
    BY <2>2, <1>0, RestoresKept DEF JournalPostimage, history
  <2>3. ASSUME NEW u \in Unit, IntendUnverifiable(u) PROVE Still
    BY <2>3, <1>0, RestoresKept, CompensationNames DEF IntendUnverifiable, history
  <2>. QED
    BY <1>2, <2>1, <2>2, <2>3, PendingKept
       DEF WriteStep, Moving, BeginStep, WriteReturns, PersistClaim, RunUnverifiable,
           durable, history
<1>3. CASE Rollback
  <2>1. CASE JournalReconciled
    <3>1. \A id \in ActionId :
            Restore(id) \notin {Reconcile(k) : k \in ReconcileUnit(pass.persisted)}
      BY CompensationNames DEF ReconcileUnit, Reconciles
    <3>. QED BY <2>1, <3>1, <1>0, RestoresKept DEF JournalReconciled, history
  <2>2. CASE JournalDiscarded
    BY <2>2, <1>0, RestoresKept, CompensationNames DEF JournalDiscarded, history
  <2>3. CASE SealRolledBack
    <3>1. journal'.pending = journal.pending
      BY <2>3, <1>0 DEF SealRolledBack, Settle, ApplyUpdate, Update, Journal
    <3>. QED BY <2>3, <3>1, PendingKept DEF SealRolledBack, history
  <2>4. CASE SealBlocked
    BY <2>4, <1>0, SettleFields, PendingKept DEF SealBlocked, Status, FailureCode, history
  <2>. QED
    BY <1>3, <2>1, <2>2, <2>3, <2>4, PendingKept
       DEF Rollback, Moving, RollbackEnds, RestoredEnds, ReconcileClaim, ReconcileEnds,
           RetryAttempt, durable, history
<1>4. CASE Commit
  <2>1. CASE CommitGeneration
    <3>1. journal'.pending = journal.pending
      BY <2>1, <1>0 DEF CommitGeneration, Advance, ApplyUpdate, Update, Journal
    <3>. QED BY <2>1, <3>1, PendingKept DEF CommitGeneration, history
  <2>2. CASE CleanupFails
    BY <2>2, <1>0, SettleFields, PendingKept DEF CleanupFails, Status, FailureCode, history
  <2>3. pc \notin Sealing
    BY DEF Phased
  <2>. QED
    BY <1>4, <2>1, <2>2, <2>3, PendingKept
       DEF Commit, IntendCleanup, CleanupSidecar, JournalCleanup, SealCommitted, Announce,
           Stop, Sealing, durable, history
<1>5. CASE Fail \/ Environment \/ UNCHANGED vars
  BY <1>5, PendingKept
     DEF Fail, Environment, Moving, Crash, CrashPersisting, vars, durable, history
<1>. QED BY <1>1, <1>2, <1>3, <1>4, <1>5 DEF Next

-----------------------------------------------------------------------------
(* Recoverable, one lemma for each step that matters to it. *)
LEMMA RecoverableBoot ==
  ASSUME IInv, Recoverable, BeginTransaction \/ BootResume PROVE Recoverable'
<1>1. CASE BeginTransaction
  <2>1. sidecar = << >> /\ sidecar' = << >> /\ original' = disk /\ disk' = disk
    BY <1>1 DEF BeginTransaction, IInv, Guarded
  <2>2. Restores' = {}
    BY <1>1, NewJournalFields DEF BeginTransaction, Restores
  <2>3. DOMAIN sidecar' = {}
    BY <2>1
  <2>. QED BY <2>1, <2>2, <2>3 DEF Recoverable, IsBack
<1>2. CASE BootResume
  <2>1. journal'.pending = journal.pending /\ (Committed' <=> Committed)
    BY <1>2, ActivateFields DEF BootResume, Committed, IInv, TypeOK
  <2>2. Restores' = Restores
    BY <2>1, PendingKept
  <2>3. CASE undoing' = "resumed"
    BY <2>3 DEF Recoverable
  <2>4. CASE undoing' # "resumed"
    <3>1. UNCHANGED <<disk, sidecar, original, foreign, undoing>>
      BY <1>2, <2>4 DEF BootResume
    <3>. QED BY <2>1, <2>2, <3>1 DEF Recoverable, CanComeBack, RestoresFirst, IsBack, HasEntry
  <2>. QED BY <2>3, <2>4
<1>. QED BY <1>1, <1>2

LEMMA RecoverablePreimage ==
  ASSUME IInv, Recoverable, Begun, NEW g \in File, RecordPreimage(g) PROVE Recoverable'
<1>. SUFFICES ASSUME ~Committed', undoing' # "resumed", NEW f \in File \ foreign'
              PROVE  CanComeBack(f)' \/ IsBack(f)'
  BY DEF Recoverable
<1>1. /\ UNCHANGED <<disk, journal, original, foreign, undoing>>
      /\ pc = "prepare"
  BY DEF RecordPreimage, history
<1>2. ~Committed /\ undoing = "no" /\ Restores' = Restores
  BY <1>1 DEF Committed, Restores, Begun, Working, IInv, TypeOK
<1>3. /\ DOMAIN sidecar = 1 .. Len(sidecar) /\ Len(sidecar) \in Nat
      /\ DOMAIN sidecar' = 1 .. Len(sidecar) + 1
      /\ \A k \in DOMAIN sidecar : sidecar'[k] = sidecar[k]
      /\ sidecar'[Len(sidecar) + 1].file = g
      /\ sidecar'[Len(sidecar) + 1].preimage = disk[g]
  BY AppendedEntry DEF IInv
<1>4. ASSUME NEW id \in ActionId, RestoresFirst(f, id) PROVE CanComeBack(f)'
  <2>1. 1 .. id.index \subseteq DOMAIN sidecar /\ id.index \in DOMAIN sidecar
    BY <1>4, IndexBelow DEF RestoresFirst, HasEntry, IInv
  <2>2. RestoresFirst(f, id)'
    BY <1>1, <1>2, <1>3, <1>4, <2>1 DEF RestoresFirst, HasEntry
  <2>. QED BY <2>2 DEF CanComeBack
<1>5. ASSUME IsBack(f) PROVE IsBack(f)'
  <2>1. disk'[f] = original'[f]
    BY <1>1, <1>5 DEF IsBack
  <2>2. \A k \in DOMAIN sidecar' : sidecar'[k].file = f => sidecar'[k].preimage = original'[f]
    BY <1>1, <1>2, <1>3, <1>5 DEF IsBack
  <2>3. ASSUME NEW id \in Restores', id.file = f
        PROVE  \E k \in 1 .. id.index : /\ sidecar'[k].file = f
                                        /\ sidecar'[k].preimage = original'[f]
    <3>1. id \in Restores /\ id \in ActionId /\ HasEntry(id)
      BY <1>2 DEF Restores, IInv, Evidenced, PendingWorkHasEvidence
    <3>2. 1 .. id.index \subseteq DOMAIN sidecar
      BY <3>1, IndexBelow DEF IInv
    <3>3. PICK k \in 1 .. id.index : /\ sidecar[k].file = f
                                     /\ sidecar[k].preimage = original[f]
      BY <1>5, <2>3, <3>1 DEF IsBack
    <3>. QED BY <1>1, <1>3, <3>2, <3>3
  <2>. QED BY <2>1, <2>2, <2>3 DEF IsBack
<1>. QED BY <1>1, <1>2, <1>4, <1>5 DEF Recoverable, CanComeBack

LEMMA RecoverableJournalPreimage ==
  ASSUME IInv, Recoverable, Begun, JournalPreimage PROVE Recoverable'
<1>. SUFFICES ASSUME ~Committed', undoing' # "resumed", NEW f \in File \ foreign'
              PROVE  CanComeBack(f)' \/ IsBack(f)'
  BY DEF Recoverable
<1>1. /\ UNCHANGED <<disk, sidecar, original, foreign, undoing>>
      /\ pc = "prepare" /\ step.fresh # NoId /\ step.fresh \in ActionId
  BY DEF JournalPreimage, history, IInv, TypeOK
<1>2. journal' = Advance(journal, journal.phase, Update({}, {Restore(step.fresh)}, {}))
  BY DEF JournalPreimage, Record
<1>3. Restores' = Restores \cup {step.fresh}
  <2>1. journal'.pending = journal.pending \cup {Restore(step.fresh)}
    BY <1>2 DEF Advance, ApplyUpdate, Update, Journal, IInv, TypeOK
  <2>. QED BY <1>1, <2>1, CompensationNames DEF Restores
<1>4. ~Committed /\ undoing = "no" /\ HasEntry(step.fresh)
  <2>1. ~Committed
    BY <1>1 DEF IInv, Phased, Working
  <2>. QED BY <1>1, <2>1 DEF Begun, Working, IInv, TypeOK, Prepared
<1>5. ASSUME NEW id \in ActionId, RestoresFirst(f, id) PROVE CanComeBack(f)'
  <2>1. RestoresFirst(f, id)'
    BY <1>1, <1>3, <1>5 DEF RestoresFirst, HasEntry
  <2>. QED BY <2>1 DEF CanComeBack
<1>6. ASSUME IsBack(f) PROVE IsBack(f)'
  <2>1. step.fresh.index \in 1 .. step.fresh.index /\ step.fresh.index \in DOMAIN sidecar
        /\ sidecar[step.fresh.index].file = step.fresh.file
    BY <1>1, <1>4, IndexBelow DEF IInv
  <2>. QED BY <1>1, <1>3, <1>4, <1>6, <2>1 DEF IsBack
<1>. QED BY <1>1, <1>4, <1>5, <1>6 DEF Recoverable, CanComeBack

LEMMA RecoverableWrite ==
  ASSUME IInv, Recoverable, Begun, Opened,
         NEW id \in ActionId, NEW image \in Image, WriteTarget(id, image)
  PROVE  Recoverable'
<1>. SUFFICES ASSUME ~Committed', undoing' # "resumed", NEW f \in File \ foreign'
              PROVE  CanComeBack(f)' \/ IsBack(f)'
  BY DEF Recoverable
<1>1. /\ UNCHANGED <<journal, sidecar, original, foreign, undoing>>
      /\ pc = "write" /\ id \in step.open
      /\ disk' = [disk EXCEPT ![id.file] = image]
  BY DEF WriteTarget, history
<1>2. ~Committed /\ undoing = "no" /\ Restores' = Restores
  BY <1>1 DEF Committed, Restores, Begun, Working, IInv, TypeOK
<1>3. id \in Restores /\ HasEntry(id)
  BY <1>1 DEF Opened, IInv, Prepared
<1>4. ASSUME NEW k \in ActionId, RestoresFirst(f, k) PROVE CanComeBack(f)'
  <2>1. RestoresFirst(f, k)'
    BY <1>1, <1>2, <1>4 DEF RestoresFirst, HasEntry
  <2>. QED BY <2>1 DEF CanComeBack
<1>5. ASSUME IsBack(f), f # id.file PROVE IsBack(f)'
  <2>1. disk'[f] = disk[f]
    BY <1>1, <1>5 DEF IInv, TypeOK
  <2>. QED BY <1>1, <1>2, <1>5, <2>1 DEF IsBack
<1>6. ASSUME IsBack(f), f = id.file PROVE CanComeBack(f)'
  <2>1. 1 .. id.index \subseteq DOMAIN sidecar
    BY <1>3, IndexBelow DEF IInv
  <2>2. RestoresFirst(f, id)
    BY <1>2, <1>3, <1>6, <2>1 DEF RestoresFirst, IsBack
  <2>. QED BY <2>2, <1>4
<1>. QED BY <1>1, <1>2, <1>4, <1>5, <1>6 DEF Recoverable, CanComeBack

LEMMA RecoverablePostimage ==
  ASSUME IInv, Recoverable, NEW id \in ActionId, RecordPostimage(id) PROVE Recoverable'
<1>1. UNCHANGED <<disk, journal, original, foreign, undoing>>
  BY DEF RecordPostimage, history
<1>2. (Committed' <=> Committed) /\ Restores' = Restores
  BY <1>1 DEF Committed, Restores
<1>3. /\ DOMAIN sidecar' = DOMAIN sidecar
      /\ \A k \in DOMAIN sidecar : /\ sidecar'[k].file = sidecar[k].file
                                   /\ sidecar'[k].preimage = sidecar[k].preimage
  BY CompletedEntry DEF IInv
<1>4. \A k \in Restores : k \in ActionId /\ HasEntry(k) /\ 1 .. k.index \subseteq DOMAIN sidecar
  BY IndexBelow DEF Restores, IInv, Evidenced, PendingWorkHasEvidence
<1>5. ASSUME NEW f \in File, CanComeBack(f) PROVE CanComeBack(f)'
  <2>1. PICK k \in ActionId : RestoresFirst(f, k)
    BY <1>5 DEF CanComeBack
  <2>2. RestoresFirst(f, k)'
    BY <1>1, <1>2, <1>3, <1>4, <2>1 DEF RestoresFirst, HasEntry
  <2>. QED BY <2>2 DEF CanComeBack
<1>6. ASSUME NEW f \in File, IsBack(f) PROVE IsBack(f)'
  BY <1>1, <1>2, <1>3, <1>4, <1>6 DEF IsBack
<1>. QED BY <1>1, <1>2, <1>5, <1>6 DEF Recoverable

(* What a rollback step leaves of a file it does not own. *)
LEMMA RollbackDisk ==
  ASSUME IInv, Ordered, NEW id \in ActionId, RollbackEntry(id)
  PROVE  /\ UNCHANGED <<journal, sidecar, original, foreign, undoing, pc>>
         /\ pc = "rollback" /\ id \in pass.todo /\ id \in Restores /\ HasEntry(id)
         /\ \A f \in File : f # id.file \/ ~Intact(id) => disk'[f] = disk[f]
         /\ Intact(id) => disk'[id.file] = sidecar[id.index].preimage
<1>1. /\ UNCHANGED <<journal, sidecar, original, foreign, undoing, pc>>
      /\ pc = "rollback" /\ id \in pass.todo
      /\ disk' = IF Intact(id)
                 THEN [disk EXCEPT ![id.file] = sidecar[id.index].preimage] ELSE disk
  BY DEF RollbackEntry, Latest, history
<1>2. id \in Restores /\ HasEntry(id) /\ id.file \in File /\ disk \in [File -> Image]
  BY <1>1 DEF Ordered, IInv, Evidenced, PendingWorkHasEvidence, TypeOK, ActionId
<1>. QED BY <1>1, <1>2

LEMMA RecoverableRollback ==
  ASSUME IInv, Recoverable, Ordered, NEW id \in ActionId, RollbackEntry(id)
  PROVE  Recoverable'
<1>. SUFFICES ASSUME ~Committed', undoing' # "resumed", NEW f \in File \ foreign'
              PROVE  CanComeBack(f)' \/ IsBack(f)'
  BY DEF Recoverable
<1>1. /\ UNCHANGED <<journal, sidecar, original, foreign, undoing, pc>>
      /\ id \in Restores /\ HasEntry(id)
      /\ \A g \in File : g # id.file \/ ~Intact(id) => disk'[g] = disk[g]
  BY RollbackDisk
<1>2. ~Committed /\ Restores' = Restores
  BY <1>1 DEF Committed, Restores
<1>3. ASSUME NEW k \in ActionId, RestoresFirst(f, k) PROVE CanComeBack(f)'
  <2>1. RestoresFirst(f, k)'
    BY <1>1, <1>2, <1>3 DEF RestoresFirst, HasEntry
  <2>. QED BY <2>1 DEF CanComeBack
<1>4. ASSUME IsBack(f) PROVE IsBack(f)'
  <2>1. f = id.file => ~Intact(id)
    BY <1>1, <1>4 DEF IsBack, Intact, AlreadyRestored
  <2>2. disk'[f] = disk[f]
    BY <1>1, <2>1
  <2>. QED BY <1>1, <1>2, <1>4, <2>2 DEF IsBack
<1>. QED BY <1>1, <1>2, <1>3, <1>4 DEF Recoverable, CanComeBack

(* Journalling a restored file drops its restore and nothing else. *)
LEMMA RestoredFields ==
  ASSUME IInv, Ordered, NEW id \in ActionId, JournalRestored(id)
  PROVE  /\ UNCHANGED <<disk, sidecar, original, foreign, pc>>
         /\ pc = "restored" /\ id \in pass.done /\ pass' = [pass EXCEPT !.done = @ \ {id}]
         /\ id \in Restores /\ HasEntry(id) /\ Restores' = Restores \ {id}
         /\ Discard \in journal'.pending /\ (Committed' <=> Committed)
         /\ undoing' = IF undoing = "no" THEN "begun" ELSE undoing
<1>1. /\ UNCHANGED <<disk, sidecar, original, foreign, pc>>
      /\ pc = "restored" /\ id \in pass.done /\ pass' = [pass EXCEPT !.done = @ \ {id}]
      /\ undoing' = IF undoing = "no" THEN "begun" ELSE undoing
  BY DEF JournalRestored, Latest
<1>2. PICK b : /\ b \in {{Reconcile(id)}, {}}
               /\ Record(Update({}, b, {Restore(id)}))
  BY DEF JournalRestored
<1>3. journal'.pending = (journal.pending \ {Restore(id)}) \cup b /\ (Committed' <=> Committed)
  BY <1>2, RecordFields, RecordKeepsCommitted DEF IInv, TypeOK
<1>4. id \in Restores /\ HasEntry(id) /\ sidecar # << >>
  BY <1>1 DEF Ordered, IInv, Evidenced, PendingWorkHasEvidence, HasEntry
<1>5. Discard \in journal'.pending
  BY <1>3, <1>4, CompensationNames DEF IInv, Guarded
<1>6. Restores' = Restores \ {id}
  BY <1>2, <1>3, CompensationNames DEF Restores
<1>. QED BY <1>1, <1>3, <1>4, <1>5, <1>6

LEMMA RecoverableRestored ==
  ASSUME IInv, Recoverable, Ordered, NEW id \in ActionId, JournalRestored(id)
  PROVE  Recoverable'
<1>. SUFFICES ASSUME ~Committed', undoing' # "resumed", NEW f \in File \ foreign'
              PROVE  CanComeBack(f)' \/ IsBack(f)'
  BY DEF Recoverable
<1>1. /\ UNCHANGED <<disk, sidecar, original, foreign, pc>>
      /\ id \in pass.done
      /\ id \in Restores /\ HasEntry(id) /\ Restores' = Restores \ {id}
      /\ (Committed' <=> Committed)
      /\ undoing' # "no" /\ undoing # "resumed"
  BY RestoredFields DEF IInv, TypeOK
<1>2. ASSUME IsBack(f) PROVE IsBack(f)'
  BY <1>1, <1>2 DEF IsBack
<1>3. ASSUME NEW k \in ActionId, RestoresFirst(f, k), k # id PROVE CanComeBack(f)'
  <2>1. RestoresFirst(f, k)'
    BY <1>1, <1>3 DEF RestoresFirst, HasEntry
  <2>. QED BY <2>1 DEF CanComeBack
<1>4. ASSUME RestoresFirst(f, id) PROVE IsBack(f)'
  <2>1. id.file = f
        /\ \A k \in 1 .. id.index : sidecar[k].file = f => sidecar[k].preimage = original[f]
    BY <1>4 DEF RestoresFirst
  <2>2. AlreadyRestored(id)
    BY <1>1, <2>1 DEF Ordered
  <2>3. disk[f] = original[f]
    BY <2>1, <2>2 DEF AlreadyRestored
  <2>4. ASSUME NEW k \in Restores, k.file = f
        PROVE  \E n \in 1 .. k.index : sidecar[n].file = f /\ sidecar[n].preimage = original[f]
    <3>1. k \in ActionId /\ HasEntry(k) /\ sidecar[k.index].file = f
      BY <2>4 DEF Restores, IInv, Evidenced, PendingWorkHasEvidence, HasEntry
    <3>2. /\ k.index \in 1 .. k.index /\ k.index \in Nat
          /\ id.index \in 1 .. id.index /\ id.index \in Nat
          /\ sidecar[id.index].file = f
      BY <1>1, <2>1, <3>1, IndexBelow DEF IInv
    <3>3. CASE k.index < id.index
      BY <2>1, <3>1, <3>2, <3>3
    <3>4. CASE id.index <= k.index
      BY <2>1, <3>2, <3>4
    <3>. QED BY <3>2, <3>3, <3>4
  <2>. QED BY <1>1, <2>3, <2>4 DEF IsBack
<1>. QED BY <1>1, <1>2, <1>3, <1>4 DEF Recoverable, CanComeBack

LEMMA RecoverableDiscard ==
  ASSUME IInv, Recoverable, DiscardSidecar PROVE Recoverable'
<1>1. /\ UNCHANGED <<disk, journal, original, foreign>>
      /\ sidecar' = << >> /\ Restores = {} /\ ~Committed
      /\ undoing = "resumed" => undoing' = "resumed"
  BY DEF DiscardSidecar, IInv, Evidenced, Phased, Undoing
<1>2. Restores' = {} /\ DOMAIN sidecar' = {}
  BY <1>1 DEF Restores
<1>3. \A f \in File : ~CanComeBack(f)
  BY <1>1 DEF CanComeBack, RestoresFirst
<1>. QED BY <1>1, <1>2, <1>3 DEF Recoverable, IsBack

LEMMA RecoverableEdit ==
  ASSUME IInv, Recoverable, NEW g \in File, NEW image \in Image, Edit(g, image)
  PROVE  Recoverable'
<1>1. /\ UNCHANGED <<sidecar, journal, original, undoing>>
      /\ foreign' = foreign \cup {g}
      /\ \A f \in File \ {g} : disk'[f] = disk[f]
  BY DEF Edit, IInv, TypeOK
<1>2. (Committed' <=> Committed) /\ Restores' = Restores
  BY <1>1 DEF Committed, Restores
<1>. QED BY <1>1, <1>2 DEF Recoverable, CanComeBack, RestoresFirst, IsBack, HasEntry

LEMMA RecoverableNext ==
  ASSUME IInv, Recoverable, Ordered, Begun, Opened, [Next]_vars PROVE Recoverable'
<1>1. CASE Committed'
  BY <1>1 DEF Recoverable
<1>2. CASE ~Moving /\ ~Committed
  BY <1>2, Quiet, CommittedLasts
     DEF Recoverable, CanComeBack, RestoresFirst, IsBack, HasEntry, IInv, Moving
<1>3. CASE CleanupSidecar
  BY <1>3 DEF CleanupSidecar, IInv, Phased, Sealing, Recoverable, Committed
<1>4. CASE Committed /\ ~Committed' /\ ~BeginTransaction
  BY <1>4, CommittedLasts DEF IInv
<1>. QED
  BY <1>1, <1>2, <1>3, <1>4, RecoverableBoot, RecoverablePreimage, RecoverableJournalPreimage,
     RecoverableWrite, RecoverablePostimage, RecoverableRollback, RecoverableRestored,
     RecoverableDiscard, RecoverableEdit
     DEF Moving

-----------------------------------------------------------------------------
(* Where a rollback is under way, and what ends it. *)
LEMMA PassKept ==
  ASSUME TypeOK, Phased, [Next]_vars
  PROVE  \/ /\ pass' = pass /\ pc' = pc
         \/ /\ pass' = pass /\ pc # "rollback"
            /\ pc' \notin {"rollback", "restored"}
         \/ RollbackEnds
         \/ pc' \notin {"rollback", "restored"} /\ pass' = NoPass
         \/ /\ pc' = "rollback" /\ pass'.todo = Restores' /\ pass'.done = {}
            /\ pc \in Working \cup {"down"}
         \/ \E id \in ActionId : RollbackEntry(id) \/ JournalRestored(id)
         \/ /\ pc = "reconcile" /\ pc' = "reconcile"
            /\ pass'.todo = pass.todo /\ pass'.done = pass.done
<1>1. CASE Boot
  <2>1. CASE BootRollback
    <3>1. journal'.pending = journal.pending
      BY <2>1, ActivateFields DEF BootRollback, TypeOK
    <3>2. Restores' = Restores
      BY <3>1, PendingKept
    <3>3. pc = "down" /\ pc' = "rollback" /\ pass' = StartPass(TRUE)
      BY <2>1 DEF BootRollback
    <3>. QED BY <3>2, <3>3 DEF StartPass, NoPass
  <2>. QED BY <1>1, <2>1 DEF Boot, BeginTransaction, BootResume, BootCommitCleanup
<1>2. CASE WriteStep
  BY <1>2
     DEF WriteStep, BeginStep, IntendSidecar, RecordPreimage, JournalPreimage, WriteTarget,
         WriteReturns, RecordPostimage, JournalPostimage, PersistClaim, IntendUnverifiable,
         RunUnverifiable
<1>3. CASE Rollback
  BY <1>3
     DEF Rollback, RestoredEnds, ReconcileClaim, JournalReconciled, ReconcileEnds,
         DiscardSidecar, JournalDiscarded, RetryAttempt, SealRolledBack, SealBlocked, TypeOK
<1>4. CASE Commit
  BY <1>4
     DEF Commit, CommitGeneration, IntendCleanup, CleanupSidecar, JournalCleanup,
         SealCommitted, CleanupFails, Announce, Stop
<1>5. CASE Fail
  <2>1. /\ Restores' = Restores /\ pc \in Working /\ pc' = "rollback"
        /\ pass' = StartPass(FALSE)
    BY <1>5 DEF Fail, Restores, durable, Working
  <2>. QED BY <2>1 DEF StartPass, NoPass
<1>6. CASE Environment \/ UNCHANGED vars
  BY <1>6 DEF Environment, Crash, CrashPersisting, Edit, vars
<1>. QED BY <1>1, <1>2, <1>3, <1>4, <1>5, <1>6 DEF Next

LEMMA OrderedEntry ==
  ASSUME IInv, Ordered, NEW id \in ActionId, RollbackEntry(id) PROVE Ordered'
<1>1. /\ UNCHANGED <<journal, sidecar, foreign, pc>>
      /\ pc = "rollback" /\ id \in pass.todo /\ id \in Restores /\ HasEntry(id)
      /\ \A f \in File : f # id.file \/ ~Intact(id) => disk'[f] = disk[f]
      /\ Intact(id) => disk'[id.file] = sidecar[id.index].preimage
  BY RollbackDisk
<1>2. /\ pass'.todo = pass.todo \ {id}
      /\ pass'.done = IF Undone(id) THEN pass.done \cup {id} ELSE pass.done
      /\ \A b \in pass.todo : b.index <= id.index
  BY DEF RollbackEntry, Latest, IInv, TypeOK
<1>3. Restores' = Restores
  BY <1>1 DEF Restores
<1>4. \A a \in Restores \ pass'.todo, b \in pass'.todo : b.index <= a.index
  BY <1>1, <1>2 DEF Ordered
<1>5. ASSUME NEW d \in pass.done PROVE d.file \in foreign \/ AlreadyRestored(d)'
  <2>1. d \in Restores \ pass.todo /\ d \in ActionId /\ HasEntry(d)
    BY DEF Ordered, Restores, IInv, Evidenced
  <2>2. id.index <= d.index /\ d.index \in Nat /\ id.index \in 1 .. id.index
        /\ d.file \in File /\ id.index \in Nat /\ sidecar[id.index].file = id.file
    BY <1>1, <2>1, IndexBelow DEF Ordered, IInv, ActionId
  <2>3. CASE d.file # id.file \/ ~Intact(id)
    BY <1>1, <2>2, <2>3 DEF Ordered, AlreadyRestored
  <2>4. CASE d.file = id.file /\ Intact(id)
    BY <1>1, <2>2, <2>4 DEF AlreadyRestored
  <2>. QED BY <2>3, <2>4
<1>6. ASSUME Undone(id) PROVE AlreadyRestored(id)'
  <2>1. id.index \in 1 .. id.index /\ sidecar[id.index].file = id.file /\ id.file \in File
    BY <1>1, IndexBelow DEF IInv, ActionId
  <2>2. CASE Intact(id)
    BY <1>1, <2>1, <2>2 DEF AlreadyRestored
  <2>3. CASE Restored(id)
    BY <1>1, <2>1, <2>3 DEF Restored, Intact, AlreadyRestored
  <2>. QED BY <1>6, <2>2, <2>3 DEF Undone
<1>. QED BY <1>1, <1>2, <1>3, <1>4, <1>5, <1>6 DEF Ordered

LEMMA OrderedRestored ==
  ASSUME IInv, Ordered, NEW id \in ActionId, JournalRestored(id) PROVE Ordered'
<1>1. /\ UNCHANGED <<disk, sidecar, foreign, pc>>
      /\ pc = "restored" /\ Restores' = Restores \ {id}
      /\ pass' = [pass EXCEPT !.done = @ \ {id}]
  BY RestoredFields
<1>2. pass'.todo = {} /\ pass'.done = pass.done \ {id}
  BY <1>1 DEF Ordered, IInv, TypeOK
<1>. QED BY <1>1, <1>2 DEF Ordered, AlreadyRestored

LEMMA OrderedNext ==
  ASSUME IInv, Ordered, [Next]_vars PROVE Ordered'
<1>0. IInv' /\ TypeOK /\ Phased
  BY NextIInv DEF IInv
<1>1. CASE pc' \notin {"rollback", "restored"}
  <2>1. pass'.done = {}
    BY <1>0, <1>1 DEF IInv, Evidenced
  <2>2. pass'.todo = {}
    <3>1. ASSUME NEW id \in ActionId, RollbackEntry(id) \/ JournalRestored(id) PROVE FALSE
      BY <1>1, <3>1 DEF RollbackEntry, JournalRestored
    <3>2. ~RollbackEnds
      BY <1>1 DEF RollbackEnds
    <3>3. pc # "rollback" => pass.todo = {}
      BY DEF Ordered
    <3>. QED BY <1>0, <1>1, <3>1, <3>2, <3>3, PassKept DEF NoPass
  <2>. QED BY <1>1, <2>1, <2>2 DEF Ordered
<1>2. CASE /\ pc' \in {"rollback", "restored"} /\ pc' = pc /\ pass' = pass
  <2>0. ~Committed
    BY <1>0, <1>2 DEF Phased, Undoing
  <2>1. CASE ~Moving
    BY <1>0, <1>2, <2>0, <2>1, Quiet DEF Ordered, AlreadyRestored
  <2>2. ASSUME NEW f \in File, NEW image \in Image, Edit(f, image) PROVE Ordered'
    <3>1. /\ UNCHANGED <<sidecar, journal>> /\ foreign' = foreign \cup {f}
          /\ \A g \in File \ {f} : disk'[g] = disk[g]
      BY <2>2 DEF Edit, IInv, TypeOK
    <3>2. Restores' = Restores
      BY <3>1 DEF Restores
    <3>3. ASSUME NEW d \in pass.done PROVE d.file \in foreign' \/ AlreadyRestored(d)'
      <4>1. d.file \in File
        BY DEF IInv, TypeOK, ActionId
      <4>. QED BY <3>1, <4>1 DEF Ordered, AlreadyRestored
    <3>. QED BY <1>2, <3>2, <3>3 DEF Ordered
  <2>3. ASSUME NEW id \in ActionId, RollbackEntry(id) \/ JournalRestored(id) PROVE Ordered'
    BY <2>3, OrderedEntry, OrderedRestored
  <2>. QED
    BY <1>2, <2>1, <2>2, <2>3
       DEF Moving, BeginTransaction, BootResume, RecordPreimage, JournalPreimage, WriteTarget,
           RecordPostimage, DiscardSidecar, CleanupSidecar
<1>3. CASE RollbackEnds
  BY <1>3 DEF RollbackEnds, durable, history, Ordered, Restores, AlreadyRestored
<1>4. CASE pc' # "rollback" /\ pass' = NoPass
  BY <1>4 DEF NoPass, Ordered
<1>5. CASE pc' = "rollback" /\ pass'.todo = Restores' /\ pass'.done = {}
  BY <1>5 DEF Ordered
<1>6. ASSUME NEW id \in ActionId, RollbackEntry(id) \/ JournalRestored(id) PROVE Ordered'
  BY <1>6, OrderedEntry, OrderedRestored
<1>. QED BY <1>0, <1>1, <1>2, <1>3, <1>4, <1>5, <1>6, PassKept

-----------------------------------------------------------------------------
LEMMA OpenedNext ==
  ASSUME IInv, Opened, [Next]_vars PROVE Opened'
<1>0. IInv' /\ TypeOK /\ Phased
  BY NextIInv DEF IInv
<1>1. CASE pc' \notin {"prepare", "write", "record"}
  BY <1>0, <1>1 DEF IInv, Prepared, Opened
<1>2. CASE WriteStep
  <2>0. ~Committed
    BY <1>0, <1>2
       DEF Phased, Working, WriteStep, BeginStep, IntendSidecar, RecordPreimage,
           JournalPreimage, WriteTarget, WriteReturns, RecordPostimage, JournalPostimage,
           PersistClaim, IntendUnverifiable, RunUnverifiable
  <2>1. CASE JournalPreimage
    <3>1. step'.open = step.open \cup {step.fresh} /\ step.fresh \in ActionId
      BY <2>1, <1>0 DEF JournalPreimage, TypeOK
    <3>2. journal'.pending = (journal.pending \ {}) \cup {Restore(step.fresh)}
      BY <2>1, <1>0 DEF JournalPreimage, Record, Advance, ApplyUpdate, Update, Journal, TypeOK
    <3>. QED BY <3>1, <3>2 DEF Opened, Restores
  <2>2. ASSUME \/ \E f \in File : RecordPreimage(f)
               \/ \E id \in ActionId, image \in Image : WriteTarget(id, image)
               \/ \E id \in ActionId : RecordPostimage(id)
        PROVE  Opened'
    <3>1. Restores' = Restores
      BY <2>2 DEF RecordPreimage, WriteTarget, RecordPostimage, Restores
    <3>2. step'.open \subseteq step.open
      <4>1. ASSUME NEW f \in File, RecordPreimage(f) PROVE step'.open = step.open
        BY <1>0, <4>1 DEF RecordPreimage, TypeOK
      <4>2. ASSUME NEW id \in ActionId, RecordPostimage(id)
            PROVE  step'.open = step.open \ {id}
        BY <1>0, <4>2 DEF RecordPostimage, TypeOK
      <4>. QED BY <2>2, <4>1, <4>2 DEF WriteTarget
    <3>. QED BY <3>1, <3>2 DEF Opened
  <2>3. ASSUME ~Moving PROVE Opened'
    <3>1. Restores' = Restores
      BY <1>0, <2>0, <2>3, Quiet
    <3>2. CASE step'.open = {}
      BY <3>2 DEF Opened
    <3>3. ASSUME NEW u \in Unit, NEW outputs, BeginStep(u, outputs) PROVE step'.open = {}
      BY <3>3 DEF BeginStep, NoStep
    <3>4. CASE PersistClaim
      BY <3>2, <3>4 DEF PersistClaim, NoStep
    <3>5. CASE JournalPostimage
      <4>1. step'.open = step.open
        BY <1>0, <3>5 DEF JournalPostimage, TypeOK
      <4>. QED BY <3>1, <4>1 DEF Opened
    <3>6. CASE step' = step
      BY <3>1, <3>6 DEF Opened
    <3>. QED
      BY <1>2, <2>3, <3>2, <3>3, <3>4, <3>5, <3>6
         DEF WriteStep, Moving, IntendSidecar, WriteReturns, IntendUnverifiable, RunUnverifiable
  <2>4. CASE Moving /\ ~JournalPreimage
    <3>1. pc \in Working
      BY <1>2
         DEF Working, WriteStep, BeginStep, IntendSidecar, RecordPreimage, JournalPreimage,
             WriteTarget, WriteReturns, RecordPostimage, JournalPostimage, PersistClaim,
             IntendUnverifiable, RunUnverifiable
    <3>2. CASE \E f \in File, image \in Image : Edit(f, image)
      BY <3>2 DEF Edit, Opened, Restores
    <3>. QED
      BY <2>2, <2>4, <3>1, <3>2
         DEF Working, Moving, BeginTransaction, BootResume, RollbackEntry, JournalRestored,
             DiscardSidecar, CleanupSidecar
  <2>. QED BY <2>1, <2>3, <2>4
<1>3. ASSUME NEW f \in File, NEW image \in Image, Edit(f, image) PROVE Opened'
  BY <1>3 DEF Edit, Opened, Restores
<1>4. CASE UNCHANGED vars
  BY <1>4 DEF vars, durable, Opened, Restores
<1>5. ASSUME pc' \in {"prepare", "write", "record"}
      PROVE  WriteStep \/ (\E f \in File, image \in Image : Edit(f, image)) \/ UNCHANGED vars
  BY <1>5
     DEF Next, Boot, BeginTransaction, BootRollback, BootResume, BootCommitCleanup, Fail,
         Rollback, RollbackEntry, JournalRestored, RollbackEnds, RestoredEnds, ReconcileClaim,
         JournalReconciled, ReconcileEnds, DiscardSidecar, JournalDiscarded, RetryAttempt,
         SealRolledBack, SealBlocked, Commit, CommitGeneration, IntendCleanup, CleanupSidecar,
         JournalCleanup, SealCommitted, CleanupFails, Announce, Stop, Environment, Crash,
         CrashPersisting
<1>. QED BY <1>1, <1>2, <1>3, <1>4, <1>5

LEMMA UndoingKept ==
  ASSUME TypeOK, [Next]_vars
  PROVE  \/ undoing' = undoing
         \/ BeginTransaction \/ BootResume \/ DiscardSidecar
         \/ \E id \in ActionId : JournalRestored(id)
<1>1. CASE Boot \/ Fail
  BY <1>1 DEF Boot, BootRollback, BootCommitCleanup, Fail, history
<1>2. CASE WriteStep
  BY <1>2
     DEF WriteStep, BeginStep, IntendSidecar, RecordPreimage, JournalPreimage, WriteTarget,
         WriteReturns, RecordPostimage, JournalPostimage, PersistClaim, IntendUnverifiable,
         RunUnverifiable, history
<1>3. CASE Rollback
  BY <1>3
     DEF Rollback, RollbackEntry, RollbackEnds, RestoredEnds, ReconcileClaim,
         JournalReconciled, ReconcileEnds, JournalDiscarded, RetryAttempt, SealRolledBack,
         SealBlocked, history
<1>4. CASE Commit
  BY <1>4
     DEF Commit, CommitGeneration, IntendCleanup, CleanupSidecar, JournalCleanup,
         SealCommitted, CleanupFails, Announce, Stop, history
<1>5. CASE Environment \/ UNCHANGED vars
  BY <1>5 DEF Environment, Crash, CrashPersisting, Edit, vars, history
<1>. QED BY <1>1, <1>2, <1>3, <1>4, <1>5 DEF Next

LEMMA BegunNext ==
  ASSUME IInv, Begun, Ordered, [Next]_vars PROVE Begun'
<1>. DEFINE Goes == Discard \in journal'.pending /\ pc' \notin Working \cup {"discarded"}
<1>. SUFFICES ASSUME undoing' = "begun", ~Committed' PROVE Goes
  BY DEF Begun, Working
<1>0. TypeOK /\ Phased /\ journal \in Journal
  BY DEF IInv, TypeOK
<1>1. ASSUME NEW id \in ActionId, JournalRestored(id) PROVE Goes
  BY <1>1, RestoredFields DEF Working
<1>2. CASE undoing' = undoing /\ ~BeginTransaction
  <2>0. ~Committed /\ undoing = "begun"
    BY <1>0, <1>2, CommittedLasts
  <2>1. Discard \in journal.pending /\ pc \notin Working \cup {"discarded"} \cup Sealing
    BY <1>0, <2>0 DEF Begun, Phased
  <2>2. CASE BootRollback \/ BootCommitCleanup
    BY <1>0, <2>1, <2>2, ActivateFields DEF BootRollback, BootCommitCleanup, Working
  <2>3. CASE BootResume
    BY <1>2, <2>0, <2>3 DEF BootResume
  <2>4. ~WriteStep /\ ~Fail
    BY <2>1
       DEF Working, WriteStep, BeginStep, IntendSidecar, RecordPreimage, JournalPreimage,
           WriteTarget, WriteReturns, RecordPostimage, JournalPostimage, PersistClaim,
           IntendUnverifiable, RunUnverifiable, Fail
  <2>5. CASE Rollback
    <3>1. CASE JournalReconciled
      <4>1. PICK c : /\ Record(Update({}, {}, c))
                     /\ c = {Reconcile(id) : id \in ReconcileUnit(pass.persisted)}
        BY <3>1 DEF JournalReconciled
      <4>2. Discard \notin c
        BY <4>1, CompensationNames DEF ReconcileUnit, Reconciles
      <4>3. Discard \in journal'.pending
        BY <1>0, <2>1, <4>1, <4>2, RecordFields
      <4>. QED BY <3>1, <4>3 DEF JournalReconciled, Working
    <3>2. CASE SealRolledBack
      BY <1>0, <2>1, <3>2
         DEF SealRolledBack, Settle, ApplyUpdate, Update, Journal, Working
    <3>3. CASE SealBlocked
      BY <1>0, <2>1, <3>3
         DEF SealBlocked, SettleFailed, Settle, ApplyUpdate, Update, Journal, Working
    <3>4. ~RetryAttempt /\ ~JournalDiscarded
      BY <2>1 DEF RetryAttempt, JournalDiscarded
    <3>5. CASE DiscardSidecar
      BY <1>2, <2>0, <3>5 DEF DiscardSidecar
    <3>. QED
      BY <1>1, <2>1, <2>5, <3>1, <3>2, <3>3, <3>4, <3>5
         DEF Rollback, RollbackEntry, RollbackEnds, RestoredEnds, ReconcileClaim,
             ReconcileEnds, durable, Working
  <2>6. CASE Commit
    <3>1. CASE CleanupFails
      BY <1>0, <2>1, <3>1
         DEF CleanupFails, SettleFailed, Settle, ApplyUpdate, Update, Journal, Working
    <3>. QED
      BY <2>1, <2>6, <3>1
         DEF Commit, CommitGeneration, IntendCleanup, CleanupSidecar, JournalCleanup,
             SealCommitted, Announce, Stop, durable, Working, Sealing
  <2>7. CASE Environment \/ UNCHANGED vars
    BY <2>1, <2>7 DEF Environment, Crash, CrashPersisting, Edit, vars, durable, Working
  <2>. QED BY <1>2, <2>2, <2>3, <2>4, <2>5, <2>6, <2>7 DEF Next, Boot
<1>3. CASE BeginTransaction \/ BootResume \/ DiscardSidecar
  BY <1>3, <1>2 DEF BeginTransaction, BootResume, DiscardSidecar
<1>. QED BY <1>0, <1>1, <1>2, <1>3, UndoingKept

-----------------------------------------------------------------------------
LEMMA ClosedNext ==
  ASSUME IInv, Closed, [Next]_vars PROVE Closed'
<1>0. TypeOK /\ Phased /\ journal \in Journal
  BY DEF IInv, TypeOK
<1>1. ASSUME journal' = journal, pc' = pc PROVE Closed'
  BY <1>1 DEF Closed, Committed
<1>2. ASSUME journal'.status = journal.status, pc # "down", pc' # "announce" PROVE Closed'
  <2>1. ~BeginTransaction
    BY <1>2 DEF BeginTransaction
  <2>. QED BY <1>0, <1>2, <2>1, CommittedLasts DEF Closed
<1>3. ASSUME NEW a, NEW b, NEW c, Record(Update(a, b, c))
      PROVE  journal'.status = journal.status
  BY <1>0, <1>3, RecordFields
<1>4. CASE Boot
  BY <1>0, <1>4, ActivateFields, NewJournalFields
     DEF Boot, BeginTransaction, BootRollback, BootResume, BootCommitCleanup, Closed
<1>5. CASE WriteStep
  BY <1>2, <1>3, <1>5
     DEF WriteStep, BeginStep, IntendSidecar, RecordPreimage, JournalPreimage, WriteTarget,
         WriteReturns, RecordPostimage, JournalPostimage, PersistClaim, IntendUnverifiable,
         RunUnverifiable, durable
<1>6. CASE Rollback
  <2>1. CASE SealRolledBack
    <3>1. /\ journal'.status = "rolled_back" /\ journal'.pending = {}
          /\ journal'.phase = journal.phase /\ journal'.completed = journal.completed
          /\ pc' = "down" /\ pc = "seal"
      BY <1>0, <2>1 DEF SealRolledBack, CanSettle, Settle, ApplyUpdate, Update, Journal
    <3>2. ~Committed /\ ~Committed'
      BY <1>0, <3>1 DEF Phased, Undoing, Committed
    <3>. QED BY <3>1, <3>2 DEF Closed
  <2>2. CASE SealBlocked
    <3>1. journal'.status = "blocked" /\ pc' = "down"
      BY <1>0, <2>2 DEF SealBlocked, SettleFailed, Settle, ApplyUpdate, Update, Journal
    <3>. QED BY <3>1 DEF Closed
  <2>. QED
    BY <1>2, <1>3, <1>6, <2>1, <2>2
       DEF Rollback, RollbackEntry, JournalRestored, RollbackEnds, RestoredEnds,
           ReconcileClaim, JournalReconciled, ReconcileEnds, DiscardSidecar,
           JournalDiscarded, RetryAttempt, durable
<1>7. CASE Commit
  <2>1. CASE CommitGeneration
    <3>1. journal'.status = journal.status /\ pc' = "cleanup" /\ pc = "open"
      BY <1>0, <2>1 DEF CommitGeneration, Advance, ApplyUpdate, Update, Journal
    <3>. QED BY <1>2, <3>1
  <2>2. CASE SealCommitted
    <3>1. journal'.status = "committed" /\ pc \in Sealing /\ ~BeginTransaction
      BY <1>0, <2>2
         DEF SealCommitted, Settle, ApplyUpdate, Update, Journal, Sealing, BeginTransaction
    <3>2. Committed'
      BY <1>0, <3>1, CommittedLasts DEF Phased
    <3>. QED BY <3>1, <3>2 DEF Closed
  <2>3. CASE CleanupFails
    <3>1. journal'.status = "blocked" /\ pc' \in {"down", "running"}
      BY <1>0, <2>3 DEF CleanupFails, SettleFailed, Settle, ApplyUpdate, Update, Journal
    <3>. QED BY <3>1 DEF Closed
  <2>. QED
    BY <1>2, <1>3, <1>7, <2>1, <2>2, <2>3
       DEF Commit, IntendCleanup, CleanupSidecar, JournalCleanup, Announce, Stop, durable
<1>8. CASE Fail \/ Environment \/ UNCHANGED vars
  BY <1>1, <1>2, <1>8 DEF Fail, Environment, Crash, CrashPersisting, Edit, vars, durable
<1>. QED BY <1>4, <1>5, <1>6, <1>7, <1>8 DEF Next
-----------------------------------------------------------------------------
(* Unspoiled, for the steps that matter to it. *)
LEMMA UnspoiledEntry ==
  ASSUME IInv, Ordered, Unspoiled, NEW id \in ActionId, RollbackEntry(id) PROVE Unspoiled'
<1>. SUFFICES ASSUME foreign' = {}
              PROVE  /\ undoing' # "resumed"
                     /\ \A a \in Restores' \ pass'.todo : Handled(a)'
                     /\ \E a \in Restores' : Handled(a)'
                     /\ pc' = "rollback"
  BY DEF Unspoiled
<1>1. /\ UNCHANGED <<journal, sidecar, foreign, pc, undoing>>
      /\ pc = "rollback" /\ id \in pass.todo /\ id \in Restores /\ HasEntry(id)
      /\ \A f \in File : f # id.file \/ ~Intact(id) => disk'[f] = disk[f]
      /\ Intact(id) => disk'[id.file] = sidecar[id.index].preimage
  BY RollbackDisk
<1>2. pass'.todo = pass.todo \ {id} /\ Restores' = Restores
  BY <1>1 DEF RollbackEntry, IInv, TypeOK, Restores
<1>3. ~Committed
  BY <1>1 DEF IInv, Phased, Undoing
<1>4. undoing # "resumed" /\ \A a \in Restores \ pass.todo : Handled(a)
  BY <1>1, <1>3 DEF Unspoiled
<1>5. id.index \in 1 .. id.index /\ id.index \in Nat /\ id.file \in File
      /\ sidecar[id.index].file = id.file
  BY <1>1, IndexBelow DEF IInv, ActionId
<1>6. Handled(id)'
  <2>1. CASE Intact(id)
    BY <1>1, <1>5, <2>1 DEF Handled, AlreadyRestored
  <2>2. CASE ~Intact(id)
    BY <1>1, <1>5, <2>2 DEF Handled, AlreadyRestored, Intact
  <2>. QED BY <2>1, <2>2
<1>7. ASSUME NEW a \in Restores \ pass.todo PROVE Handled(a)'
  <2>1. a \in ActionId /\ a.file \in File /\ a.index \in Nat /\ id.index <= a.index
    BY <1>1, IndexBelow
       DEF Ordered, Restores, ActionId, IInv, Evidenced, PendingWorkHasEvidence
  <2>2. CASE a.file # id.file \/ ~Intact(id)
    <3>1. disk'[a.file] = disk[a.file]
      BY <1>1, <2>1, <2>2
    <3>. QED BY <1>1, <1>4, <3>1 DEF Handled, AlreadyRestored
  <2>3. CASE a.file = id.file /\ Intact(id)
    BY <1>1, <1>5, <2>1, <2>3 DEF Handled, AlreadyRestored
  <2>. QED BY <2>2, <2>3
<1>. QED BY <1>1, <1>2, <1>4, <1>6, <1>7

LEMMA UnspoiledResume ==
  ASSUME IInv, Begun, Unspoiled, BootResume PROVE Unspoiled'
<1>. SUFFICES ASSUME foreign' = {} PROVE undoing' = undoing /\ undoing # "resumed"
  <2>1. /\ UNCHANGED <<disk, sidecar, foreign>> /\ pc' = "open"
        /\ journal'.pending = journal.pending /\ (Committed' <=> Committed)
    BY ActivateFields DEF BootResume, Committed, IInv, TypeOK
  <2>2. Restores' = Restores
    BY <2>1, PendingKept
  <2>. QED BY <2>1, <2>2 DEF Unspoiled, Handled, AlreadyRestored
<1>1. /\ Inspection = "agree" /\ ~Committed /\ foreign = {}
      /\ undoing' = IF undoing = "begun" THEN "resumed" ELSE undoing
  BY InspectionCommitted DEF BootResume
<1>2. undoing # "resumed"
  BY <1>1 DEF Unspoiled
<1>3. ASSUME undoing = "begun" PROVE FALSE
  <2>1. Discard \in journal.pending
    BY <1>1, <1>3 DEF Begun
  <2>2. InspectUncommitted = "agree"
    BY <1>1 DEF Inspection
  <2>3. Restores # {} /\ \A id \in Restores : Verified(id) /\ ~AlreadyRestored(id)
    BY <2>1, <2>2 DEF InspectUncommitted
  <2>4. PICK id \in Restores : Handled(id)
    BY <1>1, <1>3, <2>3 DEF Unspoiled
  <2>. QED BY <2>3, <2>4 DEF Handled, Verified, ShowsPostimage
<1>. QED BY <1>1, <1>2, <1>3

LEMMA UnspoiledNext ==
  ASSUME IInv, Begun, Ordered, Unspoiled, [Next]_vars PROVE Unspoiled'
<1>0. TypeOK /\ Phased
  BY DEF IInv
<1>1. CASE BeginTransaction
  BY <1>1 DEF BeginTransaction, Unspoiled
<1>2. ASSUME NEW f \in File, NEW image \in Image, Edit(f, image) PROVE Unspoiled'
  BY <1>2 DEF Edit, Unspoiled
<1>3. CASE BootResume \/ \E id \in ActionId : RollbackEntry(id)
  BY <1>3, UnspoiledResume, UnspoiledEntry
<1>4. ASSUME NEW id \in ActionId, JournalRestored(id) PROVE Unspoiled'
  <2>1. /\ UNCHANGED <<disk, sidecar, foreign, pc>>
        /\ pc = "restored" /\ Restores' = Restores \ {id}
        /\ undoing' = IF undoing = "no" THEN "begun" ELSE undoing
    BY <1>4, RestoredFields
  <2>2. ~Committed
    BY <2>1 DEF IInv, Phased, Undoing
  <2>. QED BY <2>1, <2>2 DEF Unspoiled, Handled, AlreadyRestored
<1>5. CASE DiscardSidecar
  <2>1. /\ Restores = {} /\ UNCHANGED <<journal, foreign>> /\ pc' = "discarded"
        /\ undoing' = "resumed" => undoing = "resumed"
    BY <1>5 DEF DiscardSidecar, IInv, Evidenced
  <2>2. Restores' = {}
    BY <2>1 DEF Restores
  <2>. QED BY <2>1, <2>2 DEF Unspoiled
<1>6. CASE CleanupSidecar
  <2>1. UNCHANGED <<journal, foreign, undoing>> /\ Committed
    BY <1>6 DEF CleanupSidecar, history, IInv, Phased, Sealing
  <2>. QED BY <2>1 DEF Unspoiled, Committed
<1>7. ASSUME \/ \E f \in File : RecordPreimage(f)
             \/ JournalPreimage
             \/ \E id \in ActionId, image \in Image : WriteTarget(id, image)
             \/ \E id \in ActionId : RecordPostimage(id)
      PROVE  Unspoiled'
  <2>1. /\ pc \in Working /\ pc' \in Working /\ UNCHANGED <<foreign, undoing>>
        /\ ~BeginTransaction
    BY <1>7
       DEF RecordPreimage, JournalPreimage, WriteTarget, RecordPostimage, BeginTransaction,
           history, Working
  <2>2. ~Committed
    BY <2>1, <1>0 DEF Phased
  <2>. QED BY <2>1, <2>2 DEF Unspoiled, Begun, Working
<1>8. CASE ~Moving
  <2>1. foreign' = foreign /\ undoing' = undoing
    <3>1. CASE ~Committed
      BY <1>0, <1>8, <3>1, Quiet
    <3>2. CASE Committed
      <4>1. UNCHANGED vars \/ Boot \/ Commit \/ Environment
        BY <1>0, <3>2
           DEF Next, Phased, Working, Undoing, WriteStep, BeginStep, IntendSidecar,
               RecordPreimage, JournalPreimage, WriteTarget, WriteReturns, RecordPostimage,
               JournalPostimage, PersistClaim, IntendUnverifiable, RunUnverifiable, Fail,
               Rollback, RollbackEntry, JournalRestored, RollbackEnds, RestoredEnds,
               ReconcileClaim, JournalReconciled, ReconcileEnds, DiscardSidecar,
               JournalDiscarded, RetryAttempt, SealRolledBack, SealBlocked
      <4>. QED
        BY <1>8, <4>1
           DEF Moving, vars, history, Boot, BootRollback, BootCommitCleanup, Commit,
               CommitGeneration, IntendCleanup, CleanupSidecar, JournalCleanup,
               SealCommitted, CleanupFails, Announce, Stop, Environment, Crash,
               CrashPersisting
    <3>. QED BY <3>1, <3>2
  <2>2. CASE Committed'
    BY <2>1, <2>2 DEF Unspoiled
  <2>3. CASE ~Committed'
    <3>1. ~Committed
      BY <1>0, <1>8, <2>3, CommittedLasts DEF Moving
    <3>2. UNCHANGED <<disk, sidecar>> /\ Restores' = Restores
      BY <1>0, <1>8, <3>1, Quiet
    <3>3. \A id : Handled(id)' <=> Handled(id)
      BY <3>2 DEF Handled, AlreadyRestored
    <3>4. ~\E id \in ActionId : RollbackEntry(id) \/ JournalRestored(id)
      BY <1>8 DEF Moving
    <3>5. ASSUME foreign = {}, pc' = "rollback"
          PROVE  \A id \in Restores' \ pass'.todo : Handled(id)'
      <4>1. \/ pass' = pass /\ pc' = pc
            \/ pass'.todo = Restores'
        BY <1>0, <3>4, <3>5, PassKept DEF RollbackEnds
      <4>. QED BY <3>1, <3>2, <3>3, <3>5, <4>1 DEF Unspoiled
    <3>6. ASSUME foreign = {}, pc' = "restored" PROVE \A id \in Restores' : Handled(id)'
      <4>1. pc = "restored" \/ (pc = "rollback" /\ pass.todo = {})
        BY <1>0, <3>4, <3>6, PassKept DEF RollbackEnds
      <4>. QED BY <3>1, <3>2, <3>3, <3>6, <4>1 DEF Unspoiled
    <3>. QED BY <2>1, <3>1, <3>2, <3>3, <3>5, <3>6 DEF Unspoiled
  <2>. QED BY <2>2, <2>3
<1>. QED BY <1>1, <1>2, <1>3, <1>4, <1>5, <1>6, <1>7, <1>8 DEF Moving

-----------------------------------------------------------------------------
LEMMA InitRestoreInv == Init => RestoreInv
<1>. SUFFICES ASSUME Init PROVE RestoreInv
  OBVIOUS
<1>1. Restores = {} /\ sidecar = << >> /\ disk = original /\ pass = NoPass /\ step = NoStep
      /\ journal.status = "none" /\ ~Committed /\ pc = "down" /\ undoing = "no"
  BY NewJournalFields DEF Init, Restores, Committed
<1>2. Recoverable
  <2>1. DOMAIN sidecar = {}
    BY <1>1
  <2>. QED BY <1>1, <2>1 DEF Recoverable, IsBack
<1>3. Ordered /\ Opened /\ Begun /\ Closed /\ Unspoiled
  BY <1>1 DEF Ordered, Opened, Begun, Closed, Unspoiled, NoPass, NoStep
<1>. QED BY <1>2, <1>3, InitIInv DEF RestoreInv

LEMMA NextRestoreInv == RestoreInv /\ [Next]_vars => RestoreInv'
BY NextIInv, RecoverableNext, OrderedNext, OpenedNext, BegunNext, ClosedNext, UnspoiledNext
   DEF RestoreInv

(* Every reachable state satisfies the invariant the restores rest on. *)
THEOREM RestoreInvariance == Spec => []RestoreInv
<1>1. RestoreInv /\ UNCHANGED vars => RestoreInv'
  BY NextRestoreInv
<1>. QED BY InitRestoreInv, NextRestoreInv, PTL DEF Spec

(* A startup sealed as rolled back has restored every file nobody else     *)
(* edited, unless it went on after its rollback had begun.                 *)
THEOREM RollbacksRestore == Spec => []RolledBackRestoresFiles
<1>1. RestoreInv => RolledBackRestoresFiles
  <2>. SUFFICES ASSUME RestoreInv, journal.status = "rolled_back", undoing # "resumed",
                       NEW f \in File \ foreign
                PROVE  disk[f] = original[f]
    BY DEF RolledBackRestoresFiles
  <2>1. Restores = {} /\ ~Committed
    BY DEF RestoreInv, Closed, Restores
  <2>2. ~CanComeBack(f)
    BY <2>1 DEF CanComeBack, RestoresFirst
  <2>. QED BY <2>1, <2>2 DEF RestoreInv, Recoverable, IsBack
<1>. QED BY <1>1, RestoreInvariance, PTL

(* Until the commit, a changed file has a pending restore whose sidecar    *)
(* entry holds what it was: the evidence outlives the need for it.         *)
THEOREM ChangesAreUndoable == Spec => []EveryChangeIsUndoable
<1>1. RestoreInv => EveryChangeIsUndoable
  <2>. SUFFICES ASSUME RestoreInv, ~Committed, undoing # "resumed",
                       NEW f \in File \ foreign, disk[f] # original[f]
                PROVE  \E id \in Restores : /\ id.file = f /\ HasEntry(id)
                                            /\ sidecar[id.index].preimage = original[f]
    BY DEF EveryChangeIsUndoable
  <2>1. PICK id \in ActionId : RestoresFirst(f, id)
    BY DEF RestoreInv, Recoverable, IsBack, CanComeBack
  <2>2. id.index \in 1 .. id.index /\ sidecar[id.index].file = id.file
    BY <2>1, IndexBelow DEF RestoresFirst, RestoreInv, IInv
  <2>. QED BY <2>1, <2>2 DEF RestoresFirst
<1>. QED BY <1>1, RestoreInvariance, PTL

(* In a startup nobody interferes with, a rollback that has begun is never *)
(* resumed, so what is sealed as rolled back has every file back.          *)
THEOREM UndisturbedRollbackRestores ==
  Spec => [](journal.status = "rolled_back" /\ foreign = {} => disk = original)
<1>1. RestoreInv /\ RolledBackRestoresFiles
        => (journal.status = "rolled_back" /\ foreign = {} => disk = original)
  <2>. SUFFICES ASSUME RestoreInv, RolledBackRestoresFiles,
                       journal.status = "rolled_back", foreign = {}
                PROVE  disk = original
    OBVIOUS
  <2>1. \A f \in File : disk[f] = original[f]
    BY DEF RestoreInv, Unspoiled, RolledBackRestoresFiles
  <2>2. disk \in [File -> Image] /\ original \in [File -> Image]
    BY DEF RestoreInv, IInv, TypeOK
  <2>. QED BY <2>1, <2>2
<1>. QED BY <1>1, RestoreInvariance, RollbacksRestore, PTL

-----------------------------------------------------------------------------
(* The refinement of the promise. *)
LEMMA OutcomeKept ==
  ASSUME TypeOK, Phased, Closed, [Next]_vars, ~Committed, ~BeginTransaction
  PROVE  \/ Outcome' = Outcome
         \/ SealRolledBack /\ Outcome = "open" /\ Outcome' = "rolled_back"
         \/ CommitGeneration /\ Outcome = "open" /\ Outcome' = "committed"
<1>. DEFINE Same == Outcome' = Outcome
<1>0. journal \in Journal
  BY DEF TypeOK
<1>1. ASSUME journal' = journal PROVE Same
  BY <1>1 DEF Outcome, Committed
<1>2. ASSUME NEW a, NEW b, NEW c, "generation_committed" \notin a, Record(Update(a, b, c))
      PROVE  Same
  BY <1>0, <1>2, RecordFields, RecordKeepsCommitted DEF Outcome
<1>3. CASE Boot
  <2>1. PICK action \in {"rollback", "resume"} : journal' = Activate(journal, action)
    BY <1>3 DEF Boot, BootRollback, BootResume, BootCommitCleanup
  <2>2. Interrupted(journal)
    BY <1>3 DEF Boot, BootRollback, BootResume, BootCommitCleanup, CanActivate, Interrupted
  <2>3. journal'.status = "active" /\ (Committed' <=> Committed)
    BY <1>0, <2>1, ActivateFields DEF Committed
  <2>. QED BY <2>2, <2>3 DEF Outcome, Interrupted
<1>4. CASE WriteStep
  BY <1>1, <1>2, <1>4
     DEF WriteStep, BeginStep, IntendSidecar, RecordPreimage, JournalPreimage, WriteTarget,
         WriteReturns, RecordPostimage, JournalPostimage, PersistClaim, IntendUnverifiable,
         RunUnverifiable, durable
<1>5. CASE Rollback
  <2>1. CASE SealRolledBack
    <3>1. /\ journal'.status = "rolled_back" /\ journal'.phase = journal.phase
          /\ journal'.completed = journal.completed /\ pc = "seal"
      BY <1>0, <2>1 DEF SealRolledBack, Settle, ApplyUpdate, Update, Journal
    <3>2. ~Committed' /\ journal.status = "active"
      BY <3>1 DEF Phased, Undoing, Committed
    <3>. QED BY <2>1, <3>1, <3>2 DEF Outcome
  <2>2. CASE SealBlocked
    <3>1. /\ journal'.status = "blocked" /\ journal'.phase = journal.phase
          /\ journal'.completed = journal.completed /\ pc \in Undoing
      BY <1>0, <2>2
         DEF SealBlocked, SettleFailed, Settle, ApplyUpdate, Update, Journal, Undoing
    <3>2. ~Committed' /\ journal.status = "active"
      BY <3>1 DEF Phased, Committed
    <3>. QED BY <3>1, <3>2 DEF Outcome
  <2>. QED
    BY <1>1, <1>2, <1>5, <2>1, <2>2
       DEF Rollback, RollbackEntry, JournalRestored, RollbackEnds, RestoredEnds,
           ReconcileClaim, JournalReconciled, ReconcileEnds, DiscardSidecar,
           JournalDiscarded, RetryAttempt, durable
<1>6. CASE Commit
  <2>1. CASE CommitGeneration
    <3>1. /\ journal'.status = journal.status /\ journal'.phase = "generation_committed"
          /\ journal'.completed = journal.completed \cup {"generation_committed"}
          /\ journal.status = "active"
      BY <1>0, <2>1
         DEF CommitGeneration, CanAdvance, Advance, ApplyUpdate, Update, Journal
    <3>2. Committed'
      BY <3>1 DEF Committed
    <3>. QED BY <2>1, <3>1, <3>2 DEF Outcome
  <2>2. pc \notin Sealing \cup {"announce"}
    BY DEF Phased, Closed
  <2>. QED
    BY <1>1, <1>6, <2>1, <2>2
       DEF Commit, IntendCleanup, CleanupSidecar, JournalCleanup, SealCommitted,
           CleanupFails, Announce, Stop, Sealing, durable
<1>7. CASE Fail \/ Environment \/ UNCHANGED vars
  BY <1>1, <1>7 DEF Fail, Environment, Crash, CrashPersisting, Edit, vars, durable
<1>. QED BY <1>3, <1>4, <1>5, <1>6, <1>7 DEF Next

LEMMA PromiseInit == Init => Promise!Init
BY NewJournalFields DEF Init, Promise!Init, Outcome, Touched, NoJournal

LEMMA PromiseBegin ==
  ASSUME IInv, Closed, BeginTransaction PROVE Promise!Begin
<1>1. Outcome # "open"
  BY DEF BeginTransaction, Interrupted, Outcome, Closed, IInv, TypeOK, Journal, Status
<1>2. Outcome' = "open"
  BY NewJournalFields DEF BeginTransaction, Outcome, Committed
<1>. QED BY <1>1, <1>2 DEF BeginTransaction, Promise!Begin, Touched

LEMMA PromiseEdit ==
  ASSUME IInv, NEW f \in File, NEW image \in Image, Edit(f, image) PROVE Promise!Next
<1>1. Outcome' = Outcome /\ original' = original
  BY DEF Edit, Outcome, Committed
<1>2. /\ disk' \in [File -> Image] /\ \A g \in File \ {f} : disk'[g] = disk[g]
      /\ Touched' = Touched \cup {f}
  BY DEF Edit, IInv, TypeOK, Touched
<1>3. Promise!Edit({f})
  BY <1>1, <1>2 DEF Promise!Edit
<1>. QED BY <1>3 DEF Promise!Next

LEMMA PromiseCommitted ==
  ASSUME IInv, Closed, Closed', [Next]_vars, Committed, ~BeginTransaction
  PROVE  [Promise!Next]_(Promise!vars)
<1>1. UNCHANGED vars \/ BootCommitCleanup \/ Commit \/ Environment
  BY InspectionCommitted
     DEF Next, IInv, Phased, Working, Undoing, Boot, BootRollback, BootResume, WriteStep,
         BeginStep, IntendSidecar, RecordPreimage, JournalPreimage, WriteTarget,
         WriteReturns, RecordPostimage, JournalPostimage, PersistClaim, IntendUnverifiable,
         RunUnverifiable, Fail, Rollback, RollbackEntry, JournalRestored, RollbackEnds,
         RestoredEnds, ReconcileClaim, JournalReconciled, ReconcileEnds, DiscardSidecar,
         JournalDiscarded, RetryAttempt, SealRolledBack, SealBlocked
<1>2. ASSUME NEW f \in File, NEW image \in Image, Edit(f, image) PROVE Promise!Next
  BY <1>2, PromiseEdit
<1>3. ASSUME ~\E f \in File, image \in Image : Edit(f, image)
      PROVE  UNCHANGED Promise!vars
  <2>1. UNCHANGED <<disk, original, foreign, undoing>>
    BY <1>1, <1>3
       DEF vars, durable, history, BootCommitCleanup, Commit, CommitGeneration,
           IntendCleanup, CleanupSidecar, JournalCleanup, SealCommitted, CleanupFails,
           Announce, Stop, Environment, Crash, CrashPersisting
  <2>2. Committed'
    BY CommittedLasts DEF IInv
  <2>3. Outcome = "committed" /\ Outcome' = "committed"
    BY <2>2 DEF Outcome, Closed
  <2>. QED BY <2>1, <2>3 DEF Promise!vars, Touched
<1>. QED BY <1>2, <1>3

LEMMA PromiseOpen ==
  ASSUME IInv, Ordered, Closed, [Next]_vars, ~Committed, Moving, ~BeginTransaction
  PROVE  [Promise!Next]_(Promise!vars)
<1>0. TypeOK /\ Phased
  BY DEF IInv
<1>1. ASSUME NEW f \in File, NEW image \in Image, Edit(f, image) PROVE Promise!Next
  BY <1>1, PromiseEdit
<1>2. CASE BootResume
  <2>1. UNCHANGED <<disk, original, foreign>> /\ Outcome' = Outcome
    BY <1>0, <1>2, OutcomeKept DEF BootResume, SealRolledBack, CommitGeneration
  <2>2. CASE undoing = "begun"
    <3>1. Touched' = File /\ Touched = foreign
      BY <1>2, <2>2 DEF BootResume, Touched
    <3>2. Promise!Edit(File)
      BY <1>0, <2>1, <3>1 DEF Promise!Edit, TypeOK
    <3>. QED BY <3>2 DEF Promise!Next
  <2>3. CASE undoing # "begun"
    BY <1>2, <2>1, <2>3 DEF BootResume, Promise!vars, Touched
  <2>. QED BY <2>2, <2>3
<1>3. CASE \/ \E f \in File : RecordPreimage(f)
           \/ JournalPreimage
           \/ \E id \in ActionId : RecordPostimage(id)
  <2>1. UNCHANGED <<disk, history>> /\ pc \in {"prepare", "record"}
    BY <1>3 DEF RecordPreimage, JournalPreimage, RecordPostimage
  <2>2. Outcome' = Outcome
    BY <1>0, <2>1, OutcomeKept DEF SealRolledBack, CommitGeneration
  <2>. QED BY <2>1, <2>2 DEF history, Promise!vars, Touched
<1>4. ASSUME NEW id \in ActionId, NEW image \in Image, WriteTarget(id, image)
      PROVE  Promise!Next
  <2>1. /\ disk' = [disk EXCEPT ![id.file] = image] /\ id.file \in File
        /\ UNCHANGED <<journal, history>> /\ pc = "write"
    BY <1>4 DEF WriteTarget, ActionId
  <2>2. Outcome' = Outcome /\ Outcome = "open"
    BY <1>0, <2>1 DEF Outcome, Committed, Phased, Working
  <2>3. Promise!Write(id.file, image)
    BY <2>1, <2>2 DEF Promise!Write, history, Touched
  <2>. QED BY <2>1, <2>3 DEF Promise!Next
<1>5. ASSUME NEW id \in ActionId, RollbackEntry(id) PROVE [Promise!Next]_(Promise!vars)
  <2>1. /\ UNCHANGED <<journal, original, foreign, undoing>> /\ pc = "rollback"
        /\ disk' = IF Intact(id)
                   THEN [disk EXCEPT ![id.file] = sidecar[id.index].preimage] ELSE disk
    BY <1>5 DEF RollbackEntry, history
  <2>2. /\ Outcome' = Outcome /\ Outcome = "open" /\ Touched' = Touched
    BY <1>0, <2>1 DEF Outcome, Committed, Phased, Undoing, Touched
  <2>3. CASE Intact(id)
    <3>0. id.index \in DOMAIN sidecar /\ sidecar \in Seq(Entry) /\ id.file \in File
      BY <1>0, <2>3 DEF Intact, HasEntry, TypeOK, ActionId
    <3>1. sidecar[id.index] \in Entry
      BY <3>0, ElementOfSeq
    <3>2. id.file \in File /\ sidecar[id.index].preimage \in Image
      BY <3>0, <3>1 DEF Entry
    <3>3. Promise!Write(id.file, sidecar[id.index].preimage)
      BY <2>1, <2>2, <2>3 DEF Promise!Write
    <3>. QED BY <3>2, <3>3 DEF Promise!Next
  <2>4. CASE ~Intact(id)
    BY <2>1, <2>2, <2>4 DEF Promise!vars
  <2>. QED BY <2>3, <2>4
<1>6. ASSUME NEW id \in ActionId, JournalRestored(id) PROVE UNCHANGED Promise!vars
  <2>1. /\ UNCHANGED <<disk, original, foreign>> /\ pc = "restored"
        /\ undoing' = IF undoing = "no" THEN "begun" ELSE undoing
    BY <1>6 DEF JournalRestored
  <2>2. Outcome' = Outcome
    BY <1>0, <2>1, OutcomeKept DEF SealRolledBack, CommitGeneration
  <2>. QED BY <2>1, <2>2 DEF Promise!vars, Touched
<1>7. CASE DiscardSidecar
  <2>1. /\ UNCHANGED <<disk, journal, original, foreign>>
        /\ undoing' = IF undoing = "begun" THEN "no" ELSE undoing
    BY <1>7 DEF DiscardSidecar
  <2>. QED BY <2>1 DEF Promise!vars, Touched, Outcome, Committed
<1>8. ~CleanupSidecar
  BY <1>0 DEF CleanupSidecar, Phased, Sealing
<1>. QED BY <1>1, <1>2, <1>3, <1>4, <1>5, <1>6, <1>7, <1>8 DEF Moving

LEMMA PromiseStep ==
  ASSUME RestoreInv, RestoreInv', RolledBackRestoresFiles', [Next]_vars
  PROVE  [Promise!Next]_(Promise!vars)
<1>0. IInv /\ TypeOK /\ Phased /\ Closed /\ Ordered
  BY DEF RestoreInv, IInv
<1>1. CASE BeginTransaction
  BY <1>0, <1>1, PromiseBegin DEF Promise!Next
<1>2. CASE Committed /\ ~BeginTransaction
  BY <1>0, <1>2, PromiseCommitted DEF RestoreInv
<1>3. CASE ~Committed /\ ~BeginTransaction /\ Moving
  BY <1>0, <1>3, PromiseOpen
<1>4. CASE ~Committed /\ ~BeginTransaction /\ ~Moving
  <2>1. UNCHANGED <<disk, original, Touched>>
    BY <1>0, <1>4, Quiet DEF Touched
  <2>2. CASE Outcome' = Outcome
    BY <2>1, <2>2 DEF Promise!vars
  <2>3. CASE CommitGeneration /\ Outcome = "open" /\ Outcome' = "committed"
    BY <2>1, <2>3 DEF Promise!Next, Promise!Commit
  <2>4. CASE SealRolledBack /\ Outcome = "open" /\ Outcome' = "rolled_back"
    <3>1. \A f \in File \ Touched' : disk'[f] = original'[f]
      BY <2>4 DEF RolledBackRestoresFiles, Outcome, Touched
    <3>2. Promise!RollBack
      BY <2>1, <2>4, <3>1 DEF Promise!RollBack
    <3>. QED BY <3>2 DEF Promise!Next
  <2>. QED BY <1>0, <1>4, <2>2, <2>3, <2>4, OutcomeKept
<1>. QED BY <1>1, <1>2, <1>3, <1>4

(* Every step of the journalled startup is a step of the promise or leaves *)
(* what it speaks of alone.                                                *)
THEOREM PromiseKept == Spec => ImplementsPromise
<1>. QED
  BY PromiseInit, PromiseStep, RestoreInvariance, RollbacksRestore, PTL
     DEF Spec, ImplementsPromise, Promise!Spec

-----------------------------------------------------------------------------
(***************************************************************************)
(* The flags of the lifecycle state.                                       *)
(***************************************************************************)
(* What an entry recorded is another image than the one it found. *)
Changes(id) == sidecar[id.index].postimage \notin {Unrecorded, sidecar[id.index].preimage}

(* A rollback will give up, or has begun to give up, the flag of this file. *)
Suspect(f) == \/ \E id \in Restores : id.file = f /\ Changes(id)
              \/ \E id \in Reconciles : id.file = f

Live == ~Committed /\ undoing # "resumed"

(* A flag that stands for other files than those of the beginning is one   *)
(* a rollback gives up.                                                    *)
Honest ==
  Live => \A f \in File \ foreign : UnitOf[f] \in claims =>
            vouched[f] = original[f] \/ Suspect(f)

(* While the startup runs, so is the flag of every file that has changed,  *)
(* those apart whose write is under way.                                   *)
Traced ==
  Live /\ pc \in Working =>
    /\ \A f \in File \ foreign : \/ disk[f] = original[f] \/ Suspect(f)
                                 \/ \E id \in step.open : id.file = f
    /\ \A id \in ActionId : id \in step.open \cup {step.fresh} /\ id.file \notin foreign =>
         sidecar[id.index].preimage = original[id.file] \/ Suspect(id.file)

(* A write step has one entry for each of its files. *)
Unwritten ==
  \A id \in ActionId : id \in step.open \cup {step.fresh} =>
    sidecar[id.index].postimage = Unrecorded /\ id.file \notin step.todo

(* What a rollback carries from one of its stages to the next. *)
Carried ==
  /\ \A id \in pass.done : Changes(id) => id \in pass.dirty
  /\ pass.persisted # "none" => pc = "reconcile" /\ pass.persisted \notin claims

ClaimsInv == RestoreInv /\ Honest /\ Traced /\ Unwritten /\ Carried
-----------------------------------------------------------------------------
(* While the startup writes, nothing else moves it but edits. *)
LEMMA WorkingStep ==
  ASSUME [Next]_vars, pc' \in Working
  PROVE  \/ WriteStep \/ UNCHANGED vars
         \/ \E f \in File, image \in Image : Edit(f, image)
         \/ pc' = "open" /\ (BeginTransaction \/ BootResume \/ RetryAttempt)
BY DEF Working, Next, Boot, BeginTransaction, BootRollback, BootResume, BootCommitCleanup, Fail,
       Rollback, RollbackEntry, JournalRestored, RollbackEnds, RestoredEnds, ReconcileClaim,
       JournalReconciled, ReconcileEnds, DiscardSidecar, JournalDiscarded, RetryAttempt,
       SealRolledBack, SealBlocked, Commit, CommitGeneration, IntendCleanup, CleanupSidecar,
       JournalCleanup, SealCommitted, CleanupFails, Announce, Stop, Environment, Crash,
       CrashPersisting

(* A write step adds to what is pending and takes nothing away. *)
LEMMA PendingGrows ==
  ASSUME TypeOK, WriteStep
  PROVE  /\ Restores \subseteq Restores' /\ Reconciles \subseteq Reconciles'
         /\ pc \in Working /\ UNCHANGED <<original, foreign, undoing>>
         /\ (Committed' <=> Committed)
<1>0. journal \in Journal
  BY DEF TypeOK
<1>1. /\ pc \in Working /\ UNCHANGED <<original, foreign, undoing>>
  BY DEF WriteStep, BeginStep, IntendSidecar, RecordPreimage, JournalPreimage, WriteTarget,
         WriteReturns, RecordPostimage, JournalPostimage, PersistClaim, IntendUnverifiable,
         RunUnverifiable, Working, history
<1>2. \/ journal' = journal
      \/ \E a, b : "generation_committed" \notin a /\ Record(Update(a, b, {}))
  BY DEF WriteStep, BeginStep, IntendSidecar, RecordPreimage, JournalPreimage, WriteTarget,
         WriteReturns, RecordPostimage, JournalPostimage, PersistClaim, IntendUnverifiable,
         RunUnverifiable, durable
<1>3. CASE journal' = journal
  BY <1>1, <1>3 DEF Restores, Reconciles, Committed
<1>4. ASSUME NEW a, NEW b, "generation_committed" \notin a, Record(Update(a, b, {}))
      PROVE  journal.pending \subseteq journal'.pending /\ (Committed' <=> Committed)
  BY <1>0, <1>4, RecordFields, RecordKeepsCommitted
<1>5. CASE journal.pending \subseteq journal'.pending /\ (Committed' <=> Committed)
  BY <1>1, <1>5 DEF Restores, Reconciles
<1>. QED BY <1>2, <1>3, <1>4, <1>5

LEMMA SuspectKept ==
  ASSUME NEW f, Suspect(f), Restores \subseteq Restores', Reconciles \subseteq Reconciles',
         \A id \in Restores : Changes(id) => Changes(id)'
  PROVE  Suspect(f)'
BY DEF Suspect
-----------------------------------------------------------------------------
LEMMA UnwrittenNext ==
  ASSUME IInv, Unwritten, [Next]_vars PROVE Unwritten'
<1>0. IInv' /\ TypeOK /\ Prepared /\ TypeOK'
  BY NextIInv DEF IInv
<1>1. CASE pc' \notin {"prepare", "write", "record"}
  <2>1. step'.open = {} /\ step'.fresh = NoId
    BY <1>0, <1>1 DEF IInv, Prepared
  <2>2. NoId \notin ActionId
    BY ConstantsAssumption DEF NoId, ActionId
  <2>. QED BY <2>1, <2>2 DEF Unwritten
<1>2. ASSUME step'.open \subseteq step.open, step'.fresh \in {step.fresh, NoId},
             step'.todo = step.todo, sidecar' = sidecar
      PROVE  Unwritten'
  <2>2. NoId \notin ActionId
    BY ConstantsAssumption DEF NoId, ActionId
  <2>. QED BY <1>2, <2>2 DEF Unwritten
<1>3. ASSUME NEW u \in Unit, NEW outputs, BeginStep(u, outputs) PROVE Unwritten'
  <2>2. NoId \notin ActionId
    BY ConstantsAssumption DEF NoId, ActionId
  <2>. QED BY <1>3, <2>2 DEF BeginStep, NoStep, Unwritten
<1>4. ASSUME NEW f \in File, RecordPreimage(f) PROVE Unwritten'
  <2>1. /\ DOMAIN sidecar = 1 .. Len(sidecar) /\ Len(sidecar) \in Nat
        /\ \A k \in DOMAIN sidecar : sidecar'[k] = sidecar[k]
    BY <1>0, <1>4, AppendedEntry
  <2>2. sidecar'[Len(sidecar) + 1].postimage = Unrecorded
    <3>. DEFINE e == [file |-> f, preimage |-> disk[f], postimage |-> Unrecorded]
    <3>1. sidecar' = Append(sidecar, e) /\ sidecar \in Seq(Entry) /\ e.postimage = Unrecorded
      BY <1>0, <1>4 DEF RecordPreimage, TypeOK
    <3>. HIDE DEF e
    <3>. QED BY <3>1
  <2>3. /\ step'.open = step.open /\ step'.todo = step.todo \ {f}
        /\ step'.fresh = [file |-> f, index |-> Len(sidecar) + 1]
    BY <1>0, <1>4 DEF RecordPreimage, TypeOK
  <2>4. ASSUME NEW id \in step.open
        PROVE  sidecar'[id.index].postimage = Unrecorded /\ id.file \notin step'.todo
    BY <1>0, <2>1, <2>3 DEF Unwritten, TypeOK, Prepared, HasEntry
  <2>. QED BY <2>2, <2>3, <2>4 DEF Unwritten
<1>5. CASE JournalPreimage
  <2>1. /\ step'.open = step.open \cup {step.fresh} /\ step'.fresh = NoId
        /\ step'.todo = step.todo /\ sidecar' = sidecar
    BY <1>0, <1>5 DEF JournalPreimage, TypeOK
  <2>2. NoId \notin ActionId
    BY ConstantsAssumption DEF NoId, ActionId
  <2>. QED BY <2>1, <2>2 DEF Unwritten
<1>6. ASSUME NEW id \in ActionId, RecordPostimage(id) PROVE Unwritten'
  <2>1. /\ step'.open = step.open \ {id} /\ step'.fresh = step.fresh
        /\ step'.todo = step.todo /\ pc = "record"
        /\ sidecar' = [sidecar EXCEPT ![id.index].postimage = disk[id.file]]
        /\ id \in step.open
    BY <1>0, <1>6 DEF RecordPostimage, TypeOK
  <2>2. step.fresh = NoId /\ NoId \notin ActionId
    BY <1>0, <2>1, ConstantsAssumption DEF Prepared, NoId, ActionId
  <2>3. ASSUME NEW k \in step'.open PROVE sidecar'[k.index] = sidecar[k.index]
    <3>1. HasEntry(k) /\ HasEntry(id) /\ k # id /\ k \in ActionId
      BY <1>0, <2>1 DEF Prepared, TypeOK
    <3>2. k.index # id.index
      BY <3>1, EntryIsId DEF HasEntry
    <3>. QED BY <2>1, <3>2
  <2>. QED BY <2>1, <2>2, <2>3 DEF Unwritten
<1>7. CASE JournalPostimage
  <2>1. step'.open = step.open /\ step'.fresh = step.fresh /\ step'.todo = step.todo
    BY <1>0, <1>7 DEF JournalPostimage, TypeOK
  <2>. QED BY <1>2, <1>7, <2>1 DEF JournalPostimage
<1>8. ASSUME step' = step, sidecar' = sidecar PROVE Unwritten'
  BY <1>8 DEF Unwritten
<1>9. CASE WriteStep
  BY <1>1, <1>3, <1>4, <1>5, <1>6, <1>7, <1>8, <1>9
     DEF WriteStep, IntendSidecar, WriteTarget, WriteReturns, PersistClaim,
         IntendUnverifiable, RunUnverifiable, durable
<1>10. CASE UNCHANGED vars \/ \E f \in File, image \in Image : Edit(f, image)
  BY <1>8, <1>10 DEF vars, durable, Edit
<1>. QED BY <1>1, <1>9, <1>10, WorkingStep DEF Working

LEMMA CarriedNext ==
  ASSUME IInv, Ordered, Carried, [Next]_vars PROVE Carried'
<1>0. IInv' /\ TypeOK /\ TypeOK' /\ "none" \notin Unit
  BY NextIInv, ConstantsAssumption DEF IInv
<1>1. ASSUME NEW id \in ActionId, RollbackEntry(id) PROVE Carried'
  <2>1. /\ UNCHANGED <<sidecar, claims, pc>>
        /\ pass'.done = IF Undone(id) THEN pass.done \cup {id} ELSE pass.done
        /\ pass'.dirty = IF Invalidates(id) THEN pass.dirty \cup {id} ELSE pass.dirty
        /\ pass'.persisted = pass.persisted
    BY <1>0, <1>1 DEF RollbackEntry, TypeOK
  <2>2. Undone(id) /\ Changes(id) => Invalidates(id)
    BY DEF Undone, Changes, Invalidates
  <2>3. Changes(id)' <=> Changes(id)
    BY <2>1 DEF Changes
  <2>. QED BY <2>1, <2>2, <2>3 DEF Carried, Changes
<1>2. ASSUME NEW id \in ActionId, JournalRestored(id) PROVE Carried'
  <2>1. /\ UNCHANGED <<sidecar, claims, pc>> /\ pass'.done = pass.done \ {id}
        /\ pass'.dirty = pass.dirty /\ pass'.persisted = pass.persisted
    BY <1>0, <1>2 DEF JournalRestored, TypeOK
  <2>. QED BY <2>1 DEF Carried, Changes
<1>3. ASSUME pass'.done = {}, pass'.persisted = "none" PROVE Carried'
  BY <1>3 DEF Carried
<1>4. ASSUME UNCHANGED <<pass, sidecar, claims, pc>> PROVE Carried'
  BY <1>4 DEF Carried, Changes
<1>5. ASSUME pass' = pass, pc # "reconcile", pc' \notin {"rollback", "restored"} PROVE Carried'
  <2>1. pass'.done = {}
    BY <1>0, <1>5 DEF IInv, Evidenced
  <2>2. pass'.persisted = "none"
    BY <1>5 DEF Carried
  <2>. QED BY <1>3, <2>1, <2>2
<1>6. CASE Boot \/ Fail
  BY <1>3, <1>5, <1>6
     DEF Boot, BeginTransaction, BootRollback, BootResume, BootCommitCleanup, Fail, StartPass,
         NoPass
<1>7. CASE WriteStep
  BY <1>5, <1>7
     DEF WriteStep, BeginStep, IntendSidecar, RecordPreimage, JournalPreimage, WriteTarget,
         WriteReturns, RecordPostimage, JournalPostimage, PersistClaim, IntendUnverifiable,
         RunUnverifiable
<1>8. CASE Rollback
  <2>1. CASE RollbackEnds \/ RestoredEnds
    <3>1. pass' = pass /\ sidecar' = sidecar /\ pass.persisted = "none"
      BY <2>1 DEF RollbackEnds, RestoredEnds, Carried, durable
    <3>. QED BY <3>1 DEF Carried, Changes
  <2>2. ASSUME NEW u \in Unit, ReconcileClaim(u) PROVE Carried'
    <3>1. /\ pass'.done = pass.done /\ pass'.persisted = u /\ claims' = claims \ {u}
          /\ pc = "reconcile" /\ pc' = "reconcile"
      BY <1>0, <2>2 DEF ReconcileClaim, TypeOK
    <3>2. pass'.done = {}
      BY <1>0, <3>1 DEF IInv, Evidenced
    <3>. QED BY <3>1, <3>2 DEF Carried
  <2>3. CASE JournalReconciled
    <3>1. pass'.done = pass.done /\ pass'.persisted = "none" /\ pc = "reconcile"
      BY <1>0, <2>3 DEF JournalReconciled, TypeOK
    <3>2. pass'.done = {}
      BY <1>0, <3>1 DEF IInv, Evidenced
    <3>. QED BY <1>3, <3>1, <3>2
  <2>4. CASE ReconcileEnds
    <3>1. pass' = pass /\ pass.persisted = "none" /\ pc = "reconcile"
      BY <2>4 DEF ReconcileEnds
    <3>2. pass'.done = {}
      BY <1>0, <3>1 DEF IInv, Evidenced
    <3>. QED BY <1>3, <3>1, <3>2
  <2>5. CASE DiscardSidecar \/ JournalDiscarded
    BY <1>5, <2>5 DEF DiscardSidecar, JournalDiscarded
  <2>6. CASE RetryAttempt \/ SealRolledBack \/ SealBlocked
    BY <1>3, <2>6 DEF RetryAttempt, SealRolledBack, SealBlocked, NoPass
  <2>. QED BY <1>1, <1>2, <1>8, <2>1, <2>2, <2>3, <2>4, <2>5, <2>6 DEF Rollback
<1>9. CASE Commit
  BY <1>5, <1>9
     DEF Commit, CommitGeneration, IntendCleanup, CleanupSidecar, JournalCleanup,
         SealCommitted, CleanupFails, Announce, Stop
<1>10. CASE Environment
  BY <1>3, <1>4, <1>10 DEF Environment, Crash, CrashPersisting, Edit, NoPass
<1>11. CASE UNCHANGED vars
  BY <1>4, <1>11 DEF vars, durable
<1>. QED BY <1>6, <1>7, <1>8, <1>9, <1>10, <1>11 DEF Next
-----------------------------------------------------------------------------
(* Traced, for each kind of step that begins or writes. *)
LEMMA TracedOpens ==
  ASSUME RestoreInv, [Next]_vars, pc' = "open",
         BeginTransaction \/ BootResume \/ RetryAttempt
  PROVE  Traced'
<1>0. IInv /\ IInv' /\ TypeOK /\ Recoverable /\ NoId \notin ActionId
  BY NextIInv, ConstantsAssumption DEF RestoreInv, IInv, NoId, ActionId
<1>1. step'.open = {} /\ step'.fresh = NoId
  BY <1>0 DEF IInv, Prepared
<1>. SUFFICES ASSUME Live', NEW f \in File \ foreign' PROVE disk'[f] = original'[f] \/ Suspect(f)'
  BY <1>0, <1>1 DEF Traced
<1>2. CASE BeginTransaction
  BY <1>2 DEF BeginTransaction
<1>3. CASE RetryAttempt
  <2>1. /\ UNCHANGED <<disk, journal, original, foreign, undoing, sidecar>>
        /\ journal.pending = {}
    BY <1>3 DEF RetryAttempt, durable, history
  <2>2. Restores = {} /\ Live
    BY <2>1 DEF Restores, Live, Committed
  <2>. QED BY <1>0, <2>1, <2>2 DEF Recoverable, Live, CanComeBack, RestoresFirst, IsBack
<1>4. CASE BootResume
  <2>1. /\ UNCHANGED <<disk, sidecar, digests, original, foreign>>
        /\ journal'.pending = journal.pending /\ (Committed' <=> Committed)
        /\ Inspection = "agree" /\ undoing # "resumed"
    BY <1>0, <1>4, ActivateFields DEF BootResume, Committed, TypeOK, Live
  <2>2. Restores' = Restores /\ ~Committed /\ InspectUncommitted = "agree"
    BY <2>1, PendingKept, InspectionCommitted DEF Inspection
  <2>3. CASE IsBack(f)
    BY <2>1, <2>3 DEF IsBack
  <2>4. CASE CanComeBack(f)
    <3>1. PICK id \in ActionId : RestoresFirst(f, id)
      BY <2>4 DEF CanComeBack
    <3>2. /\ id \in Restores /\ id.file = f /\ HasEntry(id)
          /\ sidecar[id.index].preimage = original[f]
      BY <1>0, <3>1, IndexBelow DEF RestoresFirst
    <3>3. ShowsPostimage(id)
      BY <2>2, <3>2 DEF InspectUncommitted, Verified
    <3>4. disk[f] # original[f] => Changes(id)
      BY <3>2, <3>3 DEF ShowsPostimage, Changes
    <3>5. disk'[f] # original'[f] => Changes(id)'
      BY <2>1, <3>4 DEF Changes
    <3>. QED BY <2>2, <3>2, <3>5 DEF Suspect
  <2>. QED BY <1>0, <2>1, <2>2, <2>3, <2>4 DEF Recoverable
<1>. QED BY <1>2, <1>3, <1>4

(* What a write step must respect to keep every change traced. *)
LEMMA TracedWriteStep ==
  ASSUME RestoreInv, Traced, Unwritten, WriteStep, [Next]_vars PROVE Traced'
<1>0. /\ IInv /\ TypeOK /\ Prepared /\ Opened /\ IInv' /\ Evidenced /\ NoId \notin ActionId
  BY NextIInv, ConstantsAssumption DEF RestoreInv, IInv, NoId, ActionId
<1>. SUFFICES ASSUME Live', pc' \in Working PROVE Traced'
  BY DEF Traced
<1>1. /\ Restores \subseteq Restores' /\ Reconciles \subseteq Reconciles'
      /\ UNCHANGED <<original, foreign, undoing>> /\ Live
      /\ \A f \in File \ foreign : \/ disk[f] = original[f] \/ Suspect(f)
                                   \/ \E id \in step.open : id.file = f
      /\ \A id \in ActionId : id \in step.open \cup {step.fresh} /\ id.file \notin foreign =>
           sidecar[id.index].preimage = original[id.file] \/ Suspect(id.file)
  BY <1>0, PendingGrows DEF Live, Traced
<1>2. sidecar' = sidecar => \A f : Suspect(f) => Suspect(f)'
  BY <1>1, SuspectKept DEF Changes
<1>3. ASSUME UNCHANGED <<disk, sidecar>>, step'.open = step.open,
             step'.fresh \in {step.fresh, NoId}
      PROVE  Traced'
  BY <1>0, <1>1, <1>2, <1>3 DEF Traced
<1>4. ASSUME NEW u \in Unit, NEW outputs, BeginStep(u, outputs) PROVE Traced'
  <2>1. step'.open = {} /\ step'.fresh = NoId /\ step.open = {} /\ UNCHANGED <<disk, sidecar>>
    BY <1>0, <1>4 DEF BeginStep, NoStep, Prepared, durable
  <2>. QED BY <1>0, <1>1, <1>2, <2>1 DEF Traced
<1>5. ASSUME NEW g \in File, RecordPreimage(g) PROVE Traced'
  <2>1. /\ DOMAIN sidecar = 1 .. Len(sidecar) /\ Len(sidecar) \in Nat
        /\ \A k \in DOMAIN sidecar : sidecar'[k] = sidecar[k]
        /\ sidecar'[Len(sidecar) + 1].preimage = disk[g]
    BY <1>0, <1>5, AppendedEntry
  <2>2. /\ step'.open = step.open /\ disk' = disk /\ g \in step.todo
        /\ step'.fresh = [file |-> g, index |-> Len(sidecar) + 1]
    BY <1>0, <1>5 DEF RecordPreimage, TypeOK
  <2>3. \A f : Suspect(f) => Suspect(f)'
    <3>1. \A id \in Restores : HasEntry(id) /\ id.index \in DOMAIN sidecar
      BY <1>0 DEF Evidenced, PendingWorkHasEvidence, HasEntry
    <3>2. \A id \in Restores : Changes(id) => Changes(id)'
      BY <2>1, <3>1 DEF Changes
    <3>. QED BY <1>1, <3>2, SuspectKept
  <2>4. ASSUME g \notin foreign PROVE disk[g] = original[g] \/ Suspect(g)'
    BY <1>0, <1>1, <2>2, <2>3, <2>4 DEF Unwritten, TypeOK
  <2>5. \A id \in step.open : id \in ActionId /\ id.index \in DOMAIN sidecar
    BY <1>0 DEF Prepared, HasEntry, TypeOK
  <2>6. ASSUME NEW id \in step.open, id.file \notin foreign
        PROVE  sidecar'[id.index].preimage = original'[id.file] \/ Suspect(id.file)'
    BY <1>1, <2>1, <2>3, <2>5, <2>6
  <2>7. /\ step'.fresh.file = g
        /\ g \notin foreign =>
             sidecar'[step'.fresh.index].preimage = original'[g] \/ Suspect(g)'
    BY <1>1, <2>1, <2>2, <2>4
  <2>. QED BY <1>1, <2>2, <2>3, <2>6, <2>7 DEF Traced
<1>6. CASE JournalPreimage
  <2>1. /\ step'.open = step.open \cup {step.fresh} /\ step'.fresh = NoId
        /\ UNCHANGED <<disk, sidecar>>
    BY <1>0, <1>6 DEF JournalPreimage, TypeOK
  <2>. QED BY <1>0, <1>1, <1>2, <2>1 DEF Traced
<1>7. ASSUME NEW id \in ActionId, NEW image \in Image, WriteTarget(id, image) PROVE Traced'
  <2>1. /\ UNCHANGED <<sidecar, step>> /\ id \in step.open
        /\ \A f \in File \ {id.file} : disk'[f] = disk[f]
    BY <1>0, <1>7 DEF WriteTarget, TypeOK
  <2>. QED BY <1>1, <1>2, <2>1 DEF Traced
<1>8. ASSUME NEW id \in ActionId, RecordPostimage(id) PROVE Traced'
  <2>1. /\ step'.open = step.open \ {id} /\ step'.fresh = NoId /\ disk' = disk
        /\ sidecar' = [sidecar EXCEPT ![id.index].postimage = disk[id.file]]
        /\ id \in step.open /\ HasEntry(id) /\ id \in Restores
    BY <1>0, <1>8 DEF RecordPostimage, TypeOK, Prepared, Opened
  <2>2. sidecar[id.index].postimage = Unrecorded
    BY <2>1 DEF Unwritten
  <2>3. /\ \A k \in DOMAIN sidecar : sidecar'[k].preimage = sidecar[k].preimage
        /\ \A k \in DOMAIN sidecar \ {id.index} : sidecar'[k] = sidecar[k]
        /\ sidecar'[id.index].postimage = disk[id.file]
    <3>1. sidecar' = [sidecar EXCEPT ![id.index] =
                        [sidecar[id.index] EXCEPT !.postimage = disk[id.file]]]
      BY <2>1
    <3>2. id.index \in DOMAIN sidecar /\ sidecar[id.index] \in Entry
      BY <1>0, <2>1, ElementOfSeq DEF TypeOK, HasEntry
    <3>. QED BY <3>1, <3>2 DEF Entry
  <2>4. \A f : Suspect(f) => Suspect(f)'
    <3>1. \A k \in Restores : k.index \in DOMAIN sidecar
      BY <1>0 DEF Evidenced, PendingWorkHasEvidence, HasEntry
    <3>2. \A k \in Restores : Changes(k) => k.index # id.index
      BY <2>2 DEF Changes
    <3>3. \A k \in Restores : Changes(k) => Changes(k)'
      BY <2>3, <3>1, <3>2 DEF Changes
    <3>. QED BY <1>1, <3>3, SuspectKept
  <2>5. ASSUME id.file \notin foreign PROVE disk[id.file] = original[id.file] \/ Suspect(id.file)'
    <3>1. CASE disk[id.file] = sidecar[id.index].preimage
      BY <1>1, <2>1, <2>4, <2>5, <3>1
    <3>2. CASE disk[id.file] # sidecar[id.index].preimage
      <4>1. disk[id.file] # Unrecorded
        BY <1>0, ConstantsAssumption DEF TypeOK, ActionId, Image
      <4>2. Changes(id)'
        BY <2>1, <2>3, <3>2, <4>1 DEF Changes, HasEntry
      <4>. QED BY <1>1, <2>1, <4>2 DEF Suspect
    <3>. QED BY <3>1, <3>2
  <2>6. \A k \in step.open : k \in ActionId /\ k.index \in DOMAIN sidecar
    BY <1>0 DEF Prepared, HasEntry, TypeOK
  <2>7. ASSUME NEW k \in step'.open, k.file \notin foreign
        PROVE  sidecar'[k.index].preimage = original'[k.file] \/ Suspect(k.file)'
    BY <1>1, <2>1, <2>3, <2>4, <2>6, <2>7
  <2>8. ASSUME NEW f \in File \ foreign
        PROVE  \/ disk'[f] = original'[f] \/ Suspect(f)'
               \/ \E k \in step'.open : k.file = f
    BY <1>1, <2>1, <2>4, <2>5
  <2>. QED BY <1>0, <1>1, <2>1, <2>7, <2>8 DEF Traced
<1>9. CASE JournalPostimage
  <2>1. step'.open = step.open /\ step'.fresh = step.fresh /\ UNCHANGED <<disk, sidecar>>
    BY <1>0, <1>9 DEF JournalPostimage, TypeOK
  <2>. QED BY <1>3, <2>1
<1>10. CASE PersistClaim
  <2>1. /\ step'.open = {} /\ step'.fresh = NoId /\ step.open = {}
        /\ UNCHANGED <<disk, sidecar>>
    BY <1>0, <1>10 DEF PersistClaim, NoStep, Prepared
  <2>. QED BY <1>3, <2>1
<1>11. CASE /\ UNCHANGED <<disk, sidecar, step>>
  BY <1>3, <1>11
<1>. QED
  BY <1>4, <1>5, <1>6, <1>7, <1>8, <1>9, <1>10, <1>11
     DEF WriteStep, IntendSidecar, WriteReturns, IntendUnverifiable, RunUnverifiable, durable

LEMMA TracedNext ==
  ASSUME RestoreInv, Traced, Unwritten, [Next]_vars PROVE Traced'
<1>1. CASE pc' \notin Working
  BY <1>1 DEF Traced
<1>2. ASSUME UNCHANGED <<journal, sidecar, step, pc, original, undoing>>,
             NEW some, foreign' = foreign \cup some,
             \A f \in File \ some : disk'[f] = disk[f]
      PROVE  Traced'
  <2>1. \A f : Suspect(f)' <=> Suspect(f)
    BY <1>2 DEF Suspect, Restores, Reconciles, Changes
  <2>. QED BY <1>2, <2>1 DEF Traced, Live, Committed
<1>3. CASE UNCHANGED vars
  BY <1>2, <1>3 DEF vars, durable, history
<1>4. ASSUME NEW f \in File, NEW image \in Image, Edit(f, image) PROVE Traced'
  BY <1>2, <1>4 DEF Edit, RestoreInv, IInv, TypeOK
<1>. QED BY <1>1, <1>3, <1>4, TracedOpens, TracedWriteStep, WorkingStep

-----------------------------------------------------------------------------
(* Honest, for each kind of step. *)
LEMMA HonestKept ==
  ASSUME Honest, Live, UNCHANGED <<original, foreign, vouched>>, claims' \subseteq claims,
         \A f \in File : UnitOf[f] \in claims' /\ Suspect(f) => Suspect(f)'
  PROVE  Honest'
BY DEF Honest

LEMMA HonestWriteStep ==
  ASSUME RestoreInv, Honest, Traced, Unwritten, WriteStep PROVE Honest'
<1>0. IInv /\ TypeOK /\ Prepared /\ Opened /\ Evidenced
  BY DEF RestoreInv, IInv
<1>. SUFFICES ASSUME Live' PROVE Honest'
  BY DEF Honest
<1>1. /\ Restores \subseteq Restores' /\ Reconciles \subseteq Reconciles'
      /\ pc \in Working /\ UNCHANGED <<original, foreign, undoing>> /\ Live
  BY <1>0, PendingGrows DEF Live
<1>2. \A id \in Restores : HasEntry(id) /\ id.index \in DOMAIN sidecar
  BY <1>0 DEF Evidenced, PendingWorkHasEvidence, HasEntry
<1>3. ASSUME NEW id \in Restores, Changes(id) PROVE Changes(id)'
  <2>1. CASE sidecar' = sidecar
    BY <1>3, <2>1 DEF Changes
  <2>2. ASSUME NEW g \in File, RecordPreimage(g) PROVE Changes(id)'
    <3>1. \A k \in DOMAIN sidecar : sidecar'[k] = sidecar[k]
      BY <1>0, <2>2, AppendedEntry
    <3>. QED BY <1>2, <1>3, <3>1 DEF Changes
  <2>3. ASSUME NEW k \in ActionId, RecordPostimage(k) PROVE Changes(id)'
    <3>1. k \in step.open /\ sidecar' = [sidecar EXCEPT ![k.index].postimage = disk[k.file]]
      BY <2>3 DEF RecordPostimage
    <3>2. sidecar[k.index].postimage = Unrecorded
      BY <2>3, <3>1 DEF Unwritten
    <3>3. id.index # k.index
      BY <1>3, <3>2 DEF Changes
    <3>. QED BY <1>2, <1>3, <3>1, <3>3 DEF Changes
  <2>. QED BY <2>1, <2>2, <2>3
           DEF WriteStep, BeginStep, IntendSidecar, JournalPreimage, WriteTarget, WriteReturns,
               JournalPostimage, PersistClaim, IntendUnverifiable, RunUnverifiable, durable
<1>4. \A f : Suspect(f) => Suspect(f)'
  BY <1>1, <1>3, SuspectKept
<1>5. CASE PersistClaim
  <2>1. /\ claims' = claims \cup {step.unit} /\ pc = "open"
        /\ vouched' = [f \in File |-> IF UnitOf[f] = step.unit THEN disk[f] ELSE vouched[f]]
    BY <1>5 DEF PersistClaim
  <2>2. step.open = {}
    BY <1>0, <2>1 DEF Prepared
  <2>3. ASSUME NEW f \in File \ foreign, UnitOf[f] \in claims'
        PROVE  vouched'[f] = original[f] \/ Suspect(f)
    <3>1. CASE UnitOf[f] = step.unit
      BY <1>1, <2>1, <2>2, <3>1 DEF Traced
    <3>2. CASE UnitOf[f] # step.unit
      BY <1>1, <2>1, <2>3, <3>2 DEF Honest
    <3>. QED BY <3>1, <3>2
  <2>. QED BY <1>1, <1>4, <2>3 DEF Honest
<1>6. CASE UNCHANGED <<claims, vouched>>
  BY <1>1, <1>4, <1>6, HonestKept
<1>. QED BY <1>5, <1>6
         DEF WriteStep, BeginStep, IntendSidecar, RecordPreimage, JournalPreimage, WriteTarget,
             WriteReturns, RecordPostimage, JournalPostimage, IntendUnverifiable,
             RunUnverifiable, durable, history

LEMMA HonestRollback ==
  ASSUME RestoreInv, Honest, Carried, Rollback PROVE Honest'
<1>0. /\ IInv /\ TypeOK /\ Phased /\ Ordered /\ Evidenced /\ journal \in Journal
  BY DEF RestoreInv, IInv, TypeOK
<1>. SUFFICES ASSUME Live' PROVE Honest'
  BY DEF Honest
<1>1. UNCHANGED <<original, foreign, vouched>> /\ ~Committed
  BY <1>0 DEF Rollback, RollbackEntry, JournalRestored, RollbackEnds, RestoredEnds,
              ReconcileClaim, JournalReconciled, ReconcileEnds, DiscardSidecar,
              JournalDiscarded, RetryAttempt, SealRolledBack, SealBlocked, history, Phased,
              Undoing
<1>2. ASSUME NEW id \in ActionId, JournalRestored(id) PROVE Honest'
  <2>1. /\ UNCHANGED <<sidecar, claims>> /\ id \in pass.done
        /\ Restores' = Restores \ {id} /\ undoing # "resumed"
    BY <1>0, <1>2, RestoredFields DEF JournalRestored, Live
  <2>2. id \in pass.dirty => Record(Update({}, {Reconcile(id)}, {Restore(id)}))
    BY <1>2 DEF JournalRestored
  <2>3. id \in pass.dirty => Reconcile(id) \in journal'.pending
    BY <1>0, <2>2, RecordFields
  <2>4. Reconciles \subseteq Reconciles'
    <3>1. PICK b : Record(Update({}, b, {Restore(id)}))
      BY <1>2 DEF JournalRestored
    <3>2. journal'.pending = (journal.pending \ {Restore(id)}) \cup b
      BY <1>0, <3>1, RecordFields
    <3>. QED BY <3>2, CompensationNames DEF Reconciles
  <2>5. ASSUME NEW f \in File, Suspect(f) PROVE Suspect(f)'
    <3>1. CASE \E k \in Reconciles : k.file = f
      BY <2>4, <3>1 DEF Suspect
    <3>2. CASE \E k \in Restores : k # id /\ k.file = f /\ Changes(k)
      BY <2>1, <3>2 DEF Suspect, Changes
    <3>3. CASE id.file = f /\ Changes(id)
      <4>1. id \in pass.dirty
        BY <2>1, <3>3 DEF Carried
      <4>. QED BY <2>3, <3>3, <4>1 DEF Suspect, Reconciles
    <3>. QED BY <2>5, <3>1, <3>2, <3>3 DEF Suspect
  <2>. QED BY <1>1, <2>1, <2>5, HonestKept DEF Live
<1>3. CASE JournalReconciled
  <2>1. /\ UNCHANGED <<sidecar, claims, undoing>> /\ pass.persisted # "none"
        /\ Record(Update({}, {}, {Reconcile(id) : id \in ReconcileUnit(pass.persisted)}))
    BY <1>3 DEF JournalReconciled, history
  <2>2. journal'.pending
          = journal.pending \ {Reconcile(id) : id \in ReconcileUnit(pass.persisted)}
    BY <1>0, <2>1, RecordFields
  <2>3. Restores' = Restores
    BY <2>2, CompensationNames DEF Restores, ReconcileUnit, Reconciles
  <2>4. \A k \in Reconciles : UnitOf[k.file] # pass.persisted => k \in Reconciles'
    BY <2>2, CompensationNames DEF Reconciles, ReconcileUnit
  <2>5. pass.persisted \notin claims
    BY <2>1 DEF Carried
  <2>6. \A f \in File : UnitOf[f] \in claims' /\ Suspect(f) => Suspect(f)'
    BY <2>1, <2>3, <2>4, <2>5 DEF Suspect, Changes
  <2>. QED BY <1>1, <2>1, <2>6, HonestKept DEF Live
<1>4. CASE DiscardSidecar
  <2>1. /\ UNCHANGED <<journal, claims>> /\ Restores = {}
        /\ undoing # "resumed"
    BY <1>0, <1>4 DEF DiscardSidecar, Evidenced, Live
  <2>2. \A f : Suspect(f) => Suspect(f)'
    BY <2>1 DEF Suspect, Restores, Reconciles
  <2>. QED BY <1>1, <2>1, <2>2, HonestKept DEF Live
<1>5. ASSUME claims' \subseteq claims, sidecar' = sidecar, undoing' = undoing,
             journal.pending \ {Discard} \subseteq journal'.pending
      PROVE  Honest'
  <2>1. Restores \subseteq Restores' /\ Reconciles \subseteq Reconciles'
    BY <1>5, CompensationNames DEF Restores, Reconciles
  <2>2. \A f : Suspect(f) => Suspect(f)'
    BY <1>5, <2>1, SuspectKept DEF Changes
  <2>. QED BY <1>1, <1>5, <2>2, HonestKept DEF Live
<1>6. CASE JournalDiscarded
  <2>1. Record(Update({}, {}, {Discard}))
    BY <1>6 DEF JournalDiscarded
  <2>2. journal'.pending = journal.pending \ {Discard}
    BY <1>0, <2>1, RecordFields
  <2>. QED BY <1>5, <1>6, <2>2 DEF JournalDiscarded, history
<1>7. CASE SealRolledBack
  <2>1. journal'.pending = journal.pending
    BY <1>0, <1>7 DEF SealRolledBack, Settle, ApplyUpdate, Update, Journal
  <2>. QED BY <1>5, <1>7, <2>1 DEF SealRolledBack, history
<1>8. CASE SealBlocked
  <2>1. journal'.pending = journal.pending
    BY <1>0, <1>8, SettleFields DEF SealBlocked, Status, FailureCode
  <2>. QED BY <1>5, <1>8, <2>1 DEF SealBlocked, history
<1>. QED BY <1>2, <1>3, <1>4, <1>5, <1>6, <1>7, <1>8
         DEF Rollback, RollbackEntry, RollbackEnds, RestoredEnds, ReconcileClaim,
             ReconcileEnds, RetryAttempt, durable, history

LEMMA HonestNext ==
  ASSUME ClaimsInv, [Next]_vars PROVE Honest'
<1>0. /\ RestoreInv /\ Honest /\ Traced /\ Unwritten /\ Carried
      /\ IInv /\ TypeOK /\ Phased /\ journal \in Journal
  BY DEF ClaimsInv, RestoreInv, IInv, TypeOK
<1>. SUFFICES ASSUME Live' PROVE Honest'
  BY DEF Honest
<1>1. CASE BeginTransaction
  BY <1>1 DEF BeginTransaction, Honest
<1>2. ASSUME claims' \subseteq claims, UNCHANGED <<sidecar, vouched, original>>,
             foreign \subseteq foreign', undoing # "resumed",
             journal'.pending = journal.pending, ~BeginTransaction
      PROVE  Honest'
  <2>1. Live
    BY <1>0, <1>2, CommittedLasts DEF Live
  <2>2. \A f : Suspect(f) => Suspect(f)'
    BY <1>2 DEF Suspect, Restores, Reconciles, Changes
  <2>. QED BY <1>0, <1>2, <2>1, <2>2 DEF Honest
<1>3. ASSUME NEW action, journal' = Activate(journal, action)
      PROVE  journal'.pending = journal.pending
  BY <1>0, <1>3, ActivateFields
<1>4. CASE BootRollback \/ BootResume \/ BootCommitCleanup
  <2>1. UNCHANGED <<claims, sidecar, vouched, original, foreign>> /\ undoing # "resumed"
    BY <1>4 DEF BootRollback, BootResume, BootCommitCleanup, history, Live
  <2>2. journal'.pending = journal.pending
    BY <1>3, <1>4 DEF BootRollback, BootResume, BootCommitCleanup
  <2>. QED BY <1>1, <1>2, <2>1, <2>2
<1>5. CASE Fail \/ Environment \/ UNCHANGED vars
  BY <1>1, <1>2, <1>5
     DEF Fail, Environment, Crash, CrashPersisting, Edit, vars, durable, history, Live
<1>6. CASE Commit
  <2>1. CASE CommitGeneration
    <3>1. /\ journal'.phase = "generation_committed"
          /\ journal'.completed = journal.completed \cup {"generation_committed"}
      BY <1>0, <2>1 DEF CommitGeneration, Advance, ApplyUpdate, Update, Journal
    <3>. QED BY <3>1 DEF Live, Committed
  <2>2. ASSUME pc \in Sealing PROVE ~Commit
    <3>1. ~Committed \/ BeginTransaction
      BY <1>0, CommittedLasts DEF Live
    <3>. QED BY <1>0, <2>2, <3>1 DEF Phased, BeginTransaction, Sealing
  <2>3. CASE CleanupFails
    <3>1. journal'.pending = journal.pending
      BY <1>0, <2>3, SettleFields DEF CleanupFails, Status, FailureCode
    <3>. QED BY <1>1, <1>2, <2>3, <3>1 DEF CleanupFails, history, Live
  <2>. QED BY <1>1, <1>2, <1>6, <2>1, <2>2, <2>3
           DEF Commit, IntendCleanup, CleanupSidecar, JournalCleanup, SealCommitted, Announce,
               Stop, Sealing, durable, history, Live
<1>. QED BY <1>0, <1>1, <1>4, <1>5, <1>6, HonestWriteStep, HonestRollback DEF Next, Boot

-----------------------------------------------------------------------------
LEMMA InitClaimsInv == Init => ClaimsInv
<1>. SUFFICES ASSUME Init PROVE ClaimsInv
  OBVIOUS
<1>1. /\ pass = NoPass /\ step = NoStep /\ pc = "down" /\ vouched = original
      /\ NoId \notin ActionId
  BY ConstantsAssumption DEF Init, NoId, ActionId
<1>2. Honest
  BY <1>1 DEF Honest
<1>3. Traced
  BY <1>1 DEF Traced, Working
<1>4. Unwritten /\ Carried
  BY <1>1 DEF Unwritten, Carried, NoPass, NoStep
<1>. QED BY <1>2, <1>3, <1>4, InitRestoreInv DEF ClaimsInv

LEMMA NextClaimsInv == ClaimsInv /\ [Next]_vars => ClaimsInv'
<1>. SUFFICES ASSUME ClaimsInv, [Next]_vars PROVE ClaimsInv'
  OBVIOUS
<1>0. /\ RestoreInv /\ IInv /\ Ordered /\ Traced /\ Unwritten /\ Carried
  BY DEF ClaimsInv, RestoreInv
<1>. QED BY <1>0, NextRestoreInv, HonestNext, TracedNext, UnwrittenNext, CarriedNext
         DEF ClaimsInv

(* Every reachable state satisfies the invariant the flags rest on. *)
THEOREM ClaimsInvariance == Spec => []ClaimsInv
<1>1. ClaimsInv /\ UNCHANGED vars => ClaimsInv'
  BY NextClaimsInv
<1>. QED BY InitClaimsInv, NextClaimsInv, PTL DEF Spec

(* After a rollback every flag that is left stands for the files that are  *)
(* there.                                                                  *)
THEOREM ClaimsAreTrue == Spec => []ClaimsVouchLiveFiles
<1>1. ClaimsInv /\ RolledBackRestoresFiles => ClaimsVouchLiveFiles
  <2>. SUFFICES ASSUME ClaimsInv, RolledBackRestoresFiles,
                       journal.status = "rolled_back", undoing # "resumed",
                       NEW f \in File \ foreign, UnitOf[f] \in claims
                PROVE  disk[f] = vouched[f]
    BY DEF ClaimsVouchLiveFiles
  <2>1. Restores = {} /\ Reconciles = {} /\ Live
    BY DEF ClaimsInv, RestoreInv, Closed, Restores, Reconciles, Live
  <2>2. vouched[f] = original[f]
    BY <2>1 DEF ClaimsInv, Honest, Suspect
  <2>. QED BY <2>2 DEF RolledBackRestoresFiles
<1>. QED BY <1>1, ClaimsInvariance, RollbacksRestore, PTL

-----------------------------------------------------------------------------
(***************************************************************************)
(* The evidence recovery needs.                                            *)
(***************************************************************************)
(* Nobody else has edited a file, no write was cut off, nothing is committed. *)
Calm == foreign = {} /\ ~torn /\ ~Committed

(* The newest of some entries for its file. *)
Top(id, ids) == id \in ids /\ \A k \in ids : k.file = id.file => k.index <= id.index

(* The inspection accepts this entry. *)
Ready(id) == AlreadyRestored(id) \/ ShowsPostimage(id)

(* An entry found what the pending one before it, of its file, has left. *)
Linked ==
  Calm /\ undoing = "no" =>
    \A m \in Restores, k \in DOMAIN sidecar :
      /\ sidecar[k].file = m.file /\ m.index < k
      /\ \A r \in Restores : r.file = m.file => r.index <= m.index \/ k <= r.index
      => sidecar[m.index].postimage = sidecar[k].preimage

(* The digest of a recorded image is that of the image. *)
Digested ==
  Calm /\ undoing = "no" =>
    \A m \in Restores : m # step.recorded /\ sidecar[m.index].postimage # Unrecorded =>
      digests[m] = sidecar[m.index].postimage

(* While the startup runs, a file shows what its newest entry recorded, or *)
(* found if its write is still to come.                                    *)
Current ==
  Calm /\ pc \in Working =>
    \A id \in Restores : Top(id, Restores) =>
      IF id \in step.open
      THEN pc = "prepare" => disk[id.file] = sidecar[id.index].preimage
      ELSE disk[id.file] = sidecar[id.index].postimage

(* What a write step prepares comes last. *)
Fitted ==
  /\ step.fresh # NoId =>
       /\ step.fresh.index = Len(sidecar)
       /\ \A o \in step.open : o.file # step.fresh.file
       /\ Calm => sidecar[step.fresh.index].preimage = disk[step.fresh.file]
  /\ \A o \in step.open : Top(o, Restores)

(* A rollback, and one that follows it, can go on where the last one ended. *)
Returning ==
  Calm =>
    /\ undoing = "begun" => \A id \in Restores : AlreadyRestored(id)
    /\ undoing = "no" /\ pc = "down" => \A id \in Restores : Top(id, Restores) => Ready(id)
    /\ undoing = "no" /\ pc = "rollback" =>
         /\ \A id \in pass.todo : Top(id, pass.todo) => Ready(id)
         /\ \A id \in Restores \ pass.todo : AlreadyRestored(id)
    /\ pc \in Undoing \ {"rollback"} => \A id \in Restores : AlreadyRestored(id)

Served == pc = "running" => Committed

EvidenceInv == /\ ClaimsInv /\ Linked /\ Digested /\ Current
               /\ Fitted /\ Returning /\ Served
-----------------------------------------------------------------------------
LEMMA CalmLasts ==
  ASSUME TypeOK, [Next]_vars, ~BeginTransaction, Calm' PROVE Calm
<1>1. ~Committed
  BY CommittedLasts DEF Calm
<1>2. foreign' = foreign \/ \E f \in File : foreign' = foreign \cup {f}
  BY DEF Next, Boot, BootRollback, BootResume, BootCommitCleanup, WriteStep, BeginStep,
         IntendSidecar, RecordPreimage, JournalPreimage, WriteTarget, WriteReturns,
         RecordPostimage, JournalPostimage, PersistClaim, IntendUnverifiable, RunUnverifiable,
         Fail, Rollback, RollbackEntry, JournalRestored, RollbackEnds, RestoredEnds,
         ReconcileClaim, JournalReconciled, ReconcileEnds, DiscardSidecar, JournalDiscarded,
         RetryAttempt, SealRolledBack, SealBlocked, Commit, CommitGeneration, IntendCleanup,
         CleanupSidecar, JournalCleanup, SealCommitted, CleanupFails, Announce, Stop,
         Environment, Crash, CrashPersisting, Edit, vars, durable, history
<1>3. torn => torn'
  BY Zenon
     DEF Next, Boot, BootRollback, BootResume, BootCommitCleanup, WriteStep, BeginStep,
         IntendSidecar, RecordPreimage, JournalPreimage, WriteTarget, WriteReturns,
         RecordPostimage, JournalPostimage, PersistClaim, IntendUnverifiable, RunUnverifiable,
         Fail, Rollback, RollbackEntry, JournalRestored, RollbackEnds, RestoredEnds,
         ReconcileClaim, JournalReconciled, ReconcileEnds, DiscardSidecar, JournalDiscarded,
         RetryAttempt, SealRolledBack, SealBlocked, Commit, CommitGeneration, IntendCleanup,
         CleanupSidecar, JournalCleanup, SealCommitted, CleanupFails, Announce, Stop,
         Environment, Crash, CrashPersisting, Edit, vars, durable, history
<1>. QED BY <1>1, <1>2, <1>3 DEF Calm

LEMMA WorkingUndoesNothing ==
  ASSUME IInv, Begun, Unspoiled, Calm, pc \in Working PROVE undoing = "no"
BY DEF Begun, Unspoiled, Calm, IInv, TypeOK, Working

LEMMA ServedNext ==
  ASSUME IInv, Closed, Served, [Next]_vars PROVE Served'
<1>. SUFFICES ASSUME pc' = "running" PROVE Committed'
  BY DEF Served
<1>0. TypeOK /\ Phased
  BY DEF IInv
<1>1. ~BeginTransaction
  BY DEF BeginTransaction
<1>2. pc = "running" \/ pc = "announce" \/ pc \in Sealing
  BY DEF Next, Boot, BeginTransaction, BootRollback, BootResume, BootCommitCleanup,
         WriteStep, BeginStep, IntendSidecar, RecordPreimage, JournalPreimage, WriteTarget,
         WriteReturns, RecordPostimage, JournalPostimage, PersistClaim, IntendUnverifiable,
         RunUnverifiable, Fail, Rollback, RollbackEntry, JournalRestored, RollbackEnds,
         RestoredEnds, ReconcileClaim, JournalReconciled, ReconcileEnds, DiscardSidecar,
         JournalDiscarded, RetryAttempt, SealRolledBack, SealBlocked, Commit,
         CommitGeneration, IntendCleanup, CleanupSidecar, JournalCleanup, SealCommitted,
         CleanupFails, Announce, Stop, Environment, Crash, CrashPersisting, Edit, vars, Sealing
<1>3. Committed
  BY <1>0, <1>2 DEF Served, Closed, Phased
<1>. QED BY <1>0, <1>1, <1>3, CommittedLasts

(* What is pending has an entry among those recorded. *)
LEMMA PendingEntry ==
  ASSUME IInv, NEW id \in Restores
  PROVE  /\ id \in ActionId /\ HasEntry(id) /\ id.index \in 1 .. Len(sidecar)
         /\ id.index \in Nat /\ id.index \in 1 .. id.index /\ id.file \in File
         /\ sidecar[id.index] \in Entry /\ Len(sidecar) \in Nat
<1>1. id \in ActionId /\ HasEntry(id)
  BY DEF Restores, IInv, Evidenced, PendingWorkHasEvidence
<1>2. sidecar \in Seq(Entry) /\ DOMAIN sidecar = 1 .. Len(sidecar) /\ Len(sidecar) \in Nat
  BY DEF IInv, TypeOK
<1>3. sidecar[id.index] \in Entry
  BY <1>1, <1>2, ElementOfSeq DEF HasEntry
<1>. QED BY <1>1, <1>2, <1>3, IndexBelow DEF HasEntry, ActionId, IInv

(* A preimage that is being journalled becomes a pending restore. *)
LEMMA PreimageFields ==
  ASSUME IInv, JournalPreimage
  PROVE  /\ UNCHANGED <<disk, sidecar, digests, history>>
         /\ pc = "prepare" /\ pc' \in {"prepare", "write"}
         /\ step.fresh # NoId /\ step.fresh \in ActionId /\ HasEntry(step.fresh)
         /\ Restores' = Restores \cup {step.fresh}
         /\ step'.open = step.open \cup {step.fresh} /\ step'.fresh = NoId
         /\ step'.recorded = step.recorded
<1>1. /\ UNCHANGED <<disk, sidecar, digests, history>>
      /\ pc = "prepare" /\ pc' \in {"prepare", "write"}
      /\ step.fresh # NoId /\ step.fresh \in ActionId /\ HasEntry(step.fresh)
      /\ step'.open = step.open \cup {step.fresh} /\ step'.fresh = NoId
      /\ step'.recorded = step.recorded
  BY DEF JournalPreimage, IInv, TypeOK, Prepared
<1>2. Record(Update({}, {Restore(step.fresh)}, {})) /\ journal \in Journal
  BY DEF JournalPreimage, IInv, TypeOK
<1>3. journal'.pending = journal.pending \cup {Restore(step.fresh)}
  BY <1>2, RecordFields
<1>4. Restores' = Restores \cup {step.fresh}
  BY <1>1, <1>3, CompensationNames DEF Restores
<1>. QED BY <1>1, <1>4

LEMMA PostimageFields ==
  ASSUME IInv, Opened, Unwritten, NEW id \in ActionId, RecordPostimage(id)
  PROVE  /\ UNCHANGED <<disk, digests, history>> /\ Restores' = Restores
         /\ pc = "record" /\ pc' = "record" /\ id \in step.open /\ id \in Restores
         /\ step'.open = step.open \ {id} /\ step'.recorded = id /\ step'.fresh = step.fresh
         /\ DOMAIN sidecar' = DOMAIN sidecar
         /\ sidecar[id.index].postimage = Unrecorded
         /\ sidecar'[id.index].postimage = disk[id.file] /\ id.index \in DOMAIN sidecar
         /\ \A k \in DOMAIN sidecar : /\ sidecar'[k].file = sidecar[k].file
                                      /\ sidecar'[k].preimage = sidecar[k].preimage
         /\ \A k \in DOMAIN sidecar \ {id.index} : sidecar'[k] = sidecar[k]
<1>1. /\ UNCHANGED <<disk, digests, history, journal>>
      /\ pc = "record" /\ pc' = "record" /\ id \in step.open
      /\ step'.open = step.open \ {id} /\ step'.recorded = id /\ step'.fresh = step.fresh
      /\ sidecar' = [sidecar EXCEPT ![id.index].postimage = disk[id.file]]
  BY DEF RecordPostimage, IInv, TypeOK
<1>2. id.index \in DOMAIN sidecar /\ id \in Restores
  BY <1>1 DEF IInv, Prepared, HasEntry, Opened
<1>3. sidecar[id.index].postimage = Unrecorded
  BY <1>1 DEF Unwritten
<1>4. sidecar[id.index] \in Entry
  BY <1>2, ElementOfSeq DEF IInv, TypeOK
<1>5. sidecar'[id.index].postimage = disk[id.file]
  <2>1. sidecar' = [sidecar EXCEPT ![id.index] =
                      [sidecar[id.index] EXCEPT !.postimage = disk[id.file]]]
    BY <1>1
  <2>. QED BY <2>1, <1>2, <1>4 DEF Entry
<1>6. Restores' = Restores
  BY <1>1 DEF Restores
<1>. QED BY <1>1, <1>2, <1>3, <1>5, <1>6, CompletedEntry DEF IInv
-----------------------------------------------------------------------------
LEMMA LinkedNext ==
  ASSUME RestoreInv, Unwritten, Linked, Current, Fitted, [Next]_vars PROVE Linked'
<1>0. /\ IInv /\ TypeOK /\ Phased /\ Begun /\ Unspoiled /\ Opened /\ Evidenced /\ Prepared
      /\ DOMAIN sidecar = 1 .. Len(sidecar) /\ Len(sidecar) \in Nat
  BY DEF RestoreInv, IInv, TypeOK
<1>. SUFFICES ASSUME Calm', undoing' = "no" PROVE Linked'
  BY DEF Linked
<1>1. CASE Restores' = {}
  BY <1>1 DEF Linked
<1>2. CASE BeginTransaction
  BY <1>1, <1>2, NewJournalFields DEF BeginTransaction, Restores
<1>3. CASE DiscardSidecar
  BY <1>0, <1>1, <1>3 DEF DiscardSidecar, Evidenced, Restores
<1>4. CASE ~BeginTransaction /\ ~DiscardSidecar
  <2>1. Calm
    BY <1>0, <1>4, CalmLasts
  <2>2. undoing = "no"
    BY <1>0, <1>4, UndoingKept DEF BootResume, JournalRestored, TypeOK
  <2>3. ASSUME sidecar' = sidecar, Restores' = Restores PROVE Linked'
    BY <2>1, <2>2, <2>3 DEF Linked
  <2>4. CASE ~Moving
    BY <1>0, <2>1, <2>3, <2>4, Quiet DEF Calm
  <2>5. CASE BootResume
    BY <1>0, <2>3, <2>5, ActivateFields, PendingKept DEF BootResume, TypeOK
  <2>6. ASSUME NEW g \in File, RecordPreimage(g) PROVE Linked'
    <3>1. /\ DOMAIN sidecar' = 1 .. Len(sidecar) + 1
          /\ \A k \in DOMAIN sidecar : sidecar'[k] = sidecar[k]
          /\ sidecar'[Len(sidecar) + 1].file = g
          /\ sidecar'[Len(sidecar) + 1].preimage = disk[g]
      BY <1>0, <2>6, AppendedEntry
    <3>2. Restores' = Restores /\ g \in step.todo /\ pc \in Working
      BY <2>6 DEF RecordPreimage, Restores, Working
    <3>3. ASSUME NEW m \in Restores, NEW k \in DOMAIN sidecar',
                 sidecar'[k].file = m.file, m.index < k,
                 \A r \in Restores : r.file = m.file => r.index <= m.index \/ k <= r.index
          PROVE  sidecar'[m.index].postimage = sidecar'[k].preimage
      <4>1. \A r \in Restores : r.index \in 1 .. Len(sidecar)
        BY <1>0, PendingEntry
      <4>2. CASE k \in DOMAIN sidecar
        BY <1>0, <2>1, <2>2, <3>1, <3>3, <4>1, <4>2 DEF Linked
      <4>3. CASE k = Len(sidecar) + 1
        <5>1. Top(m, Restores) /\ m.file = g
          BY <1>0, <3>1, <3>3, <4>1, <4>3 DEF Top
        <5>2. m \notin step.open
          BY <1>0, <3>2, <5>1 DEF Unwritten, TypeOK
        <5>3. disk[g] = sidecar[m.index].postimage
          BY <2>1, <3>2, <5>1, <5>2 DEF Current
        <5>. QED BY <1>0, <3>1, <4>1, <4>3, <5>3
      <4>. QED BY <1>0, <3>1, <4>2, <4>3
    <3>. QED BY <3>2, <3>3 DEF Linked
  <2>7. CASE JournalPreimage
    <3>1. /\ sidecar' = sidecar /\ Restores' = Restores \cup {step.fresh}
          /\ step.fresh.index = Len(sidecar)
      BY <1>0, <2>7, PreimageFields DEF Fitted
    <3>2. ASSUME NEW m \in Restores', NEW k \in DOMAIN sidecar,
                 sidecar[k].file = m.file, m.index < k,
                 \A r \in Restores' : r.file = m.file => r.index <= m.index \/ k <= r.index
          PROVE  sidecar[m.index].postimage = sidecar[k].preimage
      <4>1. m \in Restores
        BY <1>0, <3>1, <3>2
      <4>. QED BY <2>1, <2>2, <3>1, <3>2, <4>1 DEF Linked
    <3>. QED BY <3>1, <3>2 DEF Linked
  <2>8. ASSUME NEW id \in ActionId, RecordPostimage(id) PROVE Linked'
    <3>1. /\ Restores' = Restores /\ id \in Restores /\ DOMAIN sidecar' = DOMAIN sidecar
          /\ sidecar[id.index].postimage = Unrecorded
          /\ \A k \in DOMAIN sidecar : /\ sidecar'[k].file = sidecar[k].file
                                       /\ sidecar'[k].preimage = sidecar[k].preimage
          /\ \A k \in DOMAIN sidecar \ {id.index} : sidecar'[k] = sidecar[k]
      BY <1>0, <2>8, PostimageFields
    <3>2. ASSUME NEW m \in Restores, NEW k \in DOMAIN sidecar,
                 sidecar[k].file = m.file, m.index < k,
                 \A r \in Restores : r.file = m.file => r.index <= m.index \/ k <= r.index
          PROVE  sidecar'[m.index].postimage = sidecar[k].preimage
      <4>1. sidecar[m.index].postimage = sidecar[k].preimage
        BY <2>1, <2>2, <3>2 DEF Linked
      <4>2. sidecar[k].preimage # Unrecorded
        <5>1. sidecar[k] \in Entry
          BY <1>0, ElementOfSeq DEF TypeOK
        <5>. QED BY <5>1, ConstantsAssumption DEF Entry, Image
      <4>3. m.index # id.index /\ m.index \in DOMAIN sidecar
        BY <1>0, <3>1, <4>1, <4>2, PendingEntry
      <4>. QED BY <3>1, <4>1, <4>3
    <3>. QED BY <3>1, <3>2 DEF Linked
  <2>9. ASSUME \/ \E id \in ActionId, image \in Image : WriteTarget(id, image)
               \/ \E id \in ActionId : RollbackEntry(id)
        PROVE  Linked'
    BY <2>3, <2>9 DEF WriteTarget, RollbackEntry, Restores
  <2>10. CASE \E id \in ActionId : JournalRestored(id)
    BY <2>2, <2>10 DEF JournalRestored
  <2>11. ~CleanupSidecar
    BY <1>0, <2>1 DEF CleanupSidecar, Phased, Sealing, Calm
  <2>12. ASSUME NEW f \in File, NEW image \in Image, Edit(f, image) PROVE FALSE
    BY <2>12 DEF Edit, Calm
  <2>. QED BY <1>4, <2>4, <2>5, <2>6, <2>7, <2>8, <2>9, <2>10, <2>11, <2>12 DEF Moving
<1>. QED BY <1>2, <1>3, <1>4

LEMMA DigestedNext ==
  ASSUME RestoreInv, Unwritten, Digested, [Next]_vars PROVE Digested'
<1>0. /\ IInv /\ TypeOK /\ Phased /\ Opened /\ Evidenced /\ Prepared /\ NoId \notin ActionId
  BY ConstantsAssumption DEF RestoreInv, IInv, NoId, ActionId
<1>. SUFFICES ASSUME Calm', undoing' = "no" PROVE Digested'
  BY DEF Digested
<1>1. CASE Restores' = {}
  BY <1>1 DEF Digested
<1>2. CASE BeginTransaction
  BY <1>1, <1>2, NewJournalFields DEF BeginTransaction, Restores
<1>3. CASE DiscardSidecar
  BY <1>0, <1>1, <1>3 DEF DiscardSidecar, Evidenced, Restores
<1>4. CASE ~BeginTransaction /\ ~DiscardSidecar
  <2>1. Calm
    BY <1>0, <1>4, CalmLasts
  <2>2. undoing = "no"
    BY <1>0, <1>4, UndoingKept DEF BootResume, JournalRestored, TypeOK
  <2>3. ASSUME UNCHANGED <<sidecar, digests>>, Restores' = Restores,
               step'.recorded = step.recorded \/ step.recorded = NoId
        PROVE  Digested'
    BY <1>0, <2>1, <2>2, <2>3 DEF Digested, Restores
  <2>4. CASE JournalPostimage
    <3>1. /\ sidecar' = sidecar /\ step.recorded \in ActionId
          /\ digests' = [digests EXCEPT ![step.recorded]
                           = sidecar[step.recorded.index].postimage]
      BY <1>0, <2>4 DEF JournalPostimage, TypeOK
    <3>2. Restores' = Restores
      BY <1>0, <2>1, <2>4, Quiet
         DEF Calm, Moving, JournalPostimage, BeginTransaction, BootResume, RecordPreimage,
             JournalPreimage, WriteTarget, RecordPostimage, RollbackEntry, JournalRestored,
             DiscardSidecar, CleanupSidecar, Edit
    <3>3. \A m \in Restores \ {step.recorded} : digests'[m] = digests[m]
      BY <1>0, <3>1 DEF TypeOK, Restores
    <3>4. digests'[step.recorded] = sidecar[step.recorded.index].postimage
      BY <1>0, <3>1 DEF TypeOK
    <3>. QED BY <2>1, <2>2, <3>1, <3>2, <3>3, <3>4 DEF Digested
  <2>5. CASE ~Moving /\ ~JournalPostimage
    <3>1. Restores' = Restores /\ sidecar' = sidecar
      BY <1>0, <2>1, <2>5, Quiet DEF Calm
    <3>2. digests' = digests
      BY <1>4, <2>5
         DEF Moving, Next, Boot, BootRollback, BootCommitCleanup, WriteStep, BeginStep,
             IntendSidecar, WriteReturns, PersistClaim, IntendUnverifiable, RunUnverifiable,
             Fail, Rollback, RollbackEnds, RestoredEnds, ReconcileClaim, JournalReconciled,
             ReconcileEnds, JournalDiscarded, RetryAttempt, SealRolledBack, SealBlocked,
             Commit, CommitGeneration, IntendCleanup, JournalCleanup, SealCommitted,
             CleanupFails, Announce, Stop, Environment, Crash, CrashPersisting, vars, durable
    <3>3. pc = "record" => step' = step
      BY <1>0, <2>1, <2>5
         DEF Calm, Phased, Working, Moving, Next, Boot, BeginTransaction, BootRollback,
             BootCommitCleanup, WriteStep, BeginStep, IntendSidecar, WriteReturns,
             PersistClaim, IntendUnverifiable, RunUnverifiable, Fail, Rollback, RollbackEnds,
             RestoredEnds, ReconcileClaim, JournalReconciled, ReconcileEnds,
             JournalDiscarded, RetryAttempt, SealRolledBack, SealBlocked, Commit,
             CommitGeneration, IntendCleanup, JournalCleanup, SealCommitted, CleanupFails,
             Announce, Stop, Environment, Crash, CrashPersisting, vars
    <3>4. pc # "record" => step.recorded = NoId
      BY <1>0 DEF Prepared
    <3>. QED BY <2>3, <3>1, <3>2, <3>3, <3>4
  <2>6. CASE BootResume
    <3>1. /\ UNCHANGED <<sidecar, digests, step>> /\ journal'.pending = journal.pending
      BY <1>0, <2>6, ActivateFields DEF BootResume, TypeOK
    <3>. QED BY <2>3, <3>1, PendingKept
  <2>7. ASSUME NEW g \in File, RecordPreimage(g) PROVE Digested'
    <3>1. \A k \in DOMAIN sidecar : sidecar'[k] = sidecar[k]
      BY <1>0, <2>7, AppendedEntry
    <3>2. /\ Restores' = Restores /\ digests' = digests /\ step'.recorded = step.recorded
      BY <1>0, <2>7 DEF RecordPreimage, Restores, TypeOK
    <3>3. \A m \in Restores : sidecar'[m.index] = sidecar[m.index]
      BY <1>0, <3>1, PendingEntry DEF HasEntry
    <3>. QED BY <2>1, <2>2, <3>2, <3>3 DEF Digested
  <2>8. CASE JournalPreimage
    <3>1. /\ UNCHANGED <<sidecar, digests>> /\ Restores' = Restores \cup {step.fresh}
          /\ step'.recorded = step.recorded /\ step.fresh \in ActionId
      BY <1>0, <2>8, PreimageFields
    <3>2. sidecar[step.fresh.index].postimage = Unrecorded
      BY <3>1 DEF Unwritten
    <3>. QED BY <2>1, <2>2, <3>1, <3>2 DEF Digested
  <2>9. ASSUME NEW id \in ActionId, RecordPostimage(id) PROVE Digested'
    <3>1. /\ Restores' = Restores /\ digests' = digests /\ step'.recorded = id
          /\ HasEntry(id) /\ step.recorded = NoId
          /\ \A k \in DOMAIN sidecar \ {id.index} : sidecar'[k] = sidecar[k]
      BY <1>0, <2>9, PostimageFields, PendingEntry DEF RecordPostimage
    <3>2. ASSUME NEW m \in Restores, m # id PROVE sidecar'[m.index] = sidecar[m.index]
      <4>1. HasEntry(m) /\ m \in ActionId
        BY <1>0, PendingEntry
      <4>2. m.index # id.index
        BY <3>1, <3>2, <4>1, EntryIsId DEF HasEntry
      <4>. QED BY <3>1, <4>1, <4>2 DEF HasEntry
    <3>. QED BY <1>0, <2>1, <2>2, <3>1, <3>2 DEF Digested, Restores
  <2>10. ASSUME \/ \E id \in ActionId, image \in Image : WriteTarget(id, image)
                \/ \E id \in ActionId : RollbackEntry(id)
         PROVE  Digested'
    BY <2>3, <2>10 DEF WriteTarget, RollbackEntry, Restores
  <2>11. CASE \E id \in ActionId : JournalRestored(id)
    BY <2>2, <2>11 DEF JournalRestored
  <2>12. ~CleanupSidecar
    BY <1>0, <2>1 DEF CleanupSidecar, Phased, Sealing, Calm
  <2>13. ASSUME NEW f \in File, NEW image \in Image, Edit(f, image) PROVE FALSE
    BY <2>13 DEF Edit, Calm
  <2>. QED BY <1>4, <2>4, <2>5, <2>6, <2>7, <2>8, <2>9, <2>10, <2>11, <2>12, <2>13 DEF Moving
<1>. QED BY <1>2, <1>3, <1>4

LEMMA SilentFields ==
  ASSUME IInv, IntendSidecar \/ JournalPostimage
  PROVE  /\ UNCHANGED <<disk, sidecar, foreign, torn>> /\ Restores' = Restores
         /\ step'.open = step.open /\ step'.fresh = step.fresh /\ ~BeginTransaction
         /\ pc \in Working
<1>1. TypeOK /\ journal \in Journal
  BY DEF IInv, TypeOK
<1>2. CASE IntendSidecar
  <2>1. Restores' = Restores
    BY <1>1, <1>2, RestoresKept, CompensationNames DEF IntendSidecar
  <2>. QED BY <1>2, <2>1 DEF IntendSidecar, BeginTransaction, history, Working
<1>3. CASE JournalPostimage
  <2>1. Restores' = Restores
    BY <1>1, <1>3, RestoresKept DEF JournalPostimage
  <2>2. step'.open = step.open /\ step'.fresh = step.fresh
    BY <1>1, <1>3 DEF JournalPostimage, TypeOK
  <2>. QED BY <1>3, <2>1, <2>2 DEF JournalPostimage, BeginTransaction, history, Working
<1>. QED BY <1>2, <1>3

LEMMA FittedNext ==
  ASSUME RestoreInv, Unwritten, Fitted, [Next]_vars PROVE Fitted'
<1>0. /\ IInv /\ IInv' /\ TypeOK /\ Phased /\ Opened /\ Evidenced /\ Prepared
      /\ NoId \notin ActionId /\ Len(sidecar) \in Nat
  <2>1. IInv /\ IInv' /\ NoId \notin ActionId /\ Opened
    BY NextIInv, ConstantsAssumption DEF RestoreInv, NoId, ActionId
  <2>. QED BY <2>1 DEF IInv, TypeOK
<1>1. CASE pc' \notin {"prepare", "write", "record"}
  <2>1. step'.open = {} /\ step'.fresh = NoId
    BY <1>0, <1>1 DEF IInv, Prepared
  <2>. QED BY <2>1 DEF Fitted
<1>2. CASE pc' \in {"prepare", "write", "record"}
  <2>1. \/ WriteStep \/ UNCHANGED vars \/ \E f \in File, image \in Image : Edit(f, image)
    BY <1>2, WorkingStep DEF Working
  <2>2. ASSUME step'.open \subseteq step.open, Restores' = Restores, step'.fresh = NoId
        PROVE  Fitted'
    BY <2>2 DEF Fitted, Top
  <2>3. ASSUME step'.open = step.open, step'.fresh = step.fresh, Restores' = Restores,
               sidecar' = sidecar, Calm' => Calm /\ disk' = disk
        PROVE  Fitted'
    BY <2>3 DEF Fitted, Top
  <2>4. CASE UNCHANGED vars
    BY <2>3, <2>4 DEF vars, durable, history, Restores, Calm, Committed
  <2>5. ASSUME NEW f \in File, NEW image \in Image, Edit(f, image) PROVE Fitted'
    BY <2>3, <2>5 DEF Edit, Restores, Calm
  <2>6. ASSUME NEW u \in Unit, NEW outputs, BeginStep(u, outputs) PROVE Fitted'
    BY <2>2, <2>6 DEF BeginStep, NoStep, durable, Restores
  <2>7. ASSUME NEW g \in File, RecordPreimage(g) PROVE Fitted'
    <3>1. /\ Len(sidecar') = Len(sidecar) + 1
          /\ sidecar'[Len(sidecar) + 1].preimage = disk[g]
      <4>. DEFINE e == [file |-> g, preimage |-> disk[g], postimage |-> Unrecorded]
      <4>1. sidecar' = Append(sidecar, e) /\ sidecar \in Seq(Entry) /\ e.preimage = disk[g]
        BY <1>0, <2>7 DEF RecordPreimage, TypeOK
      <4>. HIDE DEF e
      <4>. QED BY <4>1
    <3>2. /\ step'.open = step.open /\ disk' = disk /\ g \in step.todo
          /\ step'.fresh = [file |-> g, index |-> Len(sidecar) + 1] /\ Restores' = Restores
      BY <1>0, <2>7 DEF RecordPreimage, TypeOK, Restores
    <3>3. \A o \in step.open : o.file # g
      BY <1>0, <3>2 DEF Unwritten, TypeOK
    <3>. QED BY <3>1, <3>2, <3>3 DEF Fitted, Top
  <2>8. CASE JournalPreimage
    <3>1. /\ Restores' = Restores \cup {step.fresh} /\ step'.fresh = NoId
          /\ step'.open = step.open \cup {step.fresh} /\ step.fresh # NoId
      BY <1>0, <2>8, PreimageFields
    <3>2. \A r \in Restores : r.index <= step.fresh.index
      BY <1>0, <3>1, PendingEntry DEF Fitted
    <3>3. step.fresh.index <= step.fresh.index
      BY <1>0, <3>1 DEF Fitted
    <3>. QED BY <3>1, <3>2, <3>3 DEF Fitted, Top
  <2>9. ASSUME \/ \E id \in ActionId, image \in Image : WriteTarget(id, image)
               \/ WriteReturns
        PROVE  Fitted'
    <3>1. /\ step' = step /\ pc = "write" /\ Restores' = Restores
      BY <2>9 DEF WriteTarget, WriteReturns, durable, Restores
    <3>2. step.fresh = NoId
      BY <1>0, <3>1 DEF Prepared
    <3>. QED BY <2>2, <3>1, <3>2
  <2>10. ASSUME NEW id \in ActionId, RecordPostimage(id) PROVE Fitted'
    <3>1. /\ Restores' = Restores /\ pc = "record"
          /\ step'.open = step.open \ {id} /\ step'.fresh = step.fresh
      BY <1>0, <2>10, PostimageFields
    <3>. QED BY <1>0, <2>2, <3>1 DEF Prepared
  <2>11. CASE IntendSidecar \/ JournalPostimage
    <3>1. /\ UNCHANGED <<disk, sidecar, foreign, torn>> /\ Restores' = Restores
          /\ step'.open = step.open /\ step'.fresh = step.fresh /\ ~BeginTransaction
      BY <1>0, <2>11, SilentFields
    <3>. QED BY <1>0, <2>3, <3>1, CalmLasts
  <2>. QED BY <1>2, <2>1, <2>4, <2>5, <2>6, <2>7, <2>8, <2>9, <2>10, <2>11
           DEF WriteStep, PersistClaim, IntendUnverifiable, RunUnverifiable
<1>. QED BY <1>1, <1>2

(* Two entries that are the newest of one file are the same. *)
LEMMA TopIsOne ==
  ASSUME IInv, NEW a \in Restores, NEW b \in Restores,
         Top(a, Restores), Top(b, Restores), a.file = b.file
  PROVE  a = b
<1>1. a \in ActionId /\ b \in ActionId /\ a.index \in Nat /\ b.index \in Nat
  BY PendingEntry
<1>2. a.index = b.index
  BY <1>1 DEF Top
<1>. QED BY <1>1, <1>2, EntryIsId

LEMMA CurrentWriteStep ==
  ASSUME RestoreInv, Unwritten, Fitted, Current, WriteStep, Calm, Calm' PROVE Current'
<1>0. /\ IInv /\ TypeOK /\ Opened /\ Prepared /\ pc \in Working /\ journal \in Journal
      /\ pc \notin {"prepare", "write", "record"} => step.open = {}
  <2>1. IInv /\ Opened
    BY DEF RestoreInv
  <2>2. TypeOK /\ Prepared
    BY <2>1 DEF IInv
  <2>. QED BY <2>1, <2>2, PendingGrows DEF Prepared, TypeOK
<1>1. ASSUME UNCHANGED <<disk, sidecar>>, Restores' = Restores, step'.open = step.open,
             pc' = "prepare" => pc = "prepare" \/ step.open = {}
      PROVE  Current'
  BY <1>0, <1>1 DEF Current, Top
<1>2. ASSUME NEW u \in Unit, NEW outputs, BeginStep(u, outputs) PROVE Current'
  <2>1. step'.open = {} /\ step.open = {} /\ UNCHANGED durable
    BY <1>0, <1>2 DEF BeginStep, NoStep
  <2>. QED BY <1>1, <2>1 DEF durable, Restores
<1>3. CASE IntendSidecar \/ JournalPostimage
  <2>1. /\ UNCHANGED <<disk, sidecar>> /\ Restores' = Restores /\ step'.open = step.open
    BY <1>0, <1>3, SilentFields
  <2>2. pc' = "prepare" => pc = "prepare"
    BY <1>3 DEF IntendSidecar, JournalPostimage
  <2>. QED BY <1>1, <2>1, <2>2
<1>4. ASSUME NEW g \in File, RecordPreimage(g) PROVE Current'
  <2>1. \A k \in DOMAIN sidecar : sidecar'[k] = sidecar[k]
    BY <1>0, <1>4, AppendedEntry
  <2>2. /\ step'.open = step.open /\ disk' = disk /\ pc' = pc /\ Restores' = Restores
    BY <1>0, <1>4 DEF RecordPreimage, TypeOK, Restores
  <2>3. \A id \in Restores : sidecar'[id.index] = sidecar[id.index]
    BY <1>0, <2>1, PendingEntry DEF HasEntry
  <2>. QED BY <1>0, <2>2, <2>3 DEF Current, Top
<1>5. CASE JournalPreimage
  <2>1. /\ UNCHANGED <<disk, sidecar>> /\ Restores' = Restores \cup {step.fresh}
        /\ step'.open = step.open \cup {step.fresh} /\ pc = "prepare"
        /\ step.fresh \in ActionId /\ HasEntry(step.fresh) /\ step.fresh # NoId
    BY <1>0, <1>5, PreimageFields DEF history
  <2>2. ASSUME NEW id \in Restores', Top(id, Restores')
        PROVE  IF id \in step'.open THEN disk[id.file] = sidecar[id.index].preimage
               ELSE disk[id.file] = sidecar[id.index].postimage
    <3>1. CASE id = step.fresh
      BY <2>1, <3>1 DEF Fitted
    <3>2. CASE id # step.fresh
      <4>1. id \in Restores /\ Top(id, Restores) /\ (id \in step'.open <=> id \in step.open)
        BY <2>1, <2>2, <3>2 DEF Top
      <4>. QED BY <1>0, <2>1, <4>1 DEF Current
    <3>. QED BY <3>1, <3>2
  <2>. QED BY <2>1, <2>2 DEF Current
<1>6. ASSUME NEW id \in ActionId, NEW image \in Image, WriteTarget(id, image) PROVE Current'
  <2>1. /\ UNCHANGED <<sidecar, step>> /\ Restores' = Restores /\ pc = "write" /\ pc' = "write"
        /\ id \in step.open /\ \A f \in File \ {id.file} : disk'[f] = disk[f]
    BY <1>0, <1>6 DEF WriteTarget, Restores, TypeOK
  <2>2. ASSUME NEW m \in Restores, Top(m, Restores), m \notin step.open
        PROVE  disk'[m.file] = sidecar[m.index].postimage
    <3>1. m.file \in File /\ id \in Restores /\ Top(id, Restores)
      BY <1>0, <2>1, PendingEntry DEF Opened, Fitted
    <3>2. m.file # id.file
      BY <1>0, <2>1, <2>2, <3>1, TopIsOne
    <3>. QED BY <1>0, <2>1, <2>2, <3>1, <3>2 DEF Current
  <2>. QED BY <2>1, <2>2 DEF Current, Top
<1>7. CASE WriteReturns
  BY <1>1, <1>7 DEF WriteReturns, durable, Restores
<1>8. ASSUME NEW id \in ActionId, RecordPostimage(id) PROVE Current'
  <2>1. /\ disk' = disk /\ Restores' = Restores /\ pc' = "record" /\ id \in Restores
        /\ step'.open = step.open \ {id}
        /\ sidecar'[id.index].postimage = disk[id.file]
        /\ \A k \in DOMAIN sidecar \ {id.index} : sidecar'[k] = sidecar[k]
    BY <1>0, <1>8, PostimageFields
  <2>2. ASSUME NEW m \in Restores, Top(m, Restores), m \notin step'.open
        PROVE  disk[m.file] = sidecar'[m.index].postimage
    <3>1. CASE m = id
      BY <2>1, <3>1
    <3>2. CASE m # id
      <4>1. HasEntry(m) /\ HasEntry(id) /\ m \in ActionId
        BY <1>0, <2>1, PendingEntry
      <4>2. m.index # id.index /\ m.index \in DOMAIN sidecar
        BY <3>2, <4>1, EntryIsId DEF HasEntry
      <4>. QED BY <1>0, <2>1, <2>2, <3>2, <4>2 DEF Current
    <3>. QED BY <3>1, <3>2
  <2>. QED BY <2>1, <2>2 DEF Current, Top
<1>9. CASE PersistClaim
  <2>1. /\ UNCHANGED <<disk, sidecar, journal, pc>> /\ step' = NoStep /\ step.open = {}
    BY <1>0, <1>9 DEF PersistClaim
  <2>. QED BY <1>1, <2>1 DEF NoStep, Restores
<1>10. ASSUME NEW u \in Unit, IntendUnverifiable(u) PROVE Current'
  <2>1. Restores' = Restores
    BY <1>0, <1>10, RestoresKept, CompensationNames DEF IntendUnverifiable
  <2>. QED BY <1>1, <1>10, <2>1 DEF IntendUnverifiable
<1>11. CASE RunUnverifiable
  BY <1>1, <1>11 DEF RunUnverifiable, durable, Restores
<1>. QED BY <1>2, <1>3, <1>4, <1>5, <1>6, <1>7, <1>8, <1>9, <1>10, <1>11 DEF WriteStep

LEMMA CurrentNext ==
  ASSUME RestoreInv, Unwritten, Fitted, Current, [Next]_vars PROVE Current'
<1>. SUFFICES ASSUME Calm', pc' \in Working PROVE Current'
  BY DEF Current
<1>0. IInv /\ TypeOK /\ Prepared
  BY DEF RestoreInv, IInv
<1>1. CASE Restores' = {}
  BY <1>1 DEF Current
<1>2. CASE BeginTransaction
  BY <1>1, <1>2, NewJournalFields DEF BeginTransaction, Restores
<1>3. CASE RetryAttempt
  BY <1>1, <1>3 DEF RetryAttempt, durable, Restores
<1>4. CASE BootResume
  <2>1. /\ UNCHANGED <<disk, sidecar, step>> /\ journal'.pending = journal.pending
        /\ pc = "down" /\ pc' = "open" /\ Inspection = "agree" /\ ~Committed
    BY <1>0, <1>4, ActivateFields, InspectionCommitted DEF BootResume, TypeOK
  <2>2. Restores' = Restores /\ step.open = {}
    BY <1>0, <2>1, PendingKept DEF Prepared
  <2>3. \A id \in Restores : Verified(id) /\ ~AlreadyRestored(id)
    BY <2>1 DEF Inspection, InspectUncommitted
  <2>. QED BY <2>1, <2>2, <2>3 DEF Current, Verified, ShowsPostimage
<1>5. ASSUME NEW f \in File, NEW image \in Image, Edit(f, image) PROVE Current'
  BY <1>5 DEF Edit, Calm
<1>6. CASE UNCHANGED vars
  BY <1>6 DEF vars, durable, history, Restores, Current, Calm, Committed, Top
<1>7. CASE WriteStep
  <2>1. Calm
    <3>1. ~BeginTransaction
      BY <1>7, PendingGrows, <1>0 DEF BeginTransaction, Working
    <3>. QED BY <1>0, <3>1, CalmLasts
  <2>. QED BY <1>7, <2>1, CurrentWriteStep
<1>. QED BY <1>2, <1>3, <1>4, <1>5, <1>6, <1>7, WorkingStep

(* What the inspection needs of an entry that counts as restored. *)
LEMMA ReadyOnceRestored ==
  ASSUME IInv, NEW id \in Restores, disk[id.file] = sidecar[id.index].preimage
  PROVE  AlreadyRestored(id)
BY PendingEntry DEF AlreadyRestored, HasEntry

LEMMA ReadyOnceRecorded ==
  ASSUME IInv, Digested, Calm, undoing = "no", pc # "record",
         NEW id \in Restores, disk[id.file] = sidecar[id.index].postimage
  PROVE  ShowsPostimage(id)
<1>1. HasEntry(id) /\ id \in ActionId /\ id.file \in File
  BY PendingEntry
<1>2. disk[id.file] # Unrecorded
  BY <1>1, ConstantsAssumption DEF IInv, TypeOK, Image
<1>3. step.recorded = NoId /\ NoId \notin ActionId
  BY ConstantsAssumption DEF IInv, Prepared, NoId, ActionId
<1>. QED BY <1>1, <1>2, <1>3 DEF Digested, ShowsPostimage

(* Between two write steps the newest entry of each file is one recovery accepts. *)
LEMMA TopReady ==
  ASSUME EvidenceInv, Calm, undoing = "no", pc \notin {"write", "record"},
         NEW id \in Restores, Top(id, Restores)
  PROVE  Ready(id)
<1>0. /\ IInv /\ Ordered /\ Closed /\ Served /\ Digested /\ Current /\ Returning
      /\ pc \in PC /\ Prepared /\ Phased
  <2>1. IInv /\ Ordered /\ Closed /\ Served /\ Digested /\ Current /\ Returning
    BY DEF EvidenceInv, ClaimsInv, RestoreInv
  <2>. QED BY <2>1 DEF IInv, TypeOK
<1>1. CASE pc \in Working
  <2>1. CASE id \in step.open
    <3>1. pc = "prepare"
      BY <1>0, <2>1 DEF Prepared
    <3>2. disk[id.file] = sidecar[id.index].preimage
      BY <1>0, <1>1, <2>1, <3>1 DEF Current
    <3>. QED BY <1>0, <3>2, ReadyOnceRestored DEF Ready
  <2>2. CASE id \notin step.open
    <3>1. disk[id.file] = sidecar[id.index].postimage
      BY <1>0, <1>1, <2>2 DEF Current
    <3>. QED BY <1>0, <3>1, ReadyOnceRecorded DEF Ready
  <2>. QED BY <2>1, <2>2
<1>2. CASE pc = "down"
  BY <1>0, <1>2 DEF Returning
<1>3. CASE pc = "rollback"
  <2>1. id \in pass.todo => Top(id, pass.todo)
    BY <1>0 DEF Top, Ordered
  <2>. QED BY <1>0, <1>3, <2>1 DEF Returning, Ready
<1>4. CASE pc \in Undoing \ {"rollback"}
  BY <1>0, <1>4 DEF Returning, Ready
<1>5. CASE pc \in Sealing \cup {"announce", "running"}
  BY <1>0, <1>5 DEF Phased, Closed, Served, Calm
<1>. QED BY <1>0, <1>1, <1>2, <1>3, <1>4, <1>5 DEF PC, Working, Undoing, Sealing

(* What a quiet step can do once the startup no longer writes. *)
LEMMA Turns ==
  ASSUME IInv, [Next]_vars, ~Moving, pc' \notin Working, ~torn'
  PROVE  /\ digests' = digests
         /\ pc' = "down" => pc \notin {"write", "record"}
         /\ pc' = "rollback" =>
              \/ pc = "rollback" /\ pass' = pass
              \/ pc \notin {"write", "record"} /\ pass'.todo = Restores'
         /\ pc' \in Undoing \ {"rollback"} =>
              pc \in Undoing \ {"rollback"} \/ (pc = "rollback" /\ pass.todo = {})
<1>0. TypeOK /\ Phased
  BY DEF IInv
<1>1. digests' = digests
  BY DEF Moving, Working, Next, Boot, BootRollback, BootCommitCleanup, WriteStep, BeginStep,
         IntendSidecar, WriteReturns, JournalPostimage, PersistClaim, IntendUnverifiable,
         RunUnverifiable, Fail, Rollback, RollbackEnds, RestoredEnds, ReconcileClaim,
         JournalReconciled, ReconcileEnds, JournalDiscarded, RetryAttempt, SealRolledBack,
         SealBlocked, Commit, CommitGeneration, IntendCleanup, JournalCleanup, SealCommitted,
         CleanupFails, Announce, Stop, Environment, Crash, CrashPersisting, vars, durable
<1>2. pc' \in {"down", "rollback"} => pc \notin {"write", "record"}
  BY DEF Moving, Working, Next, Boot, BootRollback, BootCommitCleanup, WriteStep, BeginStep,
         IntendSidecar, WriteReturns, JournalPostimage, PersistClaim, IntendUnverifiable,
         RunUnverifiable, Fail, Rollback, RollbackEnds, RestoredEnds, ReconcileClaim,
         JournalReconciled, ReconcileEnds, JournalDiscarded, RetryAttempt, SealRolledBack,
         SealBlocked, Commit, CommitGeneration, IntendCleanup, JournalCleanup, SealCommitted,
         CleanupFails, Announce, Stop, Environment, Crash, CrashPersisting, vars
<1>3. pc' = "rollback" => (pc = "rollback" /\ pass' = pass) \/ pass'.todo = Restores'
  <2>1. ~\E id \in ActionId : RollbackEntry(id) \/ JournalRestored(id)
    BY DEF Moving
  <2>. QED BY <1>0, <2>1, PassKept DEF RollbackEnds
<1>4. pc' \in Undoing \ {"rollback"} =>
        pc \in Undoing \ {"rollback"} \/ (pc = "rollback" /\ pass.todo = {})
  BY DEF Moving, Working, Undoing, Next, Boot, BootRollback, BootCommitCleanup, WriteStep,
         BeginStep, IntendSidecar, WriteReturns, JournalPostimage, PersistClaim,
         IntendUnverifiable, RunUnverifiable, Fail, Rollback, RollbackEnds, RestoredEnds,
         ReconcileClaim, JournalReconciled, ReconcileEnds, JournalDiscarded, RetryAttempt,
         SealRolledBack, SealBlocked, Commit, CommitGeneration, IntendCleanup,
         JournalCleanup, SealCommitted, CleanupFails, Announce, Stop, Environment, Crash,
         CrashPersisting, vars
<1>. QED BY <1>1, <1>2, <1>3, <1>4

(* Restoring a file leaves the entry before it, of that file, acceptable. *)
LEMMA ReturningEntry ==
  ASSUME EvidenceInv, Calm, NEW id \in ActionId, RollbackEntry(id)
  PROVE  /\ undoing = "begun" => \A m \in Restores : AlreadyRestored(m)'
         /\ undoing = "no" =>
              /\ \A m \in pass'.todo : Top(m, pass'.todo) => Ready(m)'
              /\ \A m \in Restores \ pass'.todo : AlreadyRestored(m)'
<1>0. IInv /\ Ordered /\ Linked /\ Digested /\ Returning
  BY DEF EvidenceInv, ClaimsInv, RestoreInv
<1>1. /\ UNCHANGED <<sidecar, undoing, digests>> /\ pc = "rollback"
      /\ id \in pass.todo /\ id \in Restores /\ HasEntry(id)
      /\ \A f \in File : f # id.file \/ ~Intact(id) => disk'[f] = disk[f]
      /\ Intact(id) => disk'[id.file] = sidecar[id.index].preimage
  BY <1>0, RollbackDisk DEF RollbackEntry
<1>2. pass'.todo = pass.todo \ {id} /\ \A b \in pass.todo : b.index <= id.index
  BY <1>0 DEF RollbackEntry, Latest, IInv, TypeOK
<1>3. /\ \A m \in Restores : /\ m \in ActionId /\ HasEntry(m) /\ m.file \in File
                             /\ m.index \in Nat /\ m.index \in 1 .. m.index
                             /\ m.index \in DOMAIN sidecar
      /\ DOMAIN sidecar \subseteq Nat
  <2>1. DOMAIN sidecar = 1 .. Len(sidecar) /\ Len(sidecar) \in Nat
    BY <1>0 DEF IInv, TypeOK
  <2>. QED BY <1>0, <2>1, PendingEntry DEF HasEntry
<1>4. CASE undoing = "begun"
  <2>1. \A m \in Restores : AlreadyRestored(m)
    BY <1>0, <1>4 DEF Returning
  <2>2. ~Intact(id)
    BY <1>1, <2>1 DEF Intact
  <2>. QED BY <1>1, <1>3, <1>4, <2>1, <2>2 DEF AlreadyRestored
<1>5. CASE undoing = "no"
  <2>1. /\ \A m \in pass.todo : Top(m, pass.todo) => Ready(m)
        /\ \A m \in Restores \ pass.todo : AlreadyRestored(m)
        /\ pass.todo \subseteq Restores
    BY <1>0, <1>1, <1>5 DEF Returning, Ordered
  <2>2. Ready(id)
    BY <1>1, <1>2, <2>1 DEF Top
  <2>3. Intact(id) \/ AlreadyRestored(id)
    BY <1>1, <2>2 DEF Ready, ShowsPostimage, Intact
  <2>4. AlreadyRestored(id)'
    BY <1>1, <1>3, <2>3 DEF AlreadyRestored, HasEntry, Intact
  <2>5. ASSUME NEW m \in Restores \ pass.todo PROVE AlreadyRestored(m)'
    <3>1. id.index <= m.index /\ AlreadyRestored(m)
      BY <1>0, <1>1, <2>1 DEF Ordered
    <3>2. CASE m.file # id.file \/ ~Intact(id)
      BY <1>1, <1>3, <3>1, <3>2 DEF AlreadyRestored
    <3>3. CASE m.file = id.file /\ Intact(id)
      <4>1. id.index \in 1 .. m.index
        BY <1>1, <1>3, <3>1
      <4>. QED BY <1>1, <3>3, <4>1 DEF AlreadyRestored, HasEntry
    <3>. QED BY <3>2, <3>3
  <2>6. ASSUME NEW m \in pass'.todo, Top(m, pass'.todo) PROVE Ready(m)'
    <3>1. m \in Restores /\ m \in pass.todo /\ m # id /\ m.index <= id.index
      BY <1>2, <2>1
    <3>2. CASE m.file # id.file
      <4>1. Top(m, pass.todo) /\ disk'[m.file] = disk[m.file]
        BY <1>1, <1>2, <1>3, <2>6, <3>1, <3>2 DEF Top
      <4>2. Ready(m)
        BY <2>1, <3>1, <4>1
      <4>. QED BY <1>1, <4>1, <4>2 DEF Ready, AlreadyRestored, ShowsPostimage, HasEntry
    <3>3. CASE m.file = id.file
      <4>1. m.index < id.index
        BY <1>1, <1>3, <3>1, <3>3, EntryIsId
      <4>2. \A r \in Restores : r.file = m.file => r.index <= m.index \/ id.index <= r.index
        BY <1>0, <1>1, <1>2, <2>6 DEF Top, Ordered
      <4>3. ASSUME NEW k \in DOMAIN sidecar, sidecar[k].file = m.file,
                   m.index < k, k <= id.index
            PROVE  sidecar[m.index].postimage = sidecar[k].preimage
        <5>1. \A r \in Restores : r.file = m.file => r.index <= m.index \/ k <= r.index
          BY <1>1, <1>3, <4>2, <4>3
        <5>. QED BY <1>5, <3>1, <4>3, <5>1 DEF Linked, EvidenceInv
      <4>4. PICK k \in 1 .. id.index : /\ sidecar[k].file = m.file
                                       /\ disk'[m.file] = sidecar[k].preimage
        BY <1>1, <2>4, <3>3 DEF AlreadyRestored
      <4>5. k \in DOMAIN sidecar /\ k \in Nat /\ k <= id.index
        BY <1>0, <1>1, <1>3, <4>4, IndexBelow
           DEF IInv
      <4>6. CASE k <= m.index
        <5>1. k \in 1 .. m.index
          BY <1>3, <3>1, <4>4, <4>6
        <5>. QED BY <1>1, <4>4, <5>1 DEF Ready, AlreadyRestored
      <4>7. CASE m.index < k
        <5>1. disk'[m.file] = sidecar[m.index].postimage
          BY <4>3, <4>4, <4>5, <4>7
        <5>2. sidecar[m.index].postimage # Unrecorded
          <6>1. sidecar[k] \in Entry
            BY <1>0, <4>5, ElementOfSeq DEF IInv, TypeOK
          <6>. QED BY <4>4, <5>1, <6>1, ConstantsAssumption DEF Entry, Image
        <5>3. m # step.recorded
          BY <1>0, <1>1, <1>3, <3>1, ConstantsAssumption DEF IInv, Prepared, NoId, ActionId
        <5>4. digests[m] = sidecar[m.index].postimage
          BY <1>0, <1>5, <3>1, <5>2, <5>3 DEF Digested
        <5>. QED BY <1>1, <1>3, <3>1, <5>1, <5>2, <5>4 DEF Ready, ShowsPostimage, HasEntry
      <4>. QED BY <1>3, <3>1, <4>5, <4>6, <4>7
    <3>. QED BY <3>2, <3>3
  <2>. QED BY <1>2, <1>5, <2>4, <2>5, <2>6
<1>. QED BY <1>4, <1>5

LEMMA ReturningNext ==
  ASSUME EvidenceInv, [Next]_vars PROVE Returning'
<1>. SUFFICES ASSUME Calm' PROVE Returning'
  BY DEF Returning
<1>0. /\ RestoreInv /\ RestoreInv' /\ IInv /\ TypeOK /\ Phased /\ Ordered /\ Ordered' /\ Begun'
      /\ Returning
  <2>1. RestoreInv /\ RestoreInv' /\ Returning
    BY NextRestoreInv DEF EvidenceInv, ClaimsInv
  <2>. QED BY <2>1 DEF RestoreInv, IInv
<1>1. CASE Restores' = {}
  <2>1. pass'.todo = {}
    BY <1>0, <1>1 DEF Ordered
  <2>. QED BY <1>1, <2>1 DEF Returning
<1>2. CASE BeginTransaction
  BY <1>1, <1>2, NewJournalFields DEF BeginTransaction, Restores
<1>3. CASE DiscardSidecar
  BY <1>0, <1>1, <1>3 DEF DiscardSidecar, IInv, Evidenced, Restores
<1>4. CASE pc' \in Working
  <2>1. undoing' # "begun"
    BY <1>0, <1>4 DEF Begun, Calm
  <2>2. pc' \notin Undoing \cup {"down"}
    BY <1>4 DEF Working, Undoing
  <2>. QED BY <2>1, <2>2 DEF Returning, Undoing
<1>5. CASE ~BeginTransaction /\ ~DiscardSidecar /\ pc' \notin Working
  <2>1. Calm /\ ~Committed
    BY <1>0, <1>5, CalmLasts DEF Calm
  <2>2. ASSUME NEW id \in ActionId, RollbackEntry(id) PROVE Returning'
    <3>1. /\ UNCHANGED undoing /\ pc' = "rollback" /\ Restores' = Restores
      BY <1>0, <2>2, RollbackDisk DEF Restores
    <3>. QED BY <2>1, <2>2, <3>1, ReturningEntry DEF Returning
  <2>3. ASSUME NEW id \in ActionId, JournalRestored(id) PROVE Returning'
    <3>1. /\ UNCHANGED <<disk, sidecar>> /\ pc = "restored" /\ pc' = "restored"
          /\ undoing' # "no" /\ Restores' = Restores \ {id}
      BY <1>0, <2>3, RestoredFields
    <3>2. \A m \in Restores : AlreadyRestored(m)
      BY <1>0, <2>1, <3>1 DEF Returning, Undoing
    <3>. QED BY <3>1, <3>2 DEF Returning, AlreadyRestored
  <2>4. CASE ~Moving
    <3>1. UNCHANGED <<disk, sidecar, undoing>> /\ Restores' = Restores
      BY <1>0, <2>1, <2>4, Quiet
    <3>2. /\ digests' = digests
          /\ pc' = "down" => pc \notin {"write", "record"}
          /\ pc' = "rollback" =>
               \/ pc = "rollback" /\ pass' = pass
               \/ pc \notin {"write", "record"} /\ pass'.todo = Restores'
          /\ pc' \in Undoing \ {"rollback"} =>
               pc \in Undoing \ {"rollback"} \/ (pc = "rollback" /\ pass.todo = {})
      BY <1>0, <1>5, <2>4, Turns DEF Calm
    <3>3. /\ \A m : AlreadyRestored(m)' <=> AlreadyRestored(m)
          /\ \A m : Ready(m)' <=> Ready(m)
      BY <3>1, <3>2 DEF Ready, AlreadyRestored, ShowsPostimage, HasEntry
    <3>4. undoing' = "begun" => \A m \in Restores' : AlreadyRestored(m)'
      BY <1>0, <2>1, <3>1, <3>3 DEF Returning
    <3>5. undoing' = "no" /\ pc' = "down" =>
            \A m \in Restores' : Top(m, Restores') => Ready(m)'
      BY <2>1, <3>1, <3>2, <3>3, TopReady
    <3>6. undoing' = "no" /\ pc' = "rollback" =>
            /\ \A m \in pass'.todo : Top(m, pass'.todo) => Ready(m)'
            /\ \A m \in Restores' \ pass'.todo : AlreadyRestored(m)'
      <4>1. CASE pc = "rollback" /\ pass' = pass
        BY <1>0, <2>1, <3>1, <3>3, <4>1 DEF Returning
      <4>2. CASE pc \notin {"write", "record"} /\ pass'.todo = Restores'
        BY <2>1, <3>1, <3>3, <4>2, TopReady
      <4>. QED BY <3>2, <4>1, <4>2
    <3>7. pc' \in Undoing \ {"rollback"} => \A m \in Restores' : AlreadyRestored(m)'
      <4>1. undoing \in {"no", "begun"}
        BY <1>0, <2>1 DEF RestoreInv, Unspoiled, Calm, TypeOK
      <4>2. CASE pc \in Undoing \ {"rollback"}
        BY <1>0, <2>1, <3>1, <3>3, <4>2 DEF Returning
      <4>3. CASE pc = "rollback" /\ pass.todo = {}
        BY <1>0, <2>1, <3>1, <3>3, <4>1, <4>3 DEF Returning
      <4>. QED BY <3>2, <4>2, <4>3
    <3>. QED BY <3>4, <3>5, <3>6, <3>7 DEF Returning
  <2>5. CASE CleanupSidecar
    BY <1>0, <2>1, <2>5 DEF CleanupSidecar, Phased, Sealing
  <2>6. ASSUME NEW f \in File, NEW image \in Image, Edit(f, image) PROVE Returning'
    BY <2>6 DEF Edit, Calm
  <2>7. CASE \/ BootResume \/ \E f \in File : RecordPreimage(f)
             \/ JournalPreimage
             \/ \E id \in ActionId, image \in Image : WriteTarget(id, image)
             \/ \E id \in ActionId : RecordPostimage(id)
    BY <1>5, <2>7
       DEF BootResume, RecordPreimage, JournalPreimage, WriteTarget, RecordPostimage, Working
  <2>. QED BY <1>5, <2>2, <2>3, <2>4, <2>5, <2>6, <2>7 DEF Moving
<1>. QED BY <1>2, <1>3, <1>4, <1>5
-----------------------------------------------------------------------------
LEMMA InitEvidenceInv == Init => EvidenceInv
<1>. SUFFICES ASSUME Init PROVE EvidenceInv
  OBVIOUS
<1>1. ClaimsInv
  BY InitClaimsInv
<1>2. Restores = {} /\ step.open = {} /\ step.fresh = NoId /\ pc = "down" /\ pass.todo = {}
  BY DEF Init, Restores, NoJournal, NewJournal, NoStep, NoPass
<1>. QED
  BY <1>1, <1>2
     DEF EvidenceInv, Linked, Digested, Current, Fitted, Returning, Served, Undoing

LEMMA NextEvidenceInv == EvidenceInv /\ [Next]_vars => EvidenceInv'
<1>. SUFFICES ASSUME EvidenceInv, [Next]_vars PROVE EvidenceInv'
  OBVIOUS
<1>1. /\ ClaimsInv /\ RestoreInv /\ Unwritten /\ IInv /\ Closed
      /\ Linked /\ Digested /\ Current /\ Fitted /\ Served
  BY DEF EvidenceInv, ClaimsInv, RestoreInv
<1>2. ClaimsInv'
  BY <1>1, NextClaimsInv
<1>. QED
  BY <1>1, <1>2, LinkedNext, DigestedNext, CurrentNext, FittedNext, ReturningNext, ServedNext
     DEF EvidenceInv

(* In every behaviour recovery finds the evidence it needs, as long as no  *)
(* file was edited and no write step cut off.                              *)
THEOREM EvidenceInvariance == Spec => []EvidenceInv
BY InitEvidenceInv, NextEvidenceInv, PTL DEF Spec

(* A start refuses an interrupted one only when a file was edited, a write *)
(* step was cut off, or one file was written twice: whatever crashes fell  *)
(* between the steps of the startup, of its rollbacks and of its cleanup.  *)
THEOREM RefusalsHaveCause == Spec => []BlockedOnlyWithCause
<1>1. EvidenceInv => BlockedOnlyWithCause
  <2>. SUFFICES ASSUME EvidenceInv, pc = "down", Inspection = "blocked",
                       foreign = {}, ~torn, ~Rewritten
                PROVE  FALSE
    BY DEF BlockedOnlyWithCause
  <2>1. /\ IInv /\ TypeOK /\ Unspoiled /\ Returning
        /\ \A id \in Restores \cup Reconciles : HasEntry(id)
    BY DEF EvidenceInv, ClaimsInv, RestoreInv, IInv, Evidenced, PendingWorkHasEvidence
  <2>2. ~Committed /\ InspectUncommitted = "blocked"
    BY DEF Inspection
  <2>3. Calm /\ undoing \in {"no", "begun"}
    BY <2>1, <2>2 DEF Calm, Unspoiled, TypeOK
  <2>4. Reconciles = {}
    BY <2>1, <2>2 DEF InspectUncommitted
  <2>5. \E id \in Restores : ~Verified(id)
    BY <2>2, <2>4 DEF InspectUncommitted
  <2>6. PICK id \in Restores : ~Verified(id)
    BY <2>5
  <2>7. ~Ready(id)
    BY <2>1, <2>6 DEF Ready, Verified
  <2>8. Top(id, Restores)
    BY <2>1, PendingEntry DEF Rewritten, Top
  <2>. QED BY <2>1, <2>3, <2>7, <2>8 DEF Returning, Ready
<1>. QED BY <1>1, EvidenceInvariance, PTL
===============================================================================
