----------------------- MODULE StartupMaterialization -----------------------
(***************************************************************************)
(* How one startup writes the generated files of the services, and how the *)
(* next start finishes or undoes it: the write hooks, the private preimage *)
(* sidecar, the rollback, the lifecycle state reconciliation, the commit   *)
(* cleanup and the recovery inspection of                                  *)
(* src/src/runtime/startup/materialization.ts, with the callers in         *)
(* src/src/server/index.ts that drive them.                                *)
(*                                                                         *)
(* Durable: disk (the files), sidecar, journal with digests, claims (the   *)
(* persisted installed / configured / setup-step flags).  Volatile: pc,    *)
(* step and pass, lost by Crash.  Every await that reaches the disk ends a *)
(* step, so a crash falls between any two of them.                         *)
(*                                                                         *)
(* Original, foreign, vouched, untracked, torn and undoing are history: no *)
(* action's guard reads them.  One sidecar variable serves every transaction:       *)
(* SealedLeavesNoEvidence shows that each finds it absent.                 *)
(*                                                                         *)
(* A definition marked "mutant" is a deliberately wrong variant of the one *)
(* that follows; no action uses it.                                        *)
(***************************************************************************)
EXTENDS Naturals, Sequences

CONSTANTS
  File,             \* generated files
  Content,          \* contents of a file, partly written ones included
  Missing,          \* the file does not exist
  Unit,             \* a lifecycle flag: installed, configured, or one setup step
  UnitOf,           \* the flag a file belongs to
  MaxEntries,       \* MAX_ENTRIES of the sidecar
  MaxTransactions,  \* bound: startups begun
  MaxCrashes,       \* bound: crashes
  MaxRetries,       \* runtimeBindRetryLimit: attempts after the first
  MaxEdits          \* bound: edits of a file by someone else

(* "unrecorded" is an entry whose postimageRecorded is false. *)
Unrecorded == "unrecorded"

ASSUME ConstantsAssumption ==
  /\ Missing \notin Content
  /\ {Unrecorded, "none"} \cap (Content \cup {Missing}) = {}
  /\ "none" \notin Unit
  /\ UnitOf \in [File -> Unit]
  /\ MaxEntries \in Nat
  /\ MaxTransactions \in Nat /\ MaxCrashes \in Nat
  /\ MaxRetries \in Nat /\ MaxEdits \in Nat

Image == Content \cup {Missing}

(* An actionId hashes the target and the position of its sidecar entry. *)
ActionId == [file : File, index : 1 .. MaxEntries]
NoId     == [file |-> "none", index |-> 0]

Entry == [file : File, preimage : Image, postimage : Image \cup {Unrecorded}]

(* The prefixes of the pending compensations the module reads and writes.  *)
Discard         == [kind |-> "discard_materialization_sidecar", of |-> NoId]
Restore(id)     == [kind |-> "restore_materialization", of |-> id]
Reconcile(id)   == [kind |-> "reconcile_materialization_state", of |-> id]
Verify(u)       == [kind |-> "verify_setup_output", of |-> u]
MaterializationCompensation ==
  {Discard} \cup {Restore(id) : id \in ActionId}
            \cup {Reconcile(id) : id \in ActionId} \cup {Verify(u) : u \in Unit}
MaterializationAction ==
  {"materialization_sidecar_intended", "materialization_commit_cleanup_intended",
   "generation_committed"}

INSTANCE StartupTransaction WITH Action       <- MaterializationAction,
                                 Compensation <- MaterializationCompensation

VARIABLES
  disk,        \* [File -> Image]
  sidecar,     \* the entries in the order they were prepared; << >>: no file
  journal,     \* the startup journal
  digests,     \* materializationDigests, "none" where no digest is recorded
  claims,      \* the units whose lifecycle flag is persisted as true
  pc,          \* where the startup process is; "down" when none runs
  step,        \* the write step under way
  pass,        \* the rollback under way
  budget,      \* what is left of each bound
  original,    \* history: the files when the transaction began
  foreign,     \* history: files someone else edited since then
  vouched,     \* history: the image of each file its unit's claim stands for
  untracked,   \* history: a setup step without declared outputs has run
  torn,        \* history: a write step was cut off after it began
  undoing      \* history: "begun" once a rollback has journaled a restored file of this sidecar,
               \* "resumed" if the startup then went on with the sidecar

durable == <<disk, sidecar, journal, digests, claims>>
history == <<original, foreign, vouched, untracked, torn, undoing>>
vars    == <<durable, pc, step, pass, budget, history>>

NoStep == [unit |-> "none", todo |-> {}, fresh |-> NoId, open |-> {}, recorded |-> NoId]
NoPass == [todo |-> {}, done |-> {}, dirty |-> {}, persisted |-> "none",
           recovery |-> FALSE]

Restores   == {id \in ActionId : Restore(id) \in journal.pending}
Reconciles == {id \in ActionId : Reconcile(id) \in journal.pending}
Verifies   == {u \in Unit : Verify(u) \in journal.pending}

Committed == journal.phase = "generation_committed"
             /\ "generation_committed" \in journal.completed

HasEntry(id) == /\ id.index \in DOMAIN sidecar
                /\ sidecar[id.index].file = id.file

(* The file already shows the preimage of this entry or of an earlier one  *)
(* for the same file.                                                      *)
RestoredByLater(id) ==                                            \* mutant
  \E k \in DOMAIN sidecar : /\ sidecar[k].file = id.file
                            /\ disk[id.file] = sidecar[k].preimage
AlreadyRestored(id) ==
  \E k \in 1 .. id.index : /\ sidecar[k].file = id.file
                           /\ disk[id.file] = sidecar[k].preimage

Latest(id, ids) == id \in ids /\ \A other \in ids : other.index <= id.index

(* inspectStartupMaterializations *)
ShowsPostimage(id) == /\ HasEntry(id)
                      /\ sidecar[id.index].postimage # Unrecorded
                      /\ digests[id] = sidecar[id.index].postimage
                      /\ disk[id.file] = sidecar[id.index].postimage
Verified(id) == HasEntry(id) /\ (AlreadyRestored(id) \/ ShowsPostimage(id))

InspectUncommitted ==
  CASE Reconciles # {} ->
         IF \A id \in Reconciles : HasEntry(id) THEN "rollback" ELSE "blocked"
    [] Reconciles = {} /\ Restores = {} ->
         IF Discard \in journal.pending THEN "rollback" ELSE "agree"
    [] Reconciles = {} /\ Restores # {} ->
         IF \E id \in Restores : ~Verified(id) THEN "blocked"
         ELSE IF \E id \in Restores : AlreadyRestored(id) THEN "rollback"
         ELSE "agree"

Inspection == IF Committed THEN "commit_cleanup" ELSE InspectUncommitted

Record(u) == journal' = Advance(journal, journal.phase, u)
-----------------------------------------------------------------------------
Init ==
  /\ disk \in [File -> Image]
  /\ sidecar = << >>
  /\ journal = NoJournal
  /\ digests = [id \in ActionId |-> "none"]
  /\ claims \in SUBSET Unit
  /\ pc = "down" /\ step = NoStep /\ pass = NoPass
  /\ budget = [transactions |-> MaxTransactions, crashes |-> MaxCrashes,
               retries |-> MaxRetries, edits |-> MaxEdits]
  /\ original = disk /\ foreign = {} /\ vouched = disk
  /\ untracked = FALSE /\ torn = FALSE /\ undoing = "no"

(***************************************************************************)
(* Boot.                                                                   *)
(***************************************************************************)
BeginTransaction ==
  /\ pc = "down" /\ ~Interrupted(journal)
  /\ budget.transactions > 0
  /\ budget' = [budget EXCEPT !.transactions = @ - 1, !.retries = MaxRetries]
  /\ journal' = NewJournal
  /\ digests' = [id \in ActionId |-> "none"]
  /\ pc' = "open"
  /\ original' = disk /\ foreign' = {} /\ vouched' = disk
  /\ untracked' = FALSE /\ torn' = FALSE /\ undoing' = "no"
  /\ UNCHANGED <<disk, sidecar, claims, step, pass>>

StartPass(recovery) == [NoPass EXCEPT !.todo = Restores, !.recovery = recovery]

BootRollback ==
  /\ pc = "down" /\ CanActivate(journal)
  /\ Inspection \in {"rollback", "agree"}
  /\ journal' = Activate(journal, "rollback")
  /\ pc' = "rollback" /\ pass' = StartPass(TRUE)
  /\ UNCHANGED <<disk, sidecar, digests, claims, step, budget, history>>

BootResume ==
  /\ pc = "down" /\ journal.status = "active"
  /\ Inspection = "agree"
  /\ journal' = Activate(journal, "resume")
  /\ pc' = "open"
  /\ undoing' = IF undoing = "begun" THEN "resumed" ELSE undoing
  /\ UNCHANGED <<disk, sidecar, digests, claims, step, pass, budget,
                 original, foreign, vouched, untracked, torn>>

CleanupHasFailed == journal.failureCode = "materialization_commit_cleanup_failed"  \* mutant
CleanupMayResume == journal.status = "blocked" => CleanupHasFailed

BootCommitCleanup ==
  /\ pc = "down" /\ CanActivate(journal)
  /\ Inspection = "commit_cleanup" /\ CleanupMayResume
  /\ journal' = Activate(journal, "resume")
  /\ pc' = "recover_cleanup"
  /\ UNCHANGED <<disk, sidecar, digests, claims, step, pass, budget, history>>

(***************************************************************************)
(* A write step: a config or install file with its hooks, or a setup step  *)
(* with its declared outputs.                                              *)
(***************************************************************************)
BeginStep(u, outputs) ==
  /\ pc = "open" /\ step.unit \in {"none", u}
  /\ pc' = "prepare"
  /\ step' = [NoStep EXCEPT !.unit = u, !.todo = outputs]
  /\ UNCHANGED <<durable, pass, budget, history>>

IntendSidecar ==
  /\ pc = "prepare" /\ Discard \notin journal.pending
  /\ Record(Update({"materialization_sidecar_intended"}, {Discard}, {}))
  /\ UNCHANGED <<disk, sidecar, digests, claims, pc, step, pass, budget, history>>

HasAlmostRoom == Len(sidecar) <= MaxEntries                       \* mutant
HasRoom == Len(sidecar) < MaxEntries

RecordPreimage(f) ==
  /\ pc = "prepare" /\ Discard \in journal.pending
  /\ step.fresh = NoId /\ f \in step.todo
  /\ HasRoom
  /\ sidecar' = Append(sidecar, [file |-> f, preimage |-> disk[f], postimage |-> Unrecorded])
  /\ step' = [step EXCEPT !.todo  = @ \ {f},
                          !.fresh = [file |-> f, index |-> Len(sidecar) + 1]]
  /\ UNCHANGED <<disk, journal, digests, claims, pc, pass, budget, history>>

JournalPreimage ==
  /\ pc = "prepare" /\ step.fresh # NoId
  /\ Record(Update({}, {Restore(step.fresh)}, {}))
  /\ step' = [step EXCEPT !.fresh = NoId, !.open = @ \cup {step.fresh}]
  /\ pc' = IF step.todo = {} THEN "write" ELSE pc
  /\ UNCHANGED <<disk, sidecar, digests, claims, pass, budget, history>>

(* writeFile truncates and then fills the file, and a setup command does   *)
(* as it likes with its outputs: any number of images may be seen.         *)
WriteTarget(id, image) ==
  /\ pc = "write" /\ id \in step.open
  /\ disk' = [disk EXCEPT ![id.file] = image]
  /\ UNCHANGED <<sidecar, journal, digests, claims, pc, step, pass, budget, history>>

WriteReturns ==
  /\ pc = "write"
  /\ pc' = "record"
  /\ UNCHANGED <<durable, step, pass, budget, history>>

RecordPostimage(id) ==
  /\ pc = "record" /\ step.recorded = NoId /\ id \in step.open
  /\ sidecar' = [sidecar EXCEPT ![id.index].postimage = disk[id.file]]
  /\ step' = [step EXCEPT !.open = @ \ {id}, !.recorded = id]
  /\ UNCHANGED <<disk, journal, digests, claims, pc, pass, budget, history>>

JournalPostimage ==
  /\ pc = "record" /\ step.recorded # NoId
  /\ Record(Update({}, {}, {}))
  /\ digests' = [digests EXCEPT ![step.recorded] = sidecar[step.recorded.index].postimage]
  /\ step' = [step EXCEPT !.recorded = NoId]
  /\ pc' = IF step.open = {} THEN "open" ELSE pc
  /\ UNCHANGED <<disk, sidecar, claims, pass, budget, history>>

(* writeServiceState after the unit's files: its flag now stands for them. *)
PersistClaim ==
  /\ pc = "open" /\ step.unit # "none"
  /\ claims' = claims \cup {step.unit}
  /\ vouched' = [f \in File |-> IF UnitOf[f] = step.unit THEN disk[f] ELSE vouched[f]]
  /\ step' = NoStep
  /\ UNCHANGED <<disk, sidecar, journal, digests, pc, pass, budget,
                 original, foreign, untracked, torn, undoing>>

(* A setup step that declares no outputs. *)
IntendUnverifiable(u) ==
  /\ pc = "open" /\ step.unit = "none"
  /\ Record(Update({}, {Verify(u)}, {}))
  /\ pc' = "untracked"
  /\ UNCHANGED <<disk, sidecar, digests, claims, step, pass, budget, history>>

RunUnverifiable ==
  /\ pc = "untracked"
  /\ untracked' = TRUE
  /\ pc' = "open"
  /\ UNCHANGED <<durable, step, pass, budget, original, foreign, vouched, torn, undoing>>

(* Any of these steps, or anything else the startup does, throws. *)
Fail ==
  /\ pc \in {"open", "prepare", "write", "record", "untracked"}
  /\ pc' = "rollback" /\ pass' = StartPass(FALSE)
  /\ step' = NoStep
  /\ torn' = (torn \/ pc \in {"write", "record"})
  /\ UNCHANGED <<durable, budget, original, foreign, vouched, untracked, undoing>>

(***************************************************************************)
(* Rollback: newest entry first.  An entry already restored counts as      *)
(* done; a file that still shows the recorded postimage is restored; any   *)
(* other is left alone and its compensation stays pending.                 *)
(***************************************************************************)
Restored(id) == HasEntry(id) /\ AlreadyRestored(id)
Intact(id)   == /\ HasEntry(id) /\ ~AlreadyRestored(id)
                /\ sidecar[id.index].postimage = disk[id.file]
Undone(id)   == Restored(id) \/ Intact(id)

(* The lifecycle state no longer tells the truth about this file. *)
Invalidates(id) ==
  \/ Intact(id)
  \/ Restored(id) /\ sidecar[id.index].postimage
                       \notin {Unrecorded, sidecar[id.index].preimage}

RollbackEntry(id) ==
  /\ pc = "rollback" /\ Latest(id, pass.todo)
  /\ disk' = IF Intact(id)
             THEN [disk EXCEPT ![id.file] = sidecar[id.index].preimage] ELSE disk
  /\ pass' = [pass EXCEPT
       !.todo  = @ \ {id},
       !.done  = IF Undone(id) THEN @ \cup {id} ELSE @,
       !.dirty = IF Invalidates(id) THEN @ \cup {id} ELSE @]
  /\ UNCHANGED <<sidecar, journal, digests, claims, pc, step, budget, history>>

RollbackEnds ==
  /\ pc = "rollback" /\ pass.todo = {}
  /\ pc' = "restored"
  /\ UNCHANGED <<durable, step, pass, budget, history>>

JournalRestored(id) ==
  /\ pc = "restored" /\ Latest(id, pass.done)
  /\ Record(Update({}, IF id \in pass.dirty THEN {Reconcile(id)} ELSE {}, {Restore(id)}))
  /\ pass' = [pass EXCEPT !.done = @ \ {id}]
  /\ undoing' = IF undoing = "no" THEN "begun" ELSE undoing
  /\ UNCHANGED <<disk, sidecar, digests, claims, pc, step, budget,
                 original, foreign, vouched, untracked, torn>>

RestoredEnds ==
  /\ pc = "restored" /\ pass.done = {}
  /\ pc' = "reconcile"
  /\ UNCHANGED <<durable, step, pass, budget, history>>

(* reconcileStartupMaterializationLifecycleState, one flag at a time:      *)
(* the state is persisted first, then the compensation is removed.         *)
ReconcileUnit(u) == {id \in Reconciles : UnitOf[id.file] = u /\ HasEntry(id)}

ReconcileClaim(u) ==
  /\ pc = "reconcile" /\ pass.persisted = "none" /\ ReconcileUnit(u) # {}
  /\ claims' = claims \ {u}
  /\ pass' = [pass EXCEPT !.persisted = u]
  /\ UNCHANGED <<disk, sidecar, journal, digests, pc, step, budget, history>>

JournalReconciled ==
  /\ pc = "reconcile" /\ pass.persisted # "none"
  /\ Record(Update({}, {}, {Reconcile(id) : id \in ReconcileUnit(pass.persisted)}))
  /\ pass' = [pass EXCEPT !.persisted = "none"]
  /\ UNCHANGED <<disk, sidecar, digests, claims, pc, step, budget, history>>

NothingReconciles == Reconciles = {}                              \* mutant
NothingRemains == Restores = {} /\ Reconciles = {}

ReconcileEnds ==
  /\ pc = "reconcile" /\ pass.persisted = "none"
  /\ \A u \in Unit : ReconcileUnit(u) = {}
  /\ pc' = IF NothingRemains /\ Discard \in journal.pending THEN "discard" ELSE "seal"
  /\ UNCHANGED <<durable, step, pass, budget, history>>

DiscardSidecar ==
  /\ pc = "discard"
  /\ sidecar' = << >>
  /\ pc' = "discarded"
  /\ undoing' = IF undoing = "begun" THEN "no" ELSE undoing
  /\ UNCHANGED <<disk, journal, digests, claims, step, pass, budget,
                 original, foreign, vouched, untracked, torn>>

JournalDiscarded ==
  /\ pc = "discarded"
  /\ Record(Update({}, {}, {Discard}))
  /\ pc' = "seal"
  /\ UNCHANGED <<disk, sidecar, digests, claims, step, pass, budget, history>>

(* A bind attempt that failed and compensated without failures tries again *)
(* inside the same transaction.  A recovery never does.                    *)
RetryAttempt ==
  /\ pc = "seal" /\ journal.pending = {} /\ ~pass.recovery
  /\ budget.retries > 0 /\ budget' = [budget EXCEPT !.retries = @ - 1]
  /\ pc' = "open" /\ pass' = NoPass
  /\ UNCHANGED <<durable, step, history>>

SealRolledBack ==
  /\ pc = "seal" /\ CanSettle(journal, "rolled_back", Update({}, {}, {}))
  /\ journal' = Settle(journal, "rolled_back", Update({}, {}, {}))
  /\ pc' = "down" /\ pass' = NoPass
  /\ UNCHANGED <<disk, sidecar, digests, claims, step, budget, history>>

(* A compensation stays pending, a resource outside this module could not  *)
(* be compensated, or the compensation itself threw half way.              *)
SealBlocked ==
  /\ pc \in {"rollback", "restored", "reconcile", "discard", "discarded", "seal"}
  /\ journal' = SettleFailed(journal, "blocked", "startup_failure")
  /\ pc' = "down" /\ pass' = NoPass
  /\ UNCHANGED <<disk, sidecar, digests, claims, step, budget, history>>

(***************************************************************************)
(* Commit, and the cleanup that may follow it in this or in a later start. *)
(***************************************************************************)
CommitGeneration ==
  /\ pc = "open" /\ step.unit = "none"
  /\ CanAdvance(journal, "generation_committed")
  /\ journal' = Advance(journal, "generation_committed",
                        Update({"generation_committed"}, {}, {}))
  /\ pc' = "cleanup"
  /\ UNCHANGED <<disk, sidecar, digests, claims, step, pass, budget, history>>

Undoable == {Restore(id) : id \in Restores} \cup {Verify(u) : u \in Verifies}
HasEvidence ==
  \/ Undoable # {} \/ Discard \in journal.pending
  \/ journal.completed \cap {"materialization_sidecar_intended",
                             "materialization_commit_cleanup_intended"} # {}
CleanupIntended == \/ ~HasEvidence
                   \/ /\ Undoable = {}
                      /\ "materialization_commit_cleanup_intended" \in journal.completed

IntendCleanup ==
  /\ pc \in {"cleanup", "recover_cleanup"} /\ Committed /\ ~CleanupIntended
  /\ Record(Update({"materialization_commit_cleanup_intended"}, {}, Undoable))
  /\ UNCHANGED <<disk, sidecar, digests, claims, pc, step, pass, budget, history>>

CleanupSidecar ==
  /\ pc \in {"cleanup", "recover_cleanup"} /\ CleanupIntended
  /\ Discard \in journal.pending /\ sidecar # << >>
  /\ sidecar' = << >>
  /\ UNCHANGED <<disk, journal, digests, claims, pc, step, pass, budget, history>>

JournalCleanupFirst ==                                            \* mutant
  /\ pc \in {"cleanup", "recover_cleanup"} /\ CleanupIntended
  /\ Discard \in journal.pending
  /\ Record(Update({}, {}, {Discard}))
  /\ UNCHANGED <<disk, sidecar, digests, claims, pc, step, pass, budget, history>>

JournalCleanup ==
  /\ pc \in {"cleanup", "recover_cleanup"} /\ CleanupIntended
  /\ Discard \in journal.pending /\ sidecar = << >>
  /\ Record(Update({}, {}, {Discard}))
  /\ UNCHANGED <<disk, sidecar, digests, claims, pc, step, pass, budget, history>>

SealCommitted ==
  /\ pc \in {"cleanup", "recover_cleanup"} /\ CleanupIntended
  /\ Discard \notin journal.pending
  /\ journal' = Settle(journal, "committed", Update({}, {}, journal.pending))
  /\ pc' = IF pc = "cleanup" THEN "announce" ELSE "down"
  /\ UNCHANGED <<disk, sidecar, digests, claims, step, pass, budget, history>>

(* A failed cleanup, or a failed inbox event after the seal, leaves the    *)
(* runtime serving with a blocked journal; in recovery the start fails.    *)
CleanupFails ==
  /\ pc \in {"cleanup", "recover_cleanup", "announce"}
  /\ journal' = SettleFailed(journal, "blocked", "materialization_commit_cleanup_failed")
  /\ pc' = IF pc = "recover_cleanup" THEN "down" ELSE "running"
  /\ UNCHANGED <<disk, sidecar, digests, claims, step, pass, budget, history>>

Announce ==
  /\ pc = "announce"
  /\ pc' = "running"
  /\ UNCHANGED <<durable, step, pass, budget, history>>

Stop ==
  /\ pc = "running"
  /\ pc' = "down"
  /\ UNCHANGED <<durable, step, pass, budget, history>>

(***************************************************************************)
(* The environment.                                                        *)
(***************************************************************************)
Crash ==
  /\ pc # "down" /\ budget.crashes > 0 /\ budget' = [budget EXCEPT !.crashes = @ - 1]
  /\ pc' = "down" /\ step' = NoStep /\ pass' = NoPass
  /\ torn' = (torn \/ pc \in {"write", "record"})
  /\ UNCHANGED <<durable, original, foreign, vouched, untracked, undoing>>

(* writeServiceState truncates and rewrites its files: a crash inside it   *)
(* can leave any of them unreadable, and an unreadable flag reads as false.*)
CrashPersisting ==
  /\ \/ pc = "open" /\ step.unit # "none"
     \/ pc = "reconcile" /\ pass.persisted = "none" /\ \E u \in Unit : ReconcileUnit(u) # {}
  /\ budget.crashes > 0 /\ budget' = [budget EXCEPT !.crashes = @ - 1]
  /\ claims' \in SUBSET claims
  /\ pc' = "down" /\ step' = NoStep /\ pass' = NoPass
  /\ UNCHANGED <<disk, sidecar, journal, digests, history>>

Edit(f, image) ==
  /\ budget.edits > 0 /\ budget' = [budget EXCEPT !.edits = @ - 1] /\ disk[f] # image
  /\ disk' = [disk EXCEPT ![f] = image]
  /\ foreign' = foreign \cup {f}
  /\ UNCHANGED <<sidecar, journal, digests, claims, pc, step, pass,
                 original, vouched, untracked, torn, undoing>>
-----------------------------------------------------------------------------
Boot == BeginTransaction \/ BootRollback \/ BootResume \/ BootCommitCleanup

WriteStep ==
  \/ \E u \in Unit : \E outputs \in SUBSET {f \in File : UnitOf[f] = u} :
       outputs # {} /\ BeginStep(u, outputs)
  \/ IntendSidecar
  \/ \E f \in File : RecordPreimage(f)
  \/ JournalPreimage
  \/ \E id \in ActionId, image \in Image : WriteTarget(id, image)
  \/ WriteReturns
  \/ \E id \in ActionId : RecordPostimage(id)
  \/ JournalPostimage
  \/ PersistClaim
  \/ \E u \in Unit : IntendUnverifiable(u)
  \/ RunUnverifiable

Rollback ==
  \/ \E id \in ActionId : RollbackEntry(id) \/ JournalRestored(id)
  \/ RollbackEnds \/ RestoredEnds
  \/ \E u \in Unit : ReconcileClaim(u)
  \/ JournalReconciled \/ ReconcileEnds
  \/ DiscardSidecar \/ JournalDiscarded
  \/ RetryAttempt \/ SealRolledBack \/ SealBlocked

Commit ==
  \/ CommitGeneration \/ IntendCleanup \/ CleanupSidecar \/ JournalCleanup
  \/ SealCommitted \/ CleanupFails \/ Announce \/ Stop

Environment == Crash \/ CrashPersisting \/ \E f \in File, image \in Image : Edit(f, image)

Next == Boot \/ WriteStep \/ Fail \/ Rollback \/ Commit \/ Environment

Spec == Init /\ [][Next]_vars

(***************************************************************************)
(* Fairness: a startup that is running commits or throws in the end (setup *)
(* commands are killed at their timeout, the list of steps is finite); a   *)
(* rollback, a cleanup and a stop are plain awaits that return; a workspace *)
(* whose startup was cut off is started again.                             *)
(***************************************************************************)
FairSpec == /\ Spec
            /\ WF_vars(Boot) /\ WF_vars(CommitGeneration \/ Fail)
            /\ WF_vars(Rollback) /\ WF_vars(Commit)
-----------------------------------------------------------------------------
PC == {"down", "open", "prepare", "write", "record", "untracked", "rollback",
       "restored", "reconcile", "discard", "discarded", "seal", "cleanup",
       "recover_cleanup", "announce", "running"}

(* The type of every variable. *)
TypeOK ==
  /\ disk \in [File -> Image]
  /\ sidecar \in Seq(Entry) /\ Len(sidecar) <= MaxEntries
  /\ journal \in Journal
  /\ digests \in [ActionId -> Image \cup {"none"}]
  /\ claims \in SUBSET Unit
  /\ pc \in PC
  /\ step \in [unit : Unit \cup {"none"}, todo : SUBSET File,
               fresh : ActionId \cup {NoId}, open : SUBSET ActionId,
               recorded : ActionId \cup {NoId}]
  /\ pass \in [todo : SUBSET ActionId, done : SUBSET ActionId,
               dirty : SUBSET ActionId, persisted : Unit \cup {"none"},
               recovery : BOOLEAN]
  /\ budget \in [transactions : Nat, crashes : Nat, retries : Nat, edits : Nat]
  /\ original \in [File -> Image] /\ vouched \in [File -> Image]
  /\ foreign \in SUBSET File
  /\ untracked \in BOOLEAN /\ torn \in BOOLEAN /\ undoing \in {"no", "begun", "resumed"}

(* A startup sealed as rolled back has put every file back to what it was  *)
(* when the startup began, whatever crashes, retries and second passes     *)
(* came between, except files that someone else edited; and except in a    *)
(* startup that went on after its rollback had begun, whose sidecar still  *)
(* holds the entries of files that are back: see EditsStayApart.           *)
RolledBackRestoresFiles ==
  journal.status = "rolled_back" /\ undoing # "resumed" =>
    \A f \in File \ foreign : disk[f] = original[f]

(* Until the generation is committed, a file that no longer shows what it  *)
(* showed at the beginning has a pending restore whose sidecar entry holds *)
(* exactly that: the evidence is on disk before the write, and goes only   *)
(* after the file is back.                                                 *)
EveryChangeIsUndoable ==
  (journal.status # "none" /\ ~Committed /\ undoing # "resumed") =>
    \A f \in File \ foreign : disk[f] # original[f] =>
      \E id \in Restores : /\ id.file = f /\ HasEntry(id)
                           /\ sidecar[id.index].preimage = original[f]

(* A sealed startup, committed or rolled back, leaves no private preimages *)
(* behind: the sidecar goes before the seal, whatever path led to it.      *)
SealedLeavesNoEvidence == Sealed(journal) => sidecar = << >>

(* Work the journal still has to undo can be undone from what is on disk:  *)
(* no pending restore or reconciliation refers to a lost sidecar entry.    *)
PendingWorkHasEvidence == \A id \in Restores \cup Reconciles : HasEntry(id)

(* A startup that ran a setup command whose outputs nobody declared is     *)
(* never reported as rolled back.                                          *)
UntrackedBlocks == journal.status = "rolled_back" => ~untracked

(* After a rollback no lifecycle flag stands for files that were undone:   *)
(* a unit still claimed installed, configured or set up has the very files *)
(* it had when the claim was persisted; again except where a startup went  *)
(* on after its rollback had begun.                                        *)
ClaimsVouchLiveFiles ==
  journal.status = "rolled_back" /\ undoing # "resumed" =>
    \A f \in File \ foreign : UnitOf[f] \in claims => disk[f] = vouched[f]

(* Recovery refuses an interrupted startup only with cause: someone edited *)
(* a generated file, the startup was cut off inside a write step, or it    *)
(* had written one file twice.  No crash during a rollback, a              *)
(* reconciliation or a cleanup leaves evidence the next start cannot use.  *)
Rewritten == \E a, b \in Restores : a # b /\ a.file = b.file

BlockedOnlyWithCause ==
  (pc = "down" /\ Interrupted(journal) /\ Inspection = "blocked") =>
    foreign # {} \/ torn \/ Rewritten

(* What the specification promises (AC-4BJ.5): with every output           *)
(* attributable, recovery rolls back.  The inspection compares a file      *)
(* with the postimage of each of its entries, the older ones included, so  *)
(* a startup that wrote one file twice is blocked instead.                 *)
AttributableStartupRecovers ==
  (pc = "down" /\ Interrupted(journal) /\ Inspection = "blocked") =>
    foreign # {} \/ torn

(* What the specification promises of the files nobody else touched        *)
(* (AC-4BJ.6).  A file counts as restored when it shows any earlier        *)
(* preimage of the sidecar.  If a rollback restores it, is held up by the  *)
(* edit of another file and is cut off, and the edit is taken back, then   *)
(* the startup goes on with that sidecar; a later rollback can take what   *)
(* it has written again for an old preimage and leave it there.            *)
EditsStayApart ==
  journal.status = "rolled_back" =>
    \A f \in File \ foreign : disk[f] = original[f]

(* An active journal does not stay active for ever: the startup, or the    *)
(* recovery of a later one, settles it, unless the recovery inspection     *)
(* hands it to the operator.                                               *)
StartupSettles ==
  journal.status = "active" ~>
    (journal.status # "active" \/ (pc = "down" /\ Inspection = "blocked"))

(* The startup implements the all-or-nothing promise of StartupOutcome.    *)
Outcome == IF journal.status = "none" THEN "idle"
           ELSE IF Committed THEN "committed"
           ELSE IF journal.status = "rolled_back" THEN "rolled_back"
           ELSE "open"

(* Of a startup that went on after its rollback had begun nothing is promised. *)
Touched == IF undoing = "resumed" THEN File ELSE foreign

Promise == INSTANCE StartupOutcome WITH files <- disk, outcome <- Outcome,
                                        saved <- original, touched <- Touched

(* Every step of the journalled startup is a step of the abstract one or   *)
(* leaves it alone: no rollback after the commit became durable, no write  *)
(* after a commit, no rollback reported over files that are not restored.  *)
ImplementsPromise == Promise!Spec
=============================================================================
