# service-lasso in TLA+

service-lasso is a local service manager: one runtime process discovers services
from their manifests, installs, configures, starts, supervises, restarts and
stops them, and keeps what it knows of them in JSON documents under the
workspace and the service roots. This directory models the parts of it where
the order of things matters, checks the models with TLC and proves the central
facts with TLAPS. Paths below are relative to the repository; `runtime/` stands
for `src/runtime/`.

## 1. Inventory

| Component | State | Operations | Works with | Hard behaviour | Correct when |
|---|---|---|---|---|---|
| **Startup journal** `runtime/startup/transaction.ts` | one JSON document per workspace: phase, status, pending compensations, completed actions, digests | begin, activate recovery, advance, settle | everything a start does | crash between a side effect and its record | work that is not undone is never sealed as undone |
| **Startup materialization** `runtime/startup/materialization.ts`, `runtime/setup/materialize.ts`, `steps.ts` | generated files, the private preimage sidecar, lifecycle flags | write hooks around each file, rollback, reconciliation of flags, commit cleanup, inspection | journal, lifecycle documents | crashes anywhere, also within a rollback; edits by others; repeated writes of one file; bind retries | a start that does not commit leaves the files as they were; a sealed one leaves no preimages |
| **Runtime start and recovery** `server/index.ts`, `runtime/startup/recovery.ts`, `committed-adoption.ts`, `endpoint-cutover.ts` | generation pointer, instance registry, allocation | start, compensate, commit, hand over the endpoint, stop, inspect what was interrupted | all of the above | each resource has its own document, none is written together with another | an interrupted start is resumed, rolled back or reported |
| **Lifecycle actions** `runtime/lifecycle/actions.ts`, `store.ts`, `start-serialization.ts` | in memory: the lifecycle store, timers and promises of supervised restarts, the start turn | install, config, start, stop, restart, supervise exits | supervisor, monitor, broker, ports | commands, exits, timers and the shutdown interleave at every `await` | one process per service; what was stopped stays stopped; bounded relaunching |
| **Process supervisor** `runtime/execution/supervisor.ts`, `runtime/process/tree.ts`, `identity.ts`, `deadline.ts` | managed and adopted processes, their finalizers | launch with enrolment and containment, adopt, stop, finalize, stop all | actions (exit callback), registry | a process may exit at any moment, a stop may miss its deadline | tables, store and registry name the process that runs |
| **Recovery monitor** `runtime/recovery/monitor.ts`, `doctor.ts`, `hooks.ts` | attempts, unhealthy counts | look at each service, restart it | actions | acts on a state read before an `await` | restarts only what crashed or is unhealthy |
| **Workspace lock, process registry** `runtime/process/registry.ts`, `runtime/security/cross-process-file-lock.ts` | lock files, ownership rows | acquire, judge stale, take over, record, transition, reconcile | supervisor, start | several OS processes; holders that die or stall | one holder; a row names the process that was classified |
| **Instance registry** `runtime/instance/registry.ts` | a record per workspace and one per host, generations | register, refresh, close | start, recovery, CLI | two records written one after the other | one live runtime per workspace |
| **Lifecycle documents** `runtime/state/lifecycle-persistence.ts`, `rehydrate.ts` | primary, backup, versioned backup, migration journal | read, replace, migrate, recover | everything persisted | crash between any two writes, readers without a lock, hosts without atomic replace | a reader sees the last answered write or a later one |
| **Endpoint allocation** `runtime/ports/` | host ledger, workspace plan | plan, reserve, claim, release | start, cutover | ports taken between check and use; runtimes that died while their services live | no port is promised twice |
| **Dependency graph, endpoint cutover** `runtime/manager/DependencyGraph.ts`, `runtime/startup/endpoint-cutover.ts` | ports in lifecycle states, generated files | order, impact, rematerialize, reload or restart | start, lifecycle | chains, diamonds, cycles; a cutover that fails half way | consumers name the ports their providers listen on |
| **Updates** `runtime/updates/` | candidate, archive, extracted files, update state | check, download, install, roll back | lifecycle | scheduler, API and CLI at once; failure and crash between the steps | files and records name the same archive |
| **Guarded operations** `runtime/operator/mcp-operations.ts`, `mcp-guarded-actions.ts` | confirmations, idempotency journal, operations | issue, submit, claim, execute, cancel, reconcile | API, MCP, lifecycle, updates, audit | several processes; crashes, late heartbeats, replays, an audit log that is down | an action runs at most once per key and per confirmation; what is reported happened |
| **Operator commands and queue** `runtime/operator/command-confirmations.ts`, `command-facade.ts`, `action-queue.ts`, `inbox.ts` | one JSON file each | issue, confirm, execute; observe, acknowledge, defer, reopen | API, CLI, lifecycle | read, `await`, write back whole, no lock between processes | what runs was confirmed; what is owed is shown |
| **Secret rotation** `runtime/operator/secret-rotation-execution.ts` | a record per operation | execute, resume, roll back | broker, owner's action, consumers | crash and failure between remote effects | a settled rotation is what broker, owner and consumers agree on |
| **Action runs** `runtime/actions/runs.ts` | marks in memory, a record file | run, time out, record | API, scheduler | overlapping runs, a file without a lock | every answered run is recorded; marks end with their runs |
| **Staged transfers** `runtime/release/staged-service-transfer.ts`, `runtime/operator/remote-service-registration.ts` | stages, operations, audit outbox, the released child | create, upload, finalize, confirm, register, reconcile | API, audit | the import happens outside the lock; a call dies around it | each stage is imported at most once, and its operation says so |
| **Audit log** `runtime/audit/store.ts` | files per day, one hash chain | append, verify | most of the above | midnight, a clock set back, repeats, torn lines | a chain that verifies is complete |
| **Secrets broker and identity** `runtime/broker/` | identities in memory | issue, check, revoke | actions | none outlives the process | no identity outlives its process |
| **Platform facade** `platform/` | workflow runs, sync, provider connections | sync, run, connect | API | a fetch between read and write | a run has one outcome |
| Health, authentication, manifests, archives, telemetry, CLI, HTTP routes, contracts | mostly per request | predicates, parsing, reporting | | | see `PROJECT.json` for why each is left out |

How they interact: a *start* of the runtime (`startApiServer` in
`server/index.ts`) opens a journal, runs setup steps and launches through the
lifecycle actions, commits a generation and only then announces itself. A
running runtime receives *commands* over HTTP, one mutating request at a time
(`withRuntimeMutationCoordination`), the *monitor* and *supervision timers* call
the same actions without that coordination, and every process ends in a
*finalizer*, a chain of callbacks that clears the registry row, the tables and
the store. A *shutdown* quiesces supervision, then stops everything in passes. *Another
process* of the host (a second runtime, the command line, a scheduler) meets this
one only in files: registries and ledgers under lock files, and documents under
none.

## 2. Plan and what came of it

| Step of the plan | State |
|---|---|
| Journal and files of a start, its abstract promise | done; every invariant and the refinement are proved |
| Commands, monitor, supervision and shutdown of one service | done; types, one process, the registry's row, the store that tells the truth, the stop that is no crash and the shutdown that leaves nothing are proved |
| Locks: mutual exclusion while no holder is judged stale | done, both locks with their proofs |
| A start's claims beside the files, ownership and adoption after a crash | done in RuntimeStartup, its three invariants proved |
| Guarded operations | done, all their properties proved |
| Ports | done, proved |
| Cutover over dependency graphs | done, proved |
| Confirmations, staged transfers | done, their central properties proved |
| Action runs, lifecycle documents, updates, secret rotation | done, proved |
| Queue, audit | done, proved |
| Workflow sync | not done, see section 8 |

## 3. Modules

A definition marked `mutant` is a deliberately wrong variant of the definition
after it. No action uses it; substituted for its neighbour it must break the
property it is written for, which shows that the property can be broken by a
plausible mistake and that the run reaches the case.

### StartupTransaction

The journal as a record and its writes as operators: `NewJournal`, `Activate`,
`Advance`, `Settle`, `SettleFailed`, each with the guard under which the code
does not throw (`Can...`). It has no variables; a module that owns a journal
instantiates it with its own actions and compensations. Time stamps are left
out, and the cut to 128 digests on reading, which no bound here reaches.

### StartupMaterialization, StartupMaterializationProofs

One workspace, its runtime process, and someone who edits files.

| Variable | Code |
|---|---|
| `disk` | the generated files |
| `sidecar` | `.../materialization` sidecar: entries with preimage and postimage, in order |
| `journal`, `digests` | the startup journal; `materializationDigests` |
| `claims` | the persisted `installed`, `configured` and setup-step flags |
| `pc`, `step`, `pass` | where the process is, the write step and the rollback pass under way; a crash clears them |
| `budget` | the bounds |
| `original`, `foreign`, `vouched`, `untracked`, `torn`, `undoing` | history; no guard reads them |

| Actions | Code |
|---|---|
| `BeginTransaction`, `BootRollback`, `BootResume`, `BootCommitCleanup` | `startApiServerInternal`: inspect what an earlier start left and begin |
| `BeginStep` .. `JournalPostimage` | `prepareEntry`, the write itself (truncate, fill), `completeEntry` |
| `PersistClaim` | the flag, written once the step's files are there |
| `IntendUnverifiable`, `RunUnverifiable` | a setup command with undeclared outputs |
| `RollbackEntry` .. `JournalDiscarded` | `rollbackStartupMaterializations`, `reconcileStartupMaterializationLifecycleState` and the discarding of the sidecar, in `compensateStartupMaterializations` |
| `RetryAttempt` | an attempt that lost its port tries again in the same transaction |
| `CommitGeneration` .. `Stop` | commit, private cleanup, seal, announce, graceful stop |
| `Crash`, `CrashPersisting`, `Edit` | the environment; `CrashPersisting` leaves some flags unreadable, which read as false |

Every `await` that reaches the disk ends an action, so a crash falls between any
two of them. One sidecar variable serves all transactions although the file name
carries the transaction: `SealedLeavesNoEvidence` shows that each one finds it
absent. Not modelled here: the entries of acquired artifacts, the byte limits of
the sidecar, path checks, the generation pointer and the endpoint cutover.
`RetryAttempt` is allowed after any rollback within the retry limit, not only
after a lost port, which adds behaviour and removes none. `undoing` tells a sidecar
whose rollback has begun (a restore of it is journaled) from one that a start went on
with after that (`"resumed"`): the two cannot be told apart by what is on disk, and
that is what section 7 says of it.

### StartupOutcome

What a start promises, with no journal: until it commits, every file can come
back; a rollback is reported only over files that are back; after a commit the
files stay. `ImplementsPromise` maps the detailed variables to it; `touched`, the
files the promise says nothing of, are those someone else edited, and all of them
once a start goes on after its rollback had begun (`Touched`).

### RuntimeStartup, RuntimeStartupProofs

How a process takes over a workspace, publishes itself and leaves: the journal,
the generation registry, the rows of the runtime and of a service, the
allocation of host and workspace, the two instance records, each written in a
step of its own. A start inspects what an earlier one left (`Inspect`, the
classification of `startup/recovery.ts`) and resumes it (`Resume` to
`NoteOwnership`), rolls it back (`Rollback`, the `Undo...` steps, `Settle`),
completes it (`Cleanup`) or refuses. `Intend` .. `Store` are the launch of a service,
`Register` .. `Seal` the registration and the commit, `StopBegins` .. `Release` the
orderly stop. A member of `Process` starts once; its name stands for its generation
and its allocation. `Starting` is a process between its beginning and its being up;
the places in `Leaving` are those of the orderly stop. Files are
StartupMaterialization's, the life of a launched service ServiceLifecycle's.

A launch is four writes with a crash between any two: the journal's intent (`Intend`),
the detached process (`Spawn`, a member of `strays` while nothing on disk names it), its
ownership row (`Enrol`) and its persisted state (`Store`). Whether a start knows that the
service runs is `runs` in its record, the lifecycle state in its memory: set by its own
launch, by a service found again at the launch (`Rediscover`), or by the adoption of the
live owner of the row (`Adopted`) where the inspection had come to the services
(`Evident`). `UndoService` does what `compensateTransactionStartedServices` does: it stops
a service that is known to run and counts one that is not known to run as undone.
Histories say what a rollback passed over: `overlooked`, processes without a row;
`abandoned`, generations whose service lives and has a row that the rollback did not know
of; `evicted`, those whose allocation the inspection found released, so that it never came
to the services.

### WorkspaceLock, FileLock

The two kinds of lock file. WorkspaceLock is that of the registries: created
exclusively, judged and unlinked by whoever finds its owner gone, in separate
steps; `scheme` says which of its two users is meant, which differ in what an
unwritten file counts as. FileLock is `withCrossProcessFileLock`: an abandoned
lock is renamed away under a second lock file and verified, and a new holder looks
for a recovery under way. A written file is judged by whether its owner lives, one that
names no owner by its age alone: `Age` (time passes beyond the stale age) makes a file
old whether its creator died or only stalled between creating it and writing it. Its
history `robbed` says that the stalled lock of a process that lives was judged
abandoned, that the second lock was taken from a process that lives, or that a file put
back replaced the one such a process had made meanwhile. Then two can be inside, in the
model as in the code, and `OneHolder` says nothing; it is about every other case:
holders and recoverers that die at any point, and files young, old and taken while
others look.

### EndpointAllocation, EndpointAllocationProofs, EndpointCutover

EndpointAllocation: runtimes of two workspaces plan a port for their API and one
for their service over the host ledger and the ports that listen, bind, launch,
stop and crash; services outlive runtimes and the next runtime may claim what was
reserved. EndpointCutover: a start gives every service a port; `Impacted` and
`OrderIndex` are the graph functions over the changed ones, and the cutover stamps,
rematerializes and completes one service after the other, or fails between.
Services are numbered by their `serviceorder`. What the code computes by a breadth-first
search and by repeated removal of what is ready is stated by what comes out: the least set
closed under dependents (`WithDependents`), and an index that at each place has the least
service whose dependencies stand before it (`IsOrderIndex`); a graph without one is cyclic.

### ServiceUpdates, ServiceUpdatesProofs

One service's archive, files, install record and update state. Each function
reads the persisted state in one step (`Read`) and writes it back in a later one
(`Persist...`), and the scheduler, the API and the command line may be inside at
once. A tag may be published again with other contents. Memory and disk name
archives apart: `known` is the install record in the runtime's memory, `installed` the
persisted one. Each write and each step on files may fail where the code does not
stop for it: the archive's commit after the candidate was recorded (`CommitFails`, the
rollback then takes the archive from under it), the rollback itself (`RollbackFails`), the
install record after the extraction (`RecordFails`) and any write of the update state
(`PersistFails`).

### GuardedOperations, GuardedOperationsProofs

A request is admitted as an operation (`Ask`, `Admit`), reads the journal of its
key, claims key and confirmation (`Claim`), runs (`Authorize`, `Execute`,
`RecordResult`) and settles journal and operation (`Finalize`, `Stage`, `Settle`).
`Recover`, `StageRecovered` and `SettleForOther` are another process's
reconciliation, `Cancel` and `Restore` a cancellation, `Beat` and `Stall` the
heartbeat. `confirmations` holds a slip per identifier: when it was issued (`number`),
whether it has lapsed, and its status; `issued` keeps the identifiers ever given out,
for a slip trimmed from the file is not issued again. Both stores replace their file under a lock file with its own copy of
the protocol of FileLock (`withStateLock` in each, which waits for the stale age
even when the owner is dead); here a locked section is one step, and one that
writes twice may die between.

### Confirmations, ActionRuns, OperatorQueue, AuditLog, and in DocumentsProofs

Four users of one file each. The first three read, change and write in place
without a lock between processes: the write is two steps, a file that is emptied
and one that is filled, and a crash may fall between. The audit log appends under
FileLock; the file of a line is chosen by date, and `AppendDies` leaves part of a
line, or all but its end. The `log` is the lines of all files as they are read, each with
the number of its file; a line goes after the last one of its file, which is the end
of the log only because `Bucket` never chooses an earlier file than the latest.
ActionRuns marks per call what excuses a run that is not in its file: that the call read or
wrote while another held an older copy (`interfered`), or that every run kept is in its
`newer`, the runs recorded after it.

### SecretRotation, and in DocumentsProofs

One secret, its broker, its owner's action and two consumers, one restarted and
one reloaded. A call keeps a copy of the operation's record and writes it after
each step (`WriteOp`); `Execute` goes on from what is there; `Catch` and the steps
after it undo. The broker and the owner do or do not do what they are asked.

### StagedTransfer, StagedTransferProofs

Stages, operations and outbox are one document: each locked section reads it,
applies the deadlines that passed (`TimePasses`), works and replaces it
(`Locked`). `Lookup` .. `RecordOutcome` is a registration, with the import outside
the lock; `ReconcileInput` .. `Doubt` what a replay does; `Flush` .. `Sent` the
outbox.

### LifecycleDocument

One document with its backups, candidate and journal; a writer, who holds the
workspace lock, and a reader, who holds none but finishes a migration it finds. A
file is its form (missing, legacy, current, newer, corrupt) and the number of the
write it holds. `windows` chooses a host where a refused rename removes the
destination first.

### ServiceLifecycle, ServiceLifecycleProofs

One service of a running runtime.

| Variable | Code |
|---|---|
| `record` | the lifecycle store: `running`, `runtime.pid`, `lastTermination`, `supervision.restartAttempts` |
| `live` | processes the OS runs |
| `proc` | the supervisor's record of each process, and how far its finalizer is |
| `managed`, `adopted`, `finalizer` | `managedProcesses`, `adoptedProcesses`, `managedProcessFinalizers` |
| `row` | the ownership registry's row |
| `thread` | where the operator's command, the monitor's round, the shutdown and each supervised restart are |
| `starting` | `withServiceStartSerialization`: the holder and the waiting; `PassedOn` gives the turn to the next |
| `timer`, `active`, `shutdownRequested` | `scheduledSupervisionRestarts`, `activeSupervisionRestarts`, `shutdownRequestedServiceIds` |
| `overlapped`, `degraded`, `intent`, `contested`, `overtaken`, `relaunches` | history |

JavaScript runs one callback at a time, so an action is what happens between two
awaits that matter. `proc[p].stage` follows a process through *launched*,
*tracked* (`activateManagedRecord`), *removed*, *persisted* (`persistProcessExit`),
*scheduling* and *done*.

| Actions | Code |
|---|---|
| `CallStart`, `CallStop`, `CallRestart`, `CallInstall`, `Install` | the commands, up to their first await |
| `MonitorLooks`, `MonitorRestarts`, `MonitorPasses` | `inspectService`, `restartMonitoredService` |
| `DoctorAllows`, `DoctorRefuses` | the doctor preflight of a restart |
| `EnterStart`, `Adopt`, `Negotiate` | `startServiceSerialized` up to the launch |
| `Check` .. `Activate`, `Contain`, `Retain` | `startManagedProcess`, with failed enrolments and failed containments |
| `Ready`, `Unready`, `Own`, `Settle` | readiness and the end of a launch |
| `Mark`, `Kill`, `Expel`, `StopFails`, `GivesUp`, `StopEnds`, `StopRecords`, `OldStopped`, `NewStopped` | stopping, for whichever command |
| `Exits`, `Remove`, `PersistExit`, `Supervise`, `Schedule`, `AdoptedExits` | exits, finalizers, supervision |
| `TimerFires`, `Blocked`, `Decide` | a supervised restart |
| `ShutDown`, `MonitorStops`, `Quiesce`, `Drained`, `PassEnds` | the shutdown |

Abstractions: deadlines are choices paid from a failure budget; reading the
registry and adopting what it names is one step; `Remove` joins the row and the
table, which one callback chain clears without reading anything between; an
`actions.stop` command only delays the kill; a supervision that is blocked ends
in the step that blocks it; the killed process of a restart counts as crashed;
a timer that replaces one still armed is not distinguished from it. The
monitor's own attempt counter is not modelled: the runs give it at most
`MaxAttempts` rounds, below which it allows every restart. The limit of eight
shutdown passes is not reached within the bounds. Not modelled: config, uninstall
and reset, nested starts of dependencies, ports, the broker, traces.

### MC modules

MCStartupMaterialization and MCServiceLifecycle give model values, the map from
files to flags and the symmetry sets. **MCRuntime**, **MCOperator** and
**MCDocuments** run several modules in one model: `Init` chooses a `component` and
with it the initial states of one part, the others keep their first state, and
each property is stated of its part. Nothing is gained by interleaving parts that
share no variable (a lock and an update, say), and the product of their states
would put all of them out of reach; what parts do share is inside one module
(RuntimeStartup writes the ledger and the rows itself). A second
instance of a part (the guarded operations with one call and more faults) lives in variables
`x1`, `x2`, ... of MCOperator. The modules are extended, so that the runs check the very properties the theorems
state: MCRuntime extends RuntimeStartup, WorkspaceLock, EndpointAllocation and EndpointCutover,
MCOperator GuardedOperations, ServiceUpdates and ActionRuns, MCDocuments StagedTransfer, FileLock,
Confirmations, LifecycleDocument, SecretRotation, AuditLog and OperatorQueue.

## 4. Runs

| Run | Instance | Shows |
|---|---|---|
| `startup_rewrites` | one file, two contents, two entries, a retry, a crash, an edit | all eight invariants of a start when one file is written repeatedly, someone else edits it, and a bind attempt is retried under the same identifiers |
| `startup_promise` | one file, two starts, a crash, an edit, fairness | every start settles or is handed to the operator, and the code implements StartupOutcome |
| `runtime` | three processes, three ports, a crash, two other troubles, a pause; five dependency graphs of three services | one active runtime, nothing left behind a sealed rollback that it could know of, no launched process without a record; the lock excludes; ports are not shared; consumers follow their providers |
| `operator` | two calls, two keys, two confirmations, two processes, a fault; one call with three faults; three archives; three action runs, a file that keeps two | once per key, once per confirmation, true reports, ends that last; archive, files and records agree; a full file of runs keeps the latest |
| `documents` | two stages, keys, calls or operations, one to three processes, one or two troubles in each part | one import per stage, a complete audit chain, settled rotations, one lock holder, confirmed commands, documents that go forward, a queue that keeps what is owed |
| `lifecycle_restarts` | every command twice, the monitor, one supervised thread, two processes, one exit, one failure | types, and that tables, store and registry agree about the service's process; a stop is no crash |
| `lifecycle_shutdown` | start, stop, install, one supervised thread, three processes, a shutdown, fairness | one process at a time, a shutdown that leaves nothing behind and ends, an end for commands and supervised restarts |
| `startup_rewrite_blocked` | as `startup_rewrites`, without edits and retries | *violated*: `AttributableStartupRecovers`, see section 7 |
| `startup_edits_mix` | two files of two flags, four entries, a crash, two edits; `HeldUpSpec` keeps to some of the behaviours | *violated*: `EditsStayApart` |
| `lifecycle_stop_defied` | start, stop, the monitor | *violated*: `StopSticks` |
| `lifecycle_relaunches` | one start, two supervised threads, three exits | *violated*: `RelaunchesBounded` |
| `lifecycle_drain_blocked` | start, restart, a shutdown, fairness | *violated*: `RestartsDrain` |

**Bounds.** Two entries of one file are the least that have one superseded by another; a retry
fills the sidecar a second time under the same identifiers. (With three entries and no edits the
run passes as well.) Two contents and a missing file are the least that tell "restored",
"superseded" and "changed" apart. One crash may fall inside the recovery of a first failure,
because a start can also fail without one; the two starts of `startup_promise` add the recovery
of a recovery. In `runtime` one process may die, a second recover what it left while a third
starts beside it; three processes are also the least at a lock for one that holds, one that
judges and one that takes over. Three ports leave a runtime of one workspace a choice after the
other has taken two. Three services make every shape of provider and consumer that `Impacted`
tells apart: behind one another, beside one another, reached on two ways, in a cycle. Two calls
may share a key, a confirmation, both or neither, in one process or two; the part "recovery" gives
one call three faults, which two calls cannot have within reach. Three archives under two tags
have a replacement under a new tag and one under the same. Three runs over a file of two push one
out, and show which. In `documents` every part has two
actors of the kind that interferes, and as many troubles as a failure of a recovery needs. Three
processes of a service are the least with which two launches come due after an exit; two commands
and one failure let a failed command be followed by another. The monitor looks at one state and
acts once per round, and a second round begins from a state the first reaches.

Several files and flags at once are out of a run's reach together with edits, and are what the
theorems of section 5 cover. `startup_edits_mix` restricts the next-state relation (`HeldUp`) to
reach its counterexample; each of its behaviours is one of `Spec`.

**Symmetry** is declared where no property and no guard orders the values; no run with liveness
uses it. Deadlock is not checked: with its budgets spent and every process down or at rest the
system may stop.

**Exemptions.** A history variable marks what a property leaves out, because the code makes no
promise there or breaks the one it makes: `undoing = "resumed"` in StartupMaterialization (a start
that goes on with the sidecar of its own rollback, in `RolledBackRestoresFiles`,
`EveryChangeIsUndoable` and `ClaimsVouchLiveFiles`), `overlapped`, `degraded` and `contested` in
ServiceLifecycle (a restart takes no start turn and its stop waits for whatever process there
is), `overtaken` in `StoreAgrees` there (an attempt of a supervised restart replaced by a later one:
`stopService` records its stop after it has revoked the grants, and the restart it did not cancel
may have launched a process by then, over which the store then says "stopped"), `usurped` in RuntimeStartup (two processes recover one journal, and one ends the generation the
other has begun) and `spent.overlaps` there (two starts at once, whose copies of the journal
overwrite one another), `overlooked` and `evicted` there in `RolledBackLeavesNothing` (a process whose
runtime died before it wrote the row, which nothing on disk names; a service whose generation had lost
its allocation while it ran), `robbed` in the locks (a lock taken from a process that lives), `blind` in EndpointAllocation
(an inspection that failed), `behind` in EndpointCutover (what a failed cutover had still to do),
`torn` in AuditLog (a crash within an append), `raced` and `windows` in LifecycleDocument,
`overlapped` in ServiceUpdates and per call in OperatorQueue, `interfered` in ActionRuns (two
read-modify-writes at once), `crashed` in ServiceUpdates (the runtime died during a call), `misplaced`
and `misnamed` there (a download whose commit failed after the candidate was recorded, or whose
rollback failed, until the next candidate or install; an install record that could not be written over
new files, or names files of such an archive, until the next install). The hazards list says what is known to go wrong in each.

**Fairness.** The event loop runs every callback that is due, readiness probes and
doctor steps have time-outs, and setup commands are killed at theirs: weak fairness
for each thread, each finalizer and the shutdown, and for the steps of a start, its
rollback and its commit. A workspace whose start was cut off is started again
(`WF(Boot)`): nothing else could settle its journal. Nothing obliges an operator to
call, a process to exit, a crash or an edit to happen.

## 5. Proofs

Each theorem holds for every value of the constants: any number of files, flags, entries, starts,
processes, calls, crashes, pauses and faults. The named assumptions say of the constants what the
code needs (`"none"` is nobody's name, a bound is a number, `UnitOf` maps files to flags); TLC
evaluates them in the runs. An inductive invariant is laid out as the code is: one lemma per
action or group of like actions and, under it, one step per conjunct the action can disturb. TLC
checked the parts of each on small instances before they were proved.

**StartupMaterializationProofs**, from `ConstantsAssumption`:

| Theorem | Says |
|---|---|
| `Invariance` | `Spec => []IInv` |
| `TypeCorrect` | `Spec => []TypeOK` |
| `NoEvidenceAfterSeal` | `Spec => []SealedLeavesNoEvidence` |
| `EvidenceKept` | `Spec => []PendingWorkHasEvidence` |
| `UnverifiableNeverRolledBack` | `Spec => []UntrackedBlocks` |

None of the four properties is inductive. A sealed journal leaves no sidecar only
because its discard was pending until the sidecar was gone; pending work keeps its
evidence only because an identifier leaves the journal before its entry can go; and
both rest on which journal statuses go with which point of the program. Hence
`IInv == TypeOK /\ Phased /\ Prepared /\ Guarded /\ Evidenced /\ Accounted`:
`Phased` ties the status to `pc`, `Prepared` says that the identifiers a write step
carries name recorded entries, `Guarded` that a sidecar exists only while its discard
is pending, `Evidenced` that an identifier is forgotten before its entry, `Accounted`
that an unverifiable command stays on record. Lemmas about the journal's operators
(`CompensationNames` and those after it) are stated once.

**The second half of StartupMaterializationProofs**, from the same assumption, with three
invariants, each on top of the one before:

| Theorem | Says |
|---|---|
| `RestoreInvariance`, `ClaimsInvariance`, `EvidenceInvariance` | `Spec => []RestoreInv`, `[]ClaimsInv`, `[]EvidenceInv` |
| `RollbacksRestore` | `Spec => []RolledBackRestoresFiles` |
| `ChangesAreUndoable` | `Spec => []EveryChangeIsUndoable` |
| `UndisturbedRollbackRestores` | without edits a sealed rollback has every file back, with no exemption |
| `PromiseKept` | `Spec => ImplementsPromise`, the refinement of StartupOutcome |
| `ClaimsAreTrue` | `Spec => []ClaimsVouchLiveFiles` |
| `RefusalsHaveCause` | `Spec => []BlockedOnlyWithCause` |

`RestoreInv` adds `Recoverable` to `IInv`: a file nobody edited is back for good, or has a pending
restore whose entry, and every entry before it of that file, holds what it was. A rollback
preserves it only because it works from the newest entry down (`Ordered`), a write because the
file's restore is pending before it is opened (`Opened`), a new entry because no rollback has
begun on this sidecar (`Begun`); `Closed` says what is pending under which status, `Unspoiled`
that without edits no start goes on after its rollback began. The refinement shows each step to be
a `Begin`, `Write`, `Commit`, `RollBack` or edit of StartupOutcome, or to leave its variables alone;
the guard of `RollBack` there is `RolledBackRestoresFiles`.

`ClaimsInv` adds that a flag which stands for other files than those of the beginning is one the
rollback will withdraw (`Honest`), because every file that changed has an entry that says so or is
still open (`Traced`, `Unwritten`), and what a rollback carries from the restores to the flags
(`Carried`).

`EvidenceInv` is about what an inspection after a crash finds, so long as nobody edited and
nothing was torn: the entries of one file form a chain in which each found what the pending one
before it left (`Linked`), digests are those of the images (`Digested`), a file shows what its
newest entry says (`Current`, `Fitted`), and so, at every point of a rollback and of one that
follows it, the newest pending entry of a file is one the inspection accepts (`Returning`).

**RuntimeStartupProofs**, from `ProcessAssumption`:

| Theorem | Says |
|---|---|
| `HoldIsInvariant`, `RollbackIsInvariant` | `StartupSpec => []HoldInv`, `[]RollbackInv` |
| `RuntimeIsAlone` | `StartupSpec => []OneActiveRuntime` |
| `LaunchesAreRecorded` | `StartupSpec => []LaunchedIsRecorded` |
| `RollbacksLeaveNothing` | `StartupSpec => []RolledBackLeavesNothing` |

`HoldInv` holds with overlapping starts: types, what the place of a process says of the
generation it has and of the one its copy of the journal names (`Names`), and, unless a rollback
ended the generation of a process that lives, that whoever has a generation has the active one
(`Authority`). `RollbackInv` adds, while no start began during another's, where each start is
(`Starts`: its copy is the journal, what it has written before its place, what is undone and not
yet noted), that every trace of an uncommitted generation's owner, instance, phase and allocation is
noted as pending (`AllNoted`), and what holds of the service (`ServiceInv`): as long as a process that
a generation launched lives, unless a rollback passed it over, its journal says that it must be stopped
(`StopNoted`); a process without a row belongs to a runtime that stands, or died, between spawn and row
(`StraysWait`), so a rollback can pass over such a process of the dead only; and a start that has to
stop a service with a row knows that it runs, whether it launched it or found it, unless its allocation
was lost (`Knows`), so no other is abandoned. `LaunchedIsRecorded` alone is not inductive: an undo
removes its resource first and notes that afterwards, and the process may die between.

**The last part of RuntimeStartupProofs**, about WorkspaceLock, from `LockAssumption`:

| Theorem | Says |
|---|---|
| `LockIsInvariant` | `LockSpec => []LockInv` |
| `LockIsTyped` | `LockSpec => []LockTypeOK` |
| `LockExcludes` | `LockSpec => []ExclusiveUnlessRobbed` |

`LockInv` adds to the types `FileNamesHolder` (while no lock was robbed, whoever has
opened the file and not left is the one in it, so its own unlink is harmless and two
holders are the same) and `StaleHasCause` (nothing looks stale, and nothing is stolen,
before a process has died or a file has aged).

**ServiceLifecycleProofs**, from `ConstantsAssumption`:

| Theorem | Says |
|---|---|
| `LifecycleIsTyped` | `Spec => []TypeOK` |
| `ServiceRunsOnce` | `Spec => []OneProcess` |
| `RegistryIsRight` | `Spec => []RegistryNamesProcess` |
| `StopsAreNoCrashes` | `Spec => []StopIsNoCrash` |

`LifecycleTypes` adds to the types where each command may be (`Fits`). `TurnInv` says that a start
or supervised restart under way has the turn of the service, and one that waits is in line.
`SoleInv` adds, while no restart ran together with another launch or stop, that a process which
lives is managed or in the hands of the one thread that launched it, that this thread found
nothing managed (`Cleared`, `Launched`, `LiveKnown`), that the row was written before the
activation (`Enrolled`, `Registered`) and that what is killed was marked first (`Marked`,
`KilledWasStopped`).

**The second half of ServiceLifecycleProofs**, from `ConstantsAssumption` and the invariant above:

| Theorem | Says |
|---|---|
| `StoreTellsTheTruth` | `Spec => []StoreAgrees` |
| `ShutdownLeavesNothing` | `Spec => []ShutdownDrains` |

`StoreAgrees` speaks of moments of rest only, so the invariant has to say what each writer of the
store may still do. `StoreInv` adds to `SoleInv` which thread may be where (`Roles`) and, while
nothing failed, launches did not run together and no restart was overtaken (`Calm`), that one
supervised restart at a time is under way (`OneRestart`) and the `StoreKept` parts: a launch begins
only when the store says "not running"; what is managed is what the store names; a store that
says "running" with nothing managed is about to be corrected, by the one finalizer that a later
launch would wait for or by the thread that stops the process; and an operator's stop, until it
has recorded itself, keeps every launch away. The last part fails once a supervised
restart was overtaken by another, which is why `StoreAgrees` exempts that.

`ShutdownDrains` holds at the end of a sequence of passes, so what matters is what each pass may
rely on. `DrainInv`, as long as no command ran into the shutdown, no restart was overtaken and no
launches overlapped (`Undisturbed`), says that a finalizer which would take the end of its process
for unexpected is the one the tables know, unless the shutdown itself has given it up
(`FinalizersKnown`, `GaveUp`); that a launch which has passed its check found no such finalizer
left, and a stop that waits likewise (`Waited`, `Halted`); that the row names what is managed or is
being activated (`RowKnown`); and, by where the shutdown is, that once the quiescer has drained it no
restart is under way and none can be scheduled (`Drain`, `Quiet`). The proof shows where each
exemption of the property is needed: an operator's stop that has recorded itself keeps restarts away
only while it is undisturbed (`OperatorStopHolds`).

**GuardedOperationsProofs**, from `CallAssumption`:

| Theorem | Says |
|---|---|
| `GuardedIsInvariant`, `OutcomeIsInvariant` | `GuardedSpec => []GuardedInv`, `[]OutcomeInv` |
| `KeyActsOnce` | `GuardedSpec => []OncePerKey` |
| `ConfirmationActsOnce` | `GuardedSpec => []OncePerConfirmation` |
| `ReportsAreTrueAlways` | `GuardedSpec => []ReportsAreTrue` |
| `EndsAreKept` | `GuardedSpec => [][KeepsItsEnd]_guardedVars` |

`OncePerKey` speaks of what has been performed; what makes it so is who may perform.
`GuardedInv` adds to the types `KeyIsTaken` (a call that may act, or has acted, is the
one its key's journal entry names, so two of them have two keys) and `RecordFollows`
(an operation has no record before its admission and nothing left to settle after its
end, so no late runner and no reconciliation can give it another). `SpendingInv` says that the
confirmation of a call that may act is spent, was issued, and is no other call's; an
identifier trimmed from the file cannot come back because only issued ones are filed.
`TruthInv` says that each word about a call, in the journal, its record, a recovery's copy or its
answer, settled or still to be settled, is true of what the call did; a call is called skipped only
once it is past the point where it acts. Most steps touch one
call or one record: the lemmas `QuietStep`, `CallStep` and `RecordStep` say what such a
step keeps, and the lemma of an action only shows that it is one.

**StagedTransferProofs**, which assumes for the lock that `"none"` is no process, and of the
transfers `StagedAssumption` (the two words for "no stage" and "files of no stage" are no stages):

| Theorem | Says |
|---|---|
| `FileLockIsInvariant` | `FileLockSpec => []FileLockInv` |
| `FileLockExcludes` | `FileLockSpec => []OneHolder` |
| `StagesAreImportedOnce` | `StagedSpec => []ImportedOnce` |

`FileLockInv` says, while no living process
was robbed of its lock or its recovery (`robbed`), that the lock file and the recovery file are those of the processes
that have made and not left them, and that
between its look at the lock and the rename a recovery deals with one and the same file of a dead
process (`JudgedIsThere`): the recovery file keeps everybody else away in between.

The lock makes a section of a transfer one step; what `ImportedOnce` is about happens between
sections. `StagedInv` says that only one call at a time has a claimed stage in its hands
(`OneClaim`), that the stage of a call about to take the handle was not handed over and that of a
call about to import not published (`ClaimHolds`), and that every word about a registration, in the
store or in the hands of a call that has not recorded it yet, is true (`IsTrue`): a completed one was
published, and for one in conflict the service's directory is another's. The last is stronger than the
property, which fails to be inductive without the words still on their way.

**EndpointAllocationProofs**, from `PortAssumption` (zero is no port, `"none"` no process) and
`CutoverAssumption` (a service refers only to what it depends on, as
`consumerEndpointSelectorValues` resolves references among the declared dependencies only):

| Theorem | Says |
|---|---|
| `PortsAreKeptApart` | `PortSpec => []PortsAreNotShared` |
| `ReferencesAreUpToDate` | `CutoverSpec => []ConsumersFollow` |

`PortInv` relates three documents. In the host's ledger a port stands once (`PortsAreUnique`), the
rows of one allocation are one process's (`OneClaimant`), and that process made the allocation or its
maker is dead (`MakerOrHeir`). While no inspection of a living runtime failed, what a runtime plans
with is in the ledger under its name (`HeldIsReserved`): others drop only rows of the dead, and a
claim takes over only rows whose process has ended. A workspace has one runtime (`OneRuntime`), whose
copy of the plan is the plan (`EngagedSomewhere`), and a service that outlived its runtime is known
by its port to whoever plans next (`ServiceHasPort`).

`CutoverInv` says of a cutover under way (`CutoverGoesOn`) what the property cannot: all but the
services still to do have their new ports, and what refers to a port that is not yet the new one is
still to do itself, since whoever refers to a changed service is impacted
(`ReferrersAreImpacted`); files that were not touched are those the failure will restore. So a
failure at any point leaves wrong names only with those it had still to do. That each step takes
one of these, whatever the graph, is `DueIsLeft`; the order among them matters to the processes
that start, not to the property.

**ServiceUpdatesProofs**, from `ArchiveAssumption` (zero stands for "no archive", the first one is published):

| Theorem | Says |
|---|---|
| `UpdatesAreInvariant` | `UpdatesSpec => []UpdatesInv` |
| `UpdatesLeaveWhatTheyRecord` | `UpdatesSpec => []FilesAreThoseRecorded` |

The property is about moments between calls that neither overlapped nor died. `UpdatesInv` says of
the one call there is (`Alone`, `Fits`) that the update state it has read is the persisted one, that
a download keeps what its failure puts back in place of the new archive until its candidate is recorded,
that an install works on the candidate that is persisted, and that between extraction and record the
files are those about to be recorded, unless the archive was misplaced. A failure is exempt from where
it happens until the step that makes it good, and from no other: that step is part of the proof.

**DocumentsProofs**, from `CommandAssumption` (`"none"` is no command), `KeptAssumption` and
`OperationAssumption` (no operation has the name of the first version, or of none), `AuditAssumption`
(there is a first day) and `QueueAssumption` (the queue has room for one item):

| Theorem | Says |
|---|---|
| `RunsAreConfirmed` | `ConfirmationSpec => []RunsOnlyAsConfirmed` |
| `RunsStayAccountedFor` | `ActionSpec => []RunsAreAccountedFor` |
| `ReadsNeverGoBack` | `DocSpec => []ReadsGoForward` |
| `SettlesEverywhere` | `RotationSpec => []SettledIsEverywhere` |
| `ChainsAreComplete` | `AuditSpec => []VerifiedIsComplete` |
| `OwedStaysOpen` | `QueueSpec => []OwedIsOpen` |

The confirmation file goes back to an older copy with every write that overtakes another, so nothing is
said of the order of the copies: `Sound` holds of each, in the file or in the hands of a call, because
confirmations are never taken back, and an execution compares the service once more.

In `ActionInv` a copy that a call has still to write names what was answered, as the file does
(`CopyNames`): whoever is answered meanwhile has interfered with the call that holds the copy. Both
are in the order in which the runs were recorded (`InOrder`), so what a full one drops is older than
all it keeps. A file that is being written is torn while its writer has not interfered (`WritesAlone`),
so nobody reads half of it and goes on.

`DocInv` holds on a host that replaces files in one step and while no reader has taken over
a migration beside its writer. The last answer is in the primary, the one before it in
the backup unless the primary was damaged first (`DocumentKept`); the first answer ends migration, and
no journal is left for a reader to take up (`MigrationIsOver`); a writer that is about to replace a
current document has saved it (`WriterFits`).

`RotationInv` says of a rotation what `SettledIsEverywhere` says of it at rest. One operation is open, and
one that was never begun has left no trace (`OneOpen`, `Fresh`). A call stands where its copy and its file
put it (`CallFits`, `CallFitsFile`): the file never says more than the copy, but for the phase `committed`
that an undoing before the activation can write too early, and that one has undone the owner's action.
While it has not, an open operation has its version at the owner, and once activated at the broker and at
the consumers it counted (`IsLive`). An undoing that nothing interrupts has the previous version back in
the same order (`Reverted`), and before it begins the owner's action was not undone, unless two things
went wrong (`CallKept`).

`AuditInv` says that no two lines that parse hold the same event (`ReadOnce`), that an answered event is
in one of them unless a line does not parse (`RecordedIsRead`: a line that is cut short can take an
answered event with it, and the chain then never verifies), and that without a torn append the whole log
verifies and every line has its end (`UntornIsWhole`). The step is short because of two lemmas: no line is in a
later file than the one an event goes to (`BucketIsLast`), so a line is added to the end of the log or
joined to the last one (`AppendedAtEnd`).

`QueueInv` says that the queue, and what each call will write, is sorted, short enough and holds every
condition once (`Kept`), and that what is owed waits in it (`Waits`), in an item that is no older than the
debt: an item that is pushed out leaves a queue of newer ones. A call promises this only of its own
copy (`WorkFits`), and only while it has met no other; a file that nobody is writing and that cannot be
read is owed nothing. `WithKeeps` says what one write makes of a queue.

**Only model-checked.** Every safety invariant and action property of the passing runs is stated by a
theorem; `SettledStays` of the run `operator` is `KeepsItsEnd` of two instances, and the theorem is about
`KeepsItsEnd`. Liveness (`StartupSettles`, `CommandsEnd`, `SupervisionSettles`, `ShutdownEnds`,
`RestartsDrain`) stays with TLC: the prover has no support for fairness.

## 6. What the checks say of the code

A start undoes its files correctly across crashes at every point, crashes in the
middle of its own rollback, retries and edits, and never loses evidence it still
needs. What it claims beside the files is given back before a rollback is sealed, whichever
process recovers it, while no start begins during another's and with two exceptions: a service process whose runtime died before it wrote the
process's row lives on behind a journal that says rolled back, and so does a service whose generation
had lost its allocation. Two runtimes are never active in one workspace, unless two of them recover the same journal
at once. A service's process is known to
tables and registry wherever restarts do not overlap, the store agrees with them at rest where besides
no supervised restart was overtaken by another, stops are never mistaken
for crashes, and a shutdown without commands running into it ends and leaves nothing
behind. Ports are kept apart across workspaces and deaths. A guarded action runs once
per key and per confirmation whatever is repeated, lost or taken over, and what is
reported of it is true. An update leaves candidate, archive, files and install record in agreement
(or no files, where an extraction failed) whatever fails before they are recorded; a commit that fails after the candidate was recorded, or a
record that cannot be written after the extraction, leaves them apart until the next download or install.
The file lock has one holder, except that a process that stalls beyond the stale age
between making the lock and writing its name into it is taken for dead. Documents go forward and the audit chain that verifies is
complete.

## 7. Where code and documents disagree

- **A start that wrote one file twice is not recovered** (`startup_rewrite_blocked`).
  The inspection compares the file with the postimage of every pending entry, the
  superseded ones included, and blocks; `SPEC-002` AC-4BJ.5 promises a rollback of
  attributable work, and the rollback itself handles the case.
- **A rollback may take a rewritten file for a restored one** (`startup_edits_mix`). It counts a
  file as restored when it shows the preimage of any entry up to its own. A rollback that
  someone's edit of another file held up keeps its sidecar; if the process dies before the
  journal is sealed and the edit is taken back, the next start goes on with that sidecar. What it
  then writes again may equal an old preimage, and a later rollback is sealed with the file as
  written, against `SPEC-002` AC-4BJ.6. The lifecycle flags follow the same test, and have the
  same hole. `UndisturbedRollbackRestores` proves that it takes an edit by someone else.
- **The monitor brings back a stopped service** (`lifecycle_stop_defied`). It reads the
  state, waits for the health check, and restarts without reading it again.
- **Supervision relaunches more often than `maxAttempts`** (`lifecycle_relaunches`). A
  failing supervised restart writes its own attempt number over the count its
  process's crash has meanwhile raised.
- **A shutdown may wait for ever** (`lifecycle_drain_blocked`). A supervised restart waits
  without a deadline for the finalizer of a process that lives on, and the shutdown
  awaits the restart before it stops any process.

Further sentences of the repository do not hold in the models. Each is stated as a
property beside its module, with the reason, and no run lists it; the hazards name the
lines.

| Property | Sentence | What happens |
|---|---|---|
| `NoForeignRelease` (WorkspaceLock) | `docs/reference/process-ownership-registry.md:54` | two processes judge one stale file; the second unlinks what the first has made since |
| `RolledBackIsReal` (RuntimeStartup) | `docs/reference/lifecycle-fault-injection-matrix.md`, INV-4 | a runtime that dies between a spawn and its row leaves a process that the next start rolls the journal back over |
| `ReservedIsResumed` (RuntimeStartup) | `docs/reference/startup-hard-crash-matrix.md:35` | a start that died between the claim and its owner row is blocked |
| `StoppedIsStartedAgain` (ServiceUpdates) | `docs/development/service-update-management-plan.md:206` | an install refused after the stop leaves the service down |
| `CommittedResultIsRetained` (GuardedOperations) | `mcp-operations.ts:725` | a cancellation hides a result that was committed |
| `ExecutedOnce` (Confirmations) | `docs/reference/operator-command-facade.md:131` | two executions read the same unused record |
| `InterruptedCanResume` (SecretRotation) | `secret-rotation-execution.ts:268` | an interrupted rollback is never resumed and refuses all others |
| `SkipsWhileRunning` (ActionRuns) | `docs/reference/service-json-reference.md:359` | two runs pass the check before either is marked |
| `StoreStaysReadable`, `AuditTellsOutcome` (StagedTransfer) | `docs/api/staged-service-transfer.md:65`, `:225` | cleaning a quarantined stage makes the document incoherent; a reconciled outcome adds no event |
| `MigratesAtomically`, `InterruptedIsRead` (LifecycleDocument) | `docs/reference/process-ownership-registry.md:61`, `:65` | a reader finishes a migration under its writer; a removed primary reads as no document |

More are exempted inside a property: consumers a failed cutover had still to do are
never brought up to date (`ConsumersFollow`, `SPEC-002` AC-4BK); the rows of a runtime
that could not be inspected are dropped from the ledger (`PortsAreNotShared`); a download whose
commit fails after its candidate was recorded, and an install whose record cannot be written over the
new files, leave records that name another archive (`FilesAreThoseRecorded`).

## 8. Not modelled

Pure or per-request code, where there is nothing to interleave: manifests, validation,
authentication, health evaluation, dashboards, diagnostics, dry-run plans, contracts, the
command line and the HTTP routes, archive parsing. Broker identities are one map of one
process. `platform/workflowSyncController.ts` reads its state before a long fetch and writes all
of it afterwards; it is the first candidate for another module. Left out of modelled components:
config, uninstall, reset and nested starts in ServiceLifecycle; acquired artifacts in
StartupMaterialization; `reservations.ts` and `negotiate.ts` beside EndpointAllocation (unlocked
read-modify-writes, `docs/reference/runtime-port-reservations.md`); a workspace plan or host
ledger whose write fails; `inbox.ts` beside OperatorQueue (the same structure, but a read item
stays read); direct registration of a released service beside StagedTransfer; the lock of a
secret in SecretRotation (created empty, so another process may take it for stale); an owner's
action there that took effect and is reported as failed; hash
collisions of `stableIdFromDedupeKey`; the identity documents that refuse a backup.

## 9. Running

    tlc -workers 2 -config StartupRewrites.cfg MCStartupMaterialization
    tlc -workers 2 -config LifecycleShutdown.cfg MCServiceLifecycle
    tlc -workers 2 -config Runtime.cfg MCRuntime
    tlc -workers 2 -config Operator.cfg MCOperator
    tlc -workers 2 -config Documents.cfg MCDocuments
    tlapm StartupMaterializationProofs.tla
    tlapm RuntimeStartupProofs.tla
    tlapm ServiceLifecycleProofs.tla
    tlapm GuardedOperationsProofs.tla
    tlapm StagedTransferProofs.tla
    tlapm EndpointAllocationProofs.tla
    tlapm ServiceUpdatesProofs.tla
    tlapm DocumentsProofs.tla

`PROJECT.json` lists the runs, maps every definition to the source lines it models, and
lists the hazards of the code with the properties that watch them.
