---------------------------- MODULE ServiceUpdates ----------------------------
(***************************************************************************)
(* The update of one service (runtime/updates): a check asks which release *)
(* is tracked, a download puts its archive under .state/update-candidates  *)
(* and an install extracts a downloaded archive over the files the service *)
(* runs from.  The scheduler calls by the service's mode; an operator, by  *)
(* the API or the command line, calls what he likes.  Nothing keeps two    *)
(* calls apart: each reads the persisted update state, and writes it back  *)
(* in a later step.                                                        *)
(*                                                                         *)
(* An archive is published under a tag; a tag may be published again with  *)
(* other contents.                                                         *)
(***************************************************************************)
EXTENDS Naturals

CONSTANTS
  Archive,     \* 1..n, in the order they are published
  TagOf(_),    \* the tag of an archive
  MaxTroubles  \* bounds the steps that fail, the crashes and the calls begun during another

ASSUME ArchiveAssumption == 1 \in Archive /\ 0 \notin Archive

VARIABLES
  policy,      \* updates.mode and updates.runningService of the manifest
  published,   \* the archive that the tracked release has now
  update,      \* the persisted update state
  stored,      \* the archive kept under a tag
  installed,   \* the archive the persisted install record names
  known,       \* the archive that the record in the runtime's memory names
  extracted,   \* the archive whose files are there
  running,     \* whether the service runs
  jobs,        \* per caller: where its call is and what it holds
  overlapped,  \* history: two calls were under way together
  crashed,     \* history: the runtime died during a call
  misplaced,   \* history: a failure took the recorded candidate's archive away, or could not put it back
  misnamed,    \* history: the record of the files could not be written, or their archive was misplaced
  spent        \* the bound already used

updateVars == <<policy, published, update, stored, installed, known, extracted, running, jobs,
                overlapped, crashed, misplaced, misnamed, spent>>

Caller == {"scheduler", "operator"}
NoState == [state |-> "unread"]
NoCall == [at |-> "idle", kind |-> "none", force |-> FALSE, expected |-> 0, saw |-> NoState,
           found |-> 0, backup |-> 0, candidate |-> 0, stopped |-> FALSE]

UpdatesInit ==
  /\ policy \in [mode : {"notify", "download", "install"}, runningService : {"skip", "restart"}]
  /\ published = 1
  /\ update = [state |-> "installed", candidate |-> 0]
  /\ stored = [t \in {TagOf(a) : a \in Archive} |-> 0]
  /\ installed \in {0, 1}
  /\ extracted = installed /\ known = installed
  /\ running \in BOOLEAN
  /\ jobs = [c \in Caller |-> NoCall]
  /\ overlapped = FALSE /\ crashed = FALSE /\ misplaced = FALSE /\ misnamed = FALSE /\ spent = 0

CallerAt(c, place) == jobs[c].at = place
CallerGoes(c, to) == jobs' = [jobs EXCEPT ![c].at = to]
CallerEnds(c) == jobs' = [jobs EXCEPT ![c] = NoCall]
Trouble == spent < MaxTroubles /\ spent' = spent + 1

named == <<installed, known>>
slips == <<misplaced, misnamed>>
files == <<stored, named, extracted, slips>>
rest == <<policy, published, overlapped, crashed>>

-----------------------------------------------------------------------------
(* The persisted update state *)

Persisting == {"defer", "persistCheck", "persistCandidate", "persistFailure", "persistInstalled"}

(* readServiceUpdateState, at the head of each function that persists. *)
Read(c) ==
  /\ jobs[c].at \in Persisting /\ jobs[c].saw = NoState
  /\ jobs' = [jobs EXCEPT ![c].saw = update]
  /\ UNCHANGED <<update, files, running, rest, spent>>

Persists(c, place, changed, to) ==
  /\ CallerAt(c, place) /\ jobs[c].saw # NoState
  /\ update' = changed
  /\ IF to = "idle" THEN CallerEnds(c)
     ELSE jobs' = [jobs EXCEPT ![c].at = to, ![c].saw = NoState]

(* persistUpdateCheckResult: only a state that ends as "installed" drops the candidate, and it
   had none. *)
Checked(saw, status) ==
  [saw EXCEPT !.state = CASE status = "failed" -> "failed"
                          [] status = "available" -> "available"
                          [] OTHER -> IF saw.candidate # 0 THEN "downloadedCandidate" ELSE "installed"]

PersistDeferred(c) ==
  /\ Persists(c, "defer", [jobs[c].saw EXCEPT !.state = "installDeferred"], "idle")
  /\ UNCHANGED <<files, running, rest, spent>>

(* persistUpdateFailure, and the failure's hooks. *)
PersistFailure(c) ==
  /\ Persists(c, "persistFailure", [jobs[c].saw EXCEPT !.state = "failed"], "idle")
  /\ UNCHANGED <<files, running, rest, spent>>

(* Any of these writes may fail: the call ends with the error. *)
PersistFails(c) ==
  /\ jobs[c].at \in (Persisting \ {"persistCandidate"}) \cup {"forget"}
  /\ Trouble
  /\ CallerEnds(c)
  /\ UNCHANGED <<update, files, running, rest>>

-----------------------------------------------------------------------------
(* checkServiceUpdate and downloadServiceUpdateCandidate *)

Begin(c) ==
  /\ CallerAt(c, "idle")
  /\ \E kind \in {"check", "download", "install"}, force, guarded \in BOOLEAN :
       /\ c = "scheduler" =>
            /\ kind = (IF policy.mode = "notify" THEN "check" ELSE policy.mode)
            /\ ~force /\ ~guarded
       /\ force \/ guarded => kind = "install"
       /\ guarded => update.candidate # 0
       /\ jobs' = [jobs EXCEPT ![c] = [NoCall EXCEPT
                     !.at = IF kind = "install" THEN "admit" ELSE "query", !.kind = kind,
                     !.force = force, !.expected = IF guarded THEN update.candidate ELSE 0]]
  /\ IF \A d \in Caller : CallerAt(d, "idle")
     THEN UNCHANGED <<overlapped, spent>>
     ELSE overlapped' = TRUE /\ Trouble
  /\ UNCHANGED <<policy, published, update, files, running, crashed>>

(* What the provider says; 0 when it cannot be asked. *)
Query(c) ==
  /\ CallerAt(c, "query")
  /\ \E found \in {0, published} :
       /\ IF found = 0 THEN Trouble ELSE UNCHANGED spent
       /\ jobs' = [jobs EXCEPT ![c].at = "persistCheck", ![c].found = found]
  /\ UNCHANGED <<update, files, running, rest>>

(* classifyUpdate, against the install record that was there. *)
Status(found) ==
  CASE found = 0 -> "failed"
    [] found # 0 /\ installed # 0 /\ TagOf(found) = TagOf(installed) -> "latest"
    [] OTHER -> "available"

PersistCheck(c) ==
  /\ LET status == Status(jobs[c].found) IN
     Persists(c, "persistCheck", Checked(jobs[c].saw, status),
              IF jobs[c].kind # "check" /\ status = "available" THEN "fetch" ELSE "idle")
  /\ UNCHANGED <<files, running, rest, spent>>

(* downloadToFile: what was stored under the tag is kept beside until the download is committed. *)
Fetch(c) ==
  /\ CallerAt(c, "fetch")
  /\ LET tag == TagOf(jobs[c].found) IN
       /\ stored' = [stored EXCEPT ![tag] = jobs[c].found]
       /\ jobs' = [jobs EXCEPT ![c].at = "persistCandidate", ![c].backup = stored[tag]]
  /\ UNCHANGED <<update, named, extracted, slips, running, rest, spent>>

FetchFails(c) ==
  /\ CallerAt(c, "fetch") /\ Trouble
  /\ CallerGoes(c, "persistFailure")
  /\ UNCHANGED <<update, files, running, rest>>

PersistCandidate(c) ==
  /\ CallerAt(c, "persistCandidate") /\ jobs[c].saw # NoState
  /\ update' = [jobs[c].saw EXCEPT !.state = "downloadedCandidate", !.candidate = jobs[c].found]
  /\ jobs' = [jobs EXCEPT ![c].at = "commit", ![c].saw = NoState]
  /\ misplaced' = FALSE
  /\ UNCHANGED <<stored, named, extracted, misnamed, running, rest, spent>>

(* archiveCommit.commit: what was kept beside goes. *)
CommitDownload(c) ==
  /\ CallerAt(c, "commit")
  /\ IF jobs[c].kind = "install"
     THEN jobs' = [jobs EXCEPT ![c].at = "hooks", ![c].candidate = jobs[c].found]
     ELSE CallerEnds(c)
  /\ UNCHANGED <<update, files, running, rest, spent>>

(* mutant: a download that fails leaves its archive there. *)
RestoredNot(c) == stored

(* The rollback of an archive that is still this call's. *)
Restored(c) ==
  LET tag == TagOf(jobs[c].found) IN
  IF stored[tag] = jobs[c].found THEN [stored EXCEPT ![tag] = jobs[c].backup] ELSE stored

(* A commit that failed after it dropped what was kept beside leaves a rollback nothing to put back. *)
Emptied(c) ==
  LET tag == TagOf(jobs[c].found) IN
  IF stored[tag] = jobs[c].found THEN [stored EXCEPT ![tag] = 0] ELSE stored

(* The failure is recorded, unless the download was aborted. *)
LeavesDownload(c) ==
  \/ jobs' = [jobs EXCEPT ![c].at = "persistFailure", ![c].saw = NoState]
  \/ jobs[c].kind = "download" /\ CallerEnds(c)

(* The candidate cannot be recorded, or the call is aborted before. *)
DownloadFails(c) ==
  /\ CallerAt(c, "persistCandidate") /\ Trouble
  /\ stored' = Restored(c)
  /\ LeavesDownload(c)
  /\ UNCHANGED <<update, named, extracted, slips, running, rest>>

(* The archive is rolled back from under the candidate, which stays recorded. *)
CommitFails(c) ==
  /\ CallerAt(c, "commit") /\ Trouble
  /\ stored' \in {Restored(c), Emptied(c)}
  /\ misplaced' = TRUE
  /\ LeavesDownload(c)
  /\ UNCHANGED <<update, named, extracted, misnamed, running, rest>>

(* The rollback fails as well, before or after it moved the archive; nothing more is recorded. *)
RollbackFails(c) ==
  /\ jobs[c].at \in {"persistCandidate", "commit"} /\ Trouble
  /\ stored' \in {stored, Restored(c), Emptied(c)}
  /\ misplaced' = TRUE
  /\ CallerEnds(c)
  /\ UNCHANGED <<update, named, extracted, misnamed, running, rest>>

-----------------------------------------------------------------------------
(* installServiceUpdateCandidate *)

(* A guarded install stops the service only after its candidate was looked at. *)
AfterAdmission(c) == IF jobs[c].expected = 0 THEN "stop" ELSE "candidate"
AfterStop(c) == IF jobs[c].expected = 0 THEN "candidate" ELSE "hooks"

(* The mode, the window and whether a rollback has something to go back to. *)
AdmitInstall(c) ==
  /\ CallerAt(c, "admit")
  /\ \E inWindow \in BOOLEAN :
       CallerGoes(c, IF /\ policy.mode = "install" \/ jobs[c].force
                        /\ inWindow \/ jobs[c].force
                        /\ known # 0
                     THEN AfterAdmission(c) ELSE "defer")
  /\ UNCHANGED <<update, files, running, rest, spent>>

(* The service's state is persisted as the runtime knows it. *)
StatePersisted == installed' = known /\ UNCHANGED <<stored, known, extracted, slips>>

(* stopRunningServiceForInstall *)
StopForInstall(c) ==
  /\ CallerAt(c, "stop")
  /\ \/ /\ jobs[c].force \/ ~running
        /\ CallerGoes(c, AfterStop(c)) /\ UNCHANGED <<files, running, spent>>
     \/ /\ ~jobs[c].force /\ running /\ policy.runningService = "skip"
        /\ CallerGoes(c, "defer") /\ UNCHANGED <<files, running, spent>>
     \/ /\ ~jobs[c].force /\ running /\ policy.runningService # "skip"
        /\ \/ running' = FALSE /\ StatePersisted /\ UNCHANGED spent
              /\ jobs' = [jobs EXCEPT ![c].at = AfterStop(c), ![c].stopped = TRUE]
           \/ Trouble /\ CallerEnds(c) /\ UNCHANGED <<files, running>>
  /\ UNCHANGED <<update, rest>>

Candidate(c) ==
  /\ CallerAt(c, "candidate")
  /\ LET a == update.candidate IN
     CASE jobs[c].expected # 0 /\ (a # jobs[c].expected \/ stored[TagOf(a)] # a) -> CallerEnds(c)
       [] jobs[c].expected = 0 /\ a = 0 -> CallerGoes(c, "query")
       [] OTHER -> jobs' = [jobs EXCEPT ![c].candidate = a,
                              ![c].at = IF jobs[c].expected = 0 THEN "hooks" ELSE "stop"]
  /\ UNCHANGED <<update, files, running, rest, spent>>

PreUpgrade(c) ==
  /\ CallerAt(c, "hooks")
  /\ \/ CallerGoes(c, "extract") /\ UNCHANGED spent
     \/ Trouble /\ CallerGoes(c, "persistFailure")
  /\ UNCHANGED <<update, files, running, rest>>

(* The archive cannot be read, or extractArchive fails after it emptied the directory.  A guarded
   install extracts the copy it verified. *)
Source(c) ==
  IF jobs[c].expected # 0 THEN jobs[c].expected ELSE stored[TagOf(jobs[c].candidate)]

Extract(c) ==
  /\ CallerAt(c, "extract")
  /\ \/ /\ Source(c) # 0
        /\ extracted' = Source(c) /\ CallerGoes(c, "record") /\ UNCHANGED spent
     \/ /\ IF Source(c) = 0 THEN UNCHANGED <<extracted, spent>>
           ELSE Trouble /\ extracted' \in {0, extracted}
        /\ CallerGoes(c, "persistFailure")
  /\ UNCHANGED <<update, stored, named, slips, running, rest>>

(* setLifecycleState, then writeServiceState. *)
Record(c) ==
  /\ CallerAt(c, "record")
  /\ known' = jobs[c].candidate /\ installed' = jobs[c].candidate
  /\ misnamed' = misplaced
  /\ CallerGoes(c, "persistInstalled")
  /\ UNCHANGED <<update, stored, extracted, misplaced, running, rest, spent>>

(* The new files are there and the runtime knows them, the persisted record names the old ones. *)
RecordFails(c) ==
  /\ CallerAt(c, "record") /\ Trouble
  /\ known' = jobs[c].candidate
  /\ misnamed' = TRUE
  /\ CallerEnds(c)
  /\ UNCHANGED <<update, stored, installed, extracted, misplaced, running, rest>>

(* persistUpdateCheckResult of "latest", then what it returned without the candidate. *)
PersistInstalled(c) ==
  /\ Persists(c, "persistInstalled", Checked(jobs[c].saw, "latest"), "forget")
  /\ UNCHANGED <<files, running, rest, spent>>

ForgetCandidate(c) ==
  /\ CallerAt(c, "forget")
  /\ update' = [state |-> "installed", candidate |-> 0]
  /\ CallerGoes(c, "restart")
  /\ UNCHANGED <<files, running, rest, spent>>

Restart(c) ==
  /\ CallerAt(c, "restart")
  /\ \/ ~jobs[c].stopped /\ CallerGoes(c, "post") /\ UNCHANGED <<files, running, spent>>
     \/ /\ jobs[c].stopped /\ CallerGoes(c, "post")
        /\ running' = TRUE /\ StatePersisted /\ UNCHANGED spent
     \/ /\ jobs[c].stopped /\ Trouble /\ (CallerGoes(c, "post") \/ CallerEnds(c))
        /\ UNCHANGED <<files, running>>
  /\ UNCHANGED <<update, rest>>

PostUpgrade(c) ==
  /\ CallerAt(c, "post")
  /\ \/ CallerEnds(c) /\ UNCHANGED spent
     \/ Trouble /\ CallerGoes(c, "persistFailure")
  /\ UNCHANGED <<update, files, running, rest>>

-----------------------------------------------------------------------------
(* The rest of the world *)

Publish ==
  /\ published + 1 \in Archive
  /\ published' = published + 1
  /\ UNCHANGED <<policy, update, files, running, jobs, overlapped, crashed, spent>>

StartService ==
  /\ ~running /\ extracted # 0
  /\ running' = TRUE /\ StatePersisted
  /\ UNCHANGED <<update, jobs, rest, spent>>

Quiet == \A c \in Caller : CallerAt(c, "idle")

(* The next runtime knows what is persisted. *)
RuntimeDies ==
  /\ IF Quiet THEN UNCHANGED <<crashed, spent>> ELSE crashed' = TRUE /\ Trouble
  /\ jobs' = [c \in Caller |-> NoCall]
  /\ known' = installed
  /\ running' \in {FALSE, running}
  /\ UNCHANGED <<policy, published, update, stored, installed, extracted, slips, overlapped>>

UpdatesNext ==
  \/ Publish \/ StartService \/ RuntimeDies
  \/ \E c \in Caller :
       \/ Begin(c) \/ Query(c) \/ Fetch(c) \/ FetchFails(c) \/ DownloadFails(c)
       \/ CommitDownload(c) \/ CommitFails(c) \/ RollbackFails(c) \/ PersistFails(c) \/ RecordFails(c)
       \/ AdmitInstall(c) \/ StopForInstall(c) \/ Candidate(c) \/ PreUpgrade(c) \/ Extract(c) \/ Record(c)
       \/ ForgetCandidate(c) \/ Restart(c) \/ PostUpgrade(c)
       \/ Read(c) \/ PersistDeferred(c) \/ PersistFailure(c) \/ PersistCheck(c) \/ PersistCandidate(c)
       \/ PersistInstalled(c)

UpdatesSpec == UpdatesInit /\ [][UpdatesNext]_updateVars

-----------------------------------------------------------------------------

(* Between calls, the archive the candidate names is the one kept under its tag, and the files are
   those of the archive that the persisted record and the runtime's memory name unless their
   extraction failed.  Exempt are the failures the code does not make good: a commit that fails
   after the candidate was recorded, or a rollback that fails, misplaces the archive until the next
   candidate is recorded or this one installed; an install record that cannot be written over new
   files, or files from such an archive, are misnamed until the next install.  Any other failure, a
   rollback, a tag published again, a read of the state before and a write after it leave both
   true.  (downloadToFile, downloadServiceUpdateCandidate, installServiceUpdateCandidate) *)
FilesAreThoseRecorded ==
  Quiet /\ ~overlapped /\ ~crashed =>
    /\ ~misplaced /\ update.candidate # 0 => stored[TagOf(update.candidate)] = update.candidate
    /\ ~misnamed => extracted \in {0, installed} /\ known = installed

(* docs/development/service-update-management-plan.md:206: "`stop-start` and `restart` stop the
   running service, install the candidate, and start it again".  A call that stopped the service,
   and in which nothing fails, leaves it running.  It does not hold, and no run lists it: a call
   that is refused after the stop leaves it down.  (stopRunningServiceForInstall) *)
StoppedIsStartedAgain ==
  [][\A c \in Caller : jobs[c].stopped /\ jobs'[c].at = "idle" /\ spent' = 0 /\ ~overlapped
       => running']_updateVars
==============================================================================
