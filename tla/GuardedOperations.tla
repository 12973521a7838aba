--------------------------- MODULE GuardedOperations ---------------------------
(***************************************************************************)
(* Guarded actions (runtime/operator/mcp-guarded-actions.ts) run as        *)
(* durable operations (runtime/operator/mcp-operations.ts).  An operator   *)
(* obtains a confirmation bound to the plan of the moment, then asks for   *)
(* the action under an idempotency key.  The request is admitted as an     *)
(* operation record, claims the confirmation and a journal entry of its    *)
(* key, runs, and settles journal and operation through the Audit log.     *)
(* Processes crash, the Audit log fails, a runner's heartbeat stalls, and  *)
(* other processes reconcile what they take to be abandoned.               *)
(*                                                                         *)
(* Both stores are replaced as a whole under a lock file, so a locked      *)
(* section is one step; one that writes twice may die between its writes.  *)
(***************************************************************************)
EXTENDS Naturals, FiniteSets

CONSTANTS
  Call,          \* requests to execute; a call names its operation and its correlation id
  Key,           \* idempotency keys
  Confirmation,  \* confirmation ids
  Process,       \* operating system processes that share the workspace
  Adapter,       \* the ways in: "http" or "mcp"
  MaxConfirmations, \* MAX_CONFIRMATIONS, 64 in the code
  MaxFaults      \* bounds the crashes, outages of Audit, stalls, expiries, drifts and cancels together

ASSUME CallAssumption == "none" \notin Call

VARIABLES
  confirmations, \* guarded-actions.json: per id its confirmation, numbered as they were issued
  journal,       \* the idempotency record of each key
  operations,    \* operations.json
  plan,          \* the authoritative plan as it is now
  calls,         \* where each call is, and what it holds in memory
  recovered,     \* per operation: the outcome a reconciling process has read for it
  dead,          \* the processes that died
  performed,     \* history: what each call did to the services
  issued,        \* the confirmation ids already used
  faults         \* how much of the bound is used

guardedVars ==
  <<confirmations, journal, operations, plan, calls, recovered, dead, performed, issued, faults>>

NoEntry == [call |-> "none", pending |-> "none", response |-> "none"]
NoOperation == [status |-> "none", pending |-> "none", fresh |-> FALSE, expired |-> FALSE]
Unasked == [at |-> "idle"]
NoConfirmation == [status |-> "none", lapsed |-> FALSE, revision |-> 0, number |-> 0]
NoPlan == [revision |-> 0, executable |-> FALSE]

IsTerminal(status) == status \in {"succeeded", "failed", "cancelled", "skipped", "unknown_after_crash"}
Asked(c) == calls[c].at # "idle"
Running(c) == calls[c].at \notin {"idle", "done"}
Lives(c) == Running(c) /\ calls[c].process \notin dead
At(c, place) == calls[c].at = place /\ Lives(c)
Entry(c) == journal[calls[c].key]

GuardedInit ==
  /\ confirmations = [id \in Confirmation |-> NoConfirmation]
  /\ journal = [k \in Key |-> NoEntry]
  /\ operations = [c \in Call |-> NoOperation]
  /\ plan = [revision |-> 0, executable |-> TRUE]
  /\ calls = [c \in Call |-> Unasked]
  /\ recovered = [c \in Call |-> "none"]
  /\ dead = {}
  /\ performed = [c \in Call |-> "none"]
  /\ issued = {}
  /\ faults = 0

Fault == faults < MaxFaults /\ faults' = faults + 1
NoFault == UNCHANGED faults
Goes(c, to) == calls' = [calls EXCEPT ![c].at = to]
Ends(c, to, result) ==
  calls' = [calls EXCEPT ![c].at = to, ![c].result = result, ![c].approved = NoPlan]

(* What a step that appends to the Audit log does when the log takes the event, and when not. *)
AuditUp == NoFault
AuditDown == Fault

-----------------------------------------------------------------------------
(* Confirmations *)

Holding(id, status) == id \in Confirmation /\ confirmations[id].status = status
Marked(id, status) ==
  IF Holding(id, "none") \/ id \notin Confirmation
  THEN confirmations ELSE [confirmations EXCEPT ![id].status = status]

(* The newest MaxConfirmations of a file. *)
Trimmed(file) ==
  LET Newer(id) == {o \in Confirmation : file[o].status # "none" /\ file[o].number > file[id].number} IN
  [id \in Confirmation |-> IF Cardinality(Newer(id)) < MaxConfirmations THEN file[id] ELSE NoConfirmation]

(* A request for the plan alone issues a confirmation bound to it. *)
Issue(id) ==
  /\ id \notin issued /\ plan.executable
  /\ LET Over(f) == f.status = "pending" /\ f.lapsed
         kept == [o \in Confirmation |-> IF Over(confirmations[o]) THEN NoConfirmation
                                         ELSE confirmations[o]]
         new == [status |-> "pending", lapsed |-> FALSE, revision |-> plan.revision,
                 number |-> Cardinality(issued) + 1] IN
       /\ Cardinality({o \in Confirmation : kept[o].status = "pending"}) < MaxConfirmations
       /\ confirmations' = Trimmed([kept EXCEPT ![id] = new])
  /\ issued' = issued \cup {id}
  /\ UNCHANGED <<journal, operations, plan, calls, recovered, dead, performed, faults>>

(* mutant: a confirmation that was claimed serves again. *)
IsValidReused(id, revision) ==
  \/ Holding(id, "claimed") \/ Holding(id, "completed")
  \/ Holding(id, "pending") /\ confirmations[id].revision = revision

(* validateConfirmation, against the plan a request has just been shown. *)
IsValid(id, revision) ==
  /\ Holding(id, "pending")
  /\ ~confirmations[id].lapsed
  /\ confirmations[id].revision = revision

IsReplay(id) == Holding(id, "claimed") \/ Holding(id, "completed")

(* Whoever presents a confirmation that has lapsed marks it so. *)
Refuse(id) ==
  /\ Holding(id, "pending") /\ confirmations[id].lapsed
  /\ confirmations' = Marked(id, "expired")
  /\ UNCHANGED <<journal, operations, plan, calls, recovered, dead, performed, issued, faults>>

-----------------------------------------------------------------------------
(* The operation record *)

(* preflightMcpGuardedActionExecution: what is asked must be confirmed already, by a pending
   confirmation or by the one it is a repetition of. *)
Ask(c, p, via, k, id) ==
  /\ ~Asked(c) /\ p \notin dead
  /\ IF id = "none" THEN ~plan.executable ELSE IsValid(id, plan.revision) \/ IsReplay(id)
  /\ calls' = [calls EXCEPT ![c] =
       [at |-> "admitting", process |-> p, via |-> via, key |-> k, confirmation |-> id,
        approved |-> NoPlan, aborted |-> FALSE, result |-> "none"]]
  /\ UNCHANGED <<confirmations, journal, operations, plan, recovered, dead, performed, issued, faults>>

Cleaned ==
  [c \in Call |-> IF IsTerminal(operations[c].status) /\ operations[c].expired
                  THEN NoOperation ELSE operations[c]]

(* Over HTTP a key that has an operation is answered with that operation. *)
Admitted(c) ==
  calls[c].via = "http" =>
    \A d \in Call : Cleaned[d].status # "none" => calls[d].key # calls[c].key

Admit(c) ==
  /\ At(c, "admitting")
  /\ IF Admitted(c)
     THEN /\ operations' = [Cleaned EXCEPT ![c] = [NoOperation EXCEPT !.status = "running", !.fresh = TRUE]]
          /\ Goes(c, "auditing")
     ELSE operations' = Cleaned /\ Ends(c, "done", "existing")
  /\ UNCHANGED <<confirmations, journal, plan, recovered, dead, performed, issued, faults>>

AuditAdmission(c) ==
  /\ At(c, "auditing")
  /\ \/ AuditUp /\ Goes(c, "reading") /\ UNCHANGED operations
     \/ AuditDown /\ Ends(c, "done", "error")
        /\ operations' = [operations EXCEPT ![c] = NoOperation]
  /\ UNCHANGED <<confirmations, journal, plan, recovered, dead, performed, issued>>

-----------------------------------------------------------------------------
(* The guarded action *)

(* mutant: an entry that has no result yet does not stop a second attempt. *)
FreeUnfinished(e) == e.response = "none" /\ e.pending = "none"

Free(e) == e = NoEntry

ReadJournal(c) ==
  /\ At(c, "reading")
  /\ \/ Free(Entry(c)) /\ ~calls[c].aborted
        /\ calls' = [calls EXCEPT ![c].at = "claiming", ![c].approved = plan] /\ AuditUp
     \/ Free(Entry(c)) /\ calls[c].aborted /\ Ends(c, "staging", "error") /\ AuditUp
     \/ ~Free(Entry(c)) /\ Entry(c).pending # "none" /\ Goes(c, "finalizing") /\ AuditUp
     \/ ~Free(Entry(c)) /\ Entry(c).response # "none" /\ Ends(c, "staging", "replayed") /\ AuditUp
     \/ ~Free(Entry(c)) /\ Entry(c).response # "none" /\ Ends(c, "staging", "error") /\ AuditDown
     \/ ~Free(Entry(c)) /\ Entry(c).pending = "none" /\ Entry(c).response = "none"
        /\ Ends(c, "staging", "error") /\ AuditUp
  /\ UNCHANGED <<confirmations, journal, operations, plan, recovered, dead, performed, issued>>

Opened(c, pending) == [call |-> c, pending |-> pending, response |-> "none"]

(* Under the lock: journal and confirmation are looked at again, then both are written. *)
Claim(c) ==
  /\ At(c, "claiming")
  /\ LET id == calls[c].confirmation  k == calls[c].key  approved == calls[c].approved IN
     \/ /\ ~Free(Entry(c))
        /\ Ends(c, "staging", IF Entry(c).response # "none" THEN "replayed" ELSE "error")
        /\ UNCHANGED <<confirmations, journal, dead, faults>>
     \/ /\ Free(Entry(c)) /\ ~approved.executable
        /\ journal' = [journal EXCEPT ![k] = Opened(c, "skipped")]
        /\ Goes(c, "finalizing")
        /\ UNCHANGED <<confirmations, dead, faults>>
     \/ /\ Free(Entry(c)) /\ approved.executable /\ IsValid(id, approved.revision)
        /\ confirmations' = Marked(id, "claimed")
        /\ \/ /\ journal' = [journal EXCEPT ![k] = Opened(c, "none")]
              /\ Goes(c, "authorizing")
              /\ UNCHANGED <<dead, faults>>
           \/ /\ Fault /\ dead' = dead \cup {calls[c].process}
              /\ UNCHANGED <<journal, calls>>
     \/ /\ Free(Entry(c)) /\ approved.executable /\ ~IsValid(id, approved.revision)
        /\ confirmations' = IF Holding(id, "pending") /\ confirmations[id].lapsed
                            THEN Marked(id, "expired") ELSE confirmations
        /\ Ends(c, "staging", "error")
        /\ UNCHANGED <<journal, dead, faults>>
  /\ UNCHANGED <<operations, plan, recovered, performed, issued>>

Authorize(c) ==
  /\ At(c, "authorizing")
  /\ \/ AuditUp /\ Goes(c, "executing")
     \/ AuditDown /\ Ends(c, "staging", "error")
  /\ UNCHANGED <<confirmations, journal, operations, plan, recovered, dead, performed, issued>>

Changed == [revision : {plan.revision + 1}, executable : BOOLEAN]

(* The facade plans once more and runs the action only when the plan is the approved one. *)
Execute(c) ==
  /\ At(c, "executing")
  /\ \/ /\ plan = calls[c].approved /\ ~calls[c].aborted
        /\ \E outcome \in {"succeeded", "failed"} :
             /\ performed' = [performed EXCEPT ![c] = outcome]
             /\ Ends(c, "recording", outcome)
        /\ plan' \in Changed
     \/ /\ plan # calls[c].approved \/ calls[c].aborted
        /\ Ends(c, "recording", "failed")
        /\ UNCHANGED <<plan, performed>>
  /\ UNCHANGED <<confirmations, journal, operations, recovered, dead, issued, faults>>

RecordResult(c) ==
  /\ At(c, "recording")
  /\ journal' = [journal EXCEPT ![calls[c].key].pending = calls[c].result]
  /\ Goes(c, "finalizing")
  /\ UNCHANGED <<confirmations, operations, plan, recovered, dead, performed, issued, faults>>

(* finalizePendingTerminal, for the call that made the entry, one that repeats it or a process
   that reconciles: Audit first, then the confirmation, then the entry. *)
Closed(e) == [e EXCEPT !.response = e.pending, !.pending = "none"]

Completed(k) ==
  IF journal[k].pending = "skipped" THEN confirmations
  ELSE Marked(calls[journal[k].call].confirmation, "completed")

CloseEntry(k) ==
  /\ journal' = [journal EXCEPT ![k] = Closed(@)]
  /\ confirmations' = Completed(k)

ResultFor(c) ==
  IF Entry(c).call # c THEN "replayed"
  ELSE IF Entry(c).response # "none" THEN Entry(c).response ELSE Entry(c).pending

Finalize(c) ==
  /\ At(c, "finalizing")
  /\ \/ /\ Entry(c).pending # "none"
        /\ AuditUp
        /\ CloseEntry(calls[c].key)
        /\ Ends(c, "staging", ResultFor(c))
        /\ UNCHANGED dead
     \/ /\ Entry(c).pending # "none"
        /\ AuditDown
        /\ Ends(c, "staging", "error")
        /\ UNCHANGED <<confirmations, journal, dead>>
     \/ /\ Entry(c).pending # "none"
        /\ Fault /\ dead' = dead \cup {calls[c].process}
        /\ confirmations' \in {confirmations, Completed(calls[c].key)}
        /\ UNCHANGED <<journal, calls>>
     \/ /\ Entry(c).pending = "none"
        /\ Ends(c, "staging", ResultFor(c))
        /\ UNCHANGED <<confirmations, journal, dead, faults>>
  /\ UNCHANGED <<operations, plan, recovered, performed, issued>>

-----------------------------------------------------------------------------
(* The operation's end *)

OutcomeOf(c) ==
  CASE calls[c].result = "error" -> IF calls[c].aborted THEN "cancelled" ELSE "failed"
    [] calls[c].result = "failed" /\ calls[c].aborted -> "cancelled"
    [] calls[c].result \in {"replayed", "skipped"} -> "skipped"
    [] OTHER -> calls[c].result

(* mutant: the end is staged over one that is settled already. *)
StagedAgain(c, outcome) == [operations EXCEPT ![c].pending = outcome]

Staged(c, outcome) ==
  IF operations[c].status = "none" \/ IsTerminal(operations[c].status) \/ operations[c].pending # "none"
  THEN operations
  ELSE [operations EXCEPT ![c].pending = outcome]

Stage(c) ==
  /\ At(c, "staging")
  /\ operations' = Staged(c, OutcomeOf(c))
  /\ Goes(c, "settling")
  /\ UNCHANGED <<confirmations, journal, plan, recovered, dead, performed, issued, faults>>

Settled(c) ==
  [operations EXCEPT ![c].status = operations[c].pending, ![c].pending = "none", ![c].expired = FALSE]

(* A record whose Audit event cannot be written keeps its pending end. *)
Settle(c) ==
  /\ At(c, "settling")
  /\ \/ operations[c].pending # "none" /\ AuditUp /\ operations' = Settled(c)
     \/ operations[c].pending # "none" /\ AuditDown /\ UNCHANGED operations
     \/ operations[c].pending = "none" /\ UNCHANGED <<operations, faults>>
  /\ Goes(c, "done")
  /\ UNCHANGED <<confirmations, journal, plan, recovered, dead, performed, issued>>

-----------------------------------------------------------------------------
(* Other processes: reconcileOperation, cancel, the heartbeat *)

Open(c) ==
  /\ operations[c].status \in {"running", "cancelling"}
  /\ operations[c].pending = "none"

RunnerOwns(c) == calls[c].process \notin dead /\ operations[c].fresh

Abandoned(c) ==
  /\ Open(c) /\ ~RunnerOwns(c)
  /\ Process \ (dead \cup (IF Running(c) THEN {calls[c].process} ELSE {})) # {}

(* mutant: the entry of the key is taken for the operation's, whoever made it. *)
IsOwnUnread(c) == Entry(c) # NoEntry

IsOwn(c) == Entry(c).call = c

(* recoverDetached: what the journal proves.  Where it proves nothing the HTTP adapter ends the
   operation as unknown; the other leaves it until it expires. *)
Recover(c) ==
  /\ Abandoned(c) /\ recovered[c] = "none"
  /\ \/ /\ IsOwn(c) /\ Entry(c).response # "none"
        /\ recovered' = [recovered EXCEPT ![c] = Entry(c).response]
        /\ UNCHANGED <<confirmations, journal>>
     \/ /\ IsOwn(c) /\ Entry(c).pending # "none"
        /\ recovered' = [recovered EXCEPT ![c] = Entry(c).pending]
        /\ CloseEntry(calls[c].key)
     \/ /\ IsOwn(c) => Entry(c).response = "none" /\ Entry(c).pending = "none"
        /\ \/ "http" \in Adapter /\ recovered' = [recovered EXCEPT ![c] = "unknown_after_crash"]
           \/ "mcp" \in Adapter /\ operations[c].expired
              /\ recovered' = [recovered EXCEPT ![c] = "failed"]
        /\ UNCHANGED <<confirmations, journal>>
  /\ UNCHANGED <<operations, plan, calls, dead, performed, issued, faults>>

StageRecovered(c) ==
  /\ recovered[c] # "none"
  /\ operations' = Staged(c, recovered[c])
  /\ recovered' = [recovered EXCEPT ![c] = "none"]
  /\ UNCHANGED <<confirmations, journal, plan, calls, dead, performed, issued, faults>>

SettleForOther(c) ==
  /\ operations[c].pending # "none" /\ Process # dead
  /\ operations' = Settled(c)
  /\ UNCHANGED <<confirmations, journal, plan, calls, recovered, dead, performed, issued, faults>>

Cancel(c) ==
  /\ Open(c) /\ operations[c].status = "running"
  /\ Fault
  /\ operations' = [operations EXCEPT ![c].status = "cancelling"]
  /\ UNCHANGED <<confirmations, journal, plan, calls, recovered, dead, performed, issued>>

(* Cancelling what no runner owns is unsupported: the request is taken back. *)
Restore(c) ==
  /\ Abandoned(c) /\ operations[c].status = "cancelling" /\ "mcp" \in Adapter
  /\ operations' = [operations EXCEPT ![c].status = "running"]
  /\ UNCHANGED <<confirmations, journal, plan, calls, recovered, dead, performed, issued, faults>>

Beat(c) ==
  /\ Lives(c) /\ Open(c)
  /\ operations' = [operations EXCEPT ![c].fresh = TRUE]
  /\ calls' = [calls EXCEPT ![c].aborted = @ \/ operations[c].status = "cancelling"]
  /\ UNCHANGED <<confirmations, journal, plan, recovered, dead, performed, issued, faults>>

-----------------------------------------------------------------------------
(* The environment *)

Stall(c) ==
  /\ Lives(c) /\ Open(c) /\ operations[c].fresh
  /\ Fault
  /\ operations' = [operations EXCEPT ![c].fresh = FALSE]
  /\ UNCHANGED <<confirmations, journal, plan, calls, recovered, dead, performed, issued>>

Expire(c) ==
  /\ operations[c].status # "none" /\ ~operations[c].expired
  /\ Fault
  /\ operations' = [operations EXCEPT ![c].expired = TRUE]
  /\ UNCHANGED <<confirmations, journal, plan, calls, recovered, dead, performed, issued>>

Lapse(id) ==
  /\ Holding(id, "pending") /\ ~confirmations[id].lapsed
  /\ Fault
  /\ confirmations' = [confirmations EXCEPT ![id].lapsed = TRUE]
  /\ UNCHANGED <<journal, operations, plan, calls, recovered, dead, performed, issued>>

Drift ==
  /\ Fault
  /\ plan' \in Changed
  /\ UNCHANGED <<confirmations, journal, operations, calls, recovered, dead, performed, issued>>

Crash(p) ==
  /\ p \notin dead
  /\ Fault
  /\ dead' = dead \cup {p}
  /\ UNCHANGED <<confirmations, journal, operations, plan, calls, recovered, performed, issued>>

GuardedNext ==
  \/ Drift
  \/ \E p \in Process : Crash(p)
  \/ \E id \in Confirmation : Issue(id) \/ Refuse(id) \/ Lapse(id)
  \/ \E c \in Call :
       \/ \E p \in Process, via \in Adapter, k \in Key, id \in Confirmation \cup {"none"} :
            Ask(c, p, via, k, id)
       \/ Admit(c) \/ AuditAdmission(c) \/ ReadJournal(c) \/ Claim(c) \/ Authorize(c)
       \/ Execute(c) \/ RecordResult(c) \/ Finalize(c) \/ Stage(c) \/ Settle(c)
       \/ Recover(c) \/ StageRecovered(c) \/ SettleForOther(c) \/ Cancel(c) \/ Restore(c)
       \/ Beat(c) \/ Stall(c) \/ Expire(c)

GuardedSpec == GuardedInit /\ [][GuardedNext]_guardedVars

-----------------------------------------------------------------------------

Performers(c, d) == performed[c] # "none" /\ performed[d] # "none" /\ c # d

(* docs/reference/operator-mcp.md:88: a result that is in progress or uncertain "is never
   repeated".  One idempotency key acts once, whatever crashes, stalls or is retried. *)
OncePerKey == \A c, d \in Call : Performers(c, d) => calls[c].key # calls[d].key

(* docs/reference/operator-mcp.md:29: confirmations are single-use. *)
OncePerConfirmation ==
  \A c, d \in Call : Performers(c, d) => calls[c].confirmation # calls[d].confirmation

(* What an answer, the journal or an operation says was done was done, by the call it is said
   of; what is called skipped was not.  (invokeMcpGuardedAction, reconcileOperation) *)
ReportsAreTrue ==
  /\ \A k \in Key : "succeeded" \in {journal[k].pending, journal[k].response}
                      => performed[journal[k].call] = "succeeded"
  /\ \A c \in Call :
       /\ operations[c].status = "succeeded" => performed[c] = "succeeded"
       /\ operations[c].status = "skipped" => performed[c] = "none"
       /\ Asked(c) /\ calls[c].result = "succeeded" => performed[c] = "succeeded"

(* Once an operation has its end, nothing gives it another: not the runner that stalled while
   another process read the end from the journal, not a cancellation, not a second recovery.
   (stageTerminal, finalizePendingTerminal, reconcileOperation) *)
KeepsItsEnd ==
  \A c \in Call : IsTerminal(operations[c].status) =>
    operations'[c].status \in {operations[c].status, "none"}

(* mcp-operations.ts:725: a completion after a cancellation was requested "must be retained
   rather than rewritten as cancelled".  It does not hold, and no run lists it: OutcomeOf. *)
CommittedResultIsRetained ==
  \A c \in Call : operations[c].status = "cancelled" => performed[c] # "succeeded"
================================================================================
