---------------------------- MODULE Confirmations ----------------------------
(***************************************************************************)
(* Confirmations of operator commands (runtime/operator/command-           *)
(* confirmations): a mutating command is issued, confirmed by the actor    *)
(* who asked for it, and executed.  The records are one file.  Every call  *)
(* reads it whole, works on what it read, and writes that back in place,   *)
(* without a lock; an execution holds its copy while the lifecycle action  *)
(* runs.                                                                   *)
(***************************************************************************)
EXTENDS Naturals, Sequences, SequencesExt

CONSTANTS
  Record,    \* confirmation records
  Asker,     \* concurrent calls
  Command,   \* the commands of the records: "start", "stop", "restart"
  Keep,      \* how many records the file keeps (200 in the code)
  MaxDrifts  \* bounds changes of the service that no confirmation made, and crashes

ASSUME CommandAssumption == "none" \notin Command

VARIABLES
  store,       \* the records in the file: newest first, with their status
  storeTorn,   \* whether the file is being written, or was when its writer died
  issued,      \* per record, the command and the service state its fingerprint names
  lapsed,      \* the records past their time
  running,     \* whether the service runs
  requests,    \* per call: where it is, its record, the copy it works on
  confirmed,   \* history: the records an actor confirmed
  executions,  \* history: per record, the service states its executions met, and if there were several
  drifts       \* the bound already used

confirmationVars ==
  <<store, storeTorn, issued, lapsed, running, requests, confirmed, executions, drifts>>

Empty == [order |-> <<>>, status |-> [r \in Record |-> "absent"]]
NoRequest == [at |-> "idle", kind |-> "none", record |-> "none", copy |-> Empty]
NotRun == [met |-> {}, again |-> FALSE]
Unissued == [command |-> "none", running |-> FALSE]

ConfirmationInit ==
  /\ store = Empty /\ storeTorn = FALSE /\ issued = [r \in Record |-> Unissued] /\ lapsed = {}
  /\ running \in BOOLEAN /\ requests = [c \in Asker |-> NoRequest]
  /\ confirmed = {} /\ executions = [r \in Record |-> NotRun] /\ drifts = 0

RequestAt(c, place) == requests[c].at = place
Rec(c) == requests[c].record
RequestEnds(c) == requests' = [requests EXCEPT ![c] = NoRequest]
Disturbed == drifts < MaxDrifts /\ drifts' = drifts + 1

-----------------------------------------------------------------------------
(* issue: the plan and the service's capabilities are fingerprinted before the file is read. *)
AskIssue(c, r, command) ==
  /\ RequestAt(c, "idle") /\ issued[r] = Unissued
  /\ issued' = [issued EXCEPT ![r] = [command |-> command, running |-> running]]
  /\ requests' = [requests EXCEPT ![c] = [NoRequest EXCEPT !.at = "read", !.kind = "issue", !.record = r]]
  /\ UNCHANGED <<store, storeTorn, lapsed, running, confirmed, executions, drifts>>

Ask(c, r, kind) ==
  /\ RequestAt(c, "idle") /\ issued[r] # Unissued
  /\ requests' = [requests EXCEPT ![c] = [NoRequest EXCEPT !.at = "read", !.kind = kind, !.record = r]]
  /\ UNCHANGED <<store, storeTorn, issued, lapsed, running, confirmed, executions, drifts>>

(* A file that does not parse fails the call. *)
Unreadable(c) ==
  /\ RequestAt(c, "read") /\ storeTorn /\ RequestEnds(c)
  /\ UNCHANGED <<store, storeTorn, issued, lapsed, running, confirmed, executions, drifts>>

Writes(c, copy) == requests' = [requests EXCEPT ![c].at = "write", ![c].copy = copy]
StatusOf(r) == store.status[r]
Marked(copy, r, status) == [copy EXCEPT !.status[r] = status]

(* The 200 newest records are kept. *)
Newest(r) ==
  LET order == <<r>> \o SelectSeq(store.order, LAMBDA o : o # r)
  IN SubSeq(order, 1, IF Len(order) < Keep THEN Len(order) ELSE Keep)

WithNew(r) ==
  [order |-> Newest(r),
   status |-> [o \in Record |-> IF o = r THEN "pending"
                               ELSE IF o \in ToSet(Newest(r)) THEN StatusOf(o) ELSE "absent"]]

ReadIssue(c) ==
  /\ RequestAt(c, "read") /\ ~storeTorn /\ requests[c].kind = "issue" /\ Writes(c, WithNew(Rec(c)))
  /\ UNCHANGED <<store, storeTorn, issued, lapsed, running, confirmed, executions, drifts>>

(* mutant: the service is compared only when the confirmation is given. *)
DriftedAtConfirm(c) == requests[c].kind = "confirm" /\ running # issued[Rec(c)].running

(* fingerprintCapabilities *)
Drifted(c) == running # issued[Rec(c)].running

(* deny: another actor, phrase or plan, or a service that has changed since. *)
Refusal(c, same) ==
  IF Rec(c) \in lapsed THEN "expired"
  ELSE IF ~same \/ Drifted(c) THEN "denied" ELSE "none"

ReadConfirm(c, same) ==
  /\ RequestAt(c, "read") /\ ~storeTorn /\ requests[c].kind = "confirm"
  /\ IF StatusOf(Rec(c)) # "pending" THEN RequestEnds(c) /\ UNCHANGED confirmed
     ELSE IF Refusal(c, same) # "none"
     THEN Writes(c, Marked(store, Rec(c), Refusal(c, same))) /\ UNCHANGED confirmed
     ELSE Writes(c, Marked(store, Rec(c), "confirmed")) /\ confirmed' = confirmed \cup {Rec(c)}
  /\ UNCHANGED <<store, storeTorn, issued, lapsed, running, executions, drifts>>

(* The lifecycle action starts in the same turn as the checks. *)
ReadExecute(c, same) ==
  /\ RequestAt(c, "read") /\ ~storeTorn /\ requests[c].kind = "execute"
  /\ IF StatusOf(Rec(c)) # "confirmed" THEN RequestEnds(c) /\ UNCHANGED executions
     ELSE IF Refusal(c, same) # "none"
     THEN Writes(c, Marked(store, Rec(c), Refusal(c, same))) /\ UNCHANGED executions
     ELSE /\ requests' = [requests EXCEPT ![c].at = "executor", ![c].copy = store]
          /\ executions' = [executions EXCEPT ![Rec(c)] = [met |-> @.met \cup {running}, again |-> @ # NotRun]]
  /\ UNCHANGED <<store, storeTorn, issued, lapsed, running, confirmed, drifts>>

(* The action ends, or fails and leaves the service as it was: the record is executed either way. *)
Executor(c) ==
  /\ RequestAt(c, "executor") /\ Writes(c, Marked(requests[c].copy, Rec(c), "executed"))
  /\ running' \in {running, issued[Rec(c)].command # "stop"}
  /\ UNCHANGED <<store, storeTorn, issued, lapsed, confirmed, executions, drifts>>

(* writeConfirmationStore writes the copy in place; the last writer wins. *)
WriteBegins(c) ==
  /\ RequestAt(c, "write") /\ storeTorn' = TRUE /\ requests' = [requests EXCEPT ![c].at = "writing"]
  /\ UNCHANGED <<store, issued, lapsed, running, confirmed, executions, drifts>>

WriteEnds(c) ==
  /\ RequestAt(c, "writing")
  /\ store' = requests[c].copy
  /\ storeTorn' = (\E o \in Asker \ {c} : RequestAt(o, "writing")) /\ RequestEnds(c)
  /\ UNCHANGED <<issued, lapsed, running, confirmed, executions, drifts>>

-----------------------------------------------------------------------------
Lapse(r) ==
  /\ issued[r] # Unissued /\ r \notin lapsed /\ lapsed' = lapsed \cup {r}
  /\ UNCHANGED <<store, storeTorn, issued, running, requests, confirmed, executions, drifts>>

Drift ==
  /\ Disturbed /\ running' = ~running
  /\ UNCHANGED <<store, storeTorn, issued, lapsed, requests, confirmed, executions>>

(* The runtime dies; a file it was writing stays torn. *)
RuntimeEnds ==
  /\ Disturbed /\ requests' = [c \in Asker |-> NoRequest]
  /\ UNCHANGED <<store, storeTorn, issued, lapsed, running, confirmed, executions>>

ConfirmationNext ==
  \/ \E c \in Asker, r \in Record :
       \/ \E command \in Command : AskIssue(c, r, command)
       \/ \E kind \in {"confirm", "execute"} : Ask(c, r, kind)
  \/ \E c \in Asker, same \in BOOLEAN : ReadConfirm(c, same) \/ ReadExecute(c, same)
  \/ \E c \in Asker : Unreadable(c) \/ ReadIssue(c) \/ Executor(c) \/ WriteBegins(c) \/ WriteEnds(c)
  \/ \E r \in Record : Lapse(r)
  \/ Drift \/ RuntimeEnds

ConfirmationSpec == ConfirmationInit /\ [][ConfirmationNext]_confirmationVars

-----------------------------------------------------------------------------
(* Whatever older copies are written back over newer ones, nothing runs that its actor did not
   confirm, nor in another state of the service than the one it was issued for.
   (executeOperatorCommandConfirmation) *)
RunsOnlyAsConfirmed ==
  \A r \in Record : \A state \in executions[r].met : r \in confirmed /\ state = issued[r].running

(* docs/reference/operator-command-facade.md:131: execution requires an unused record, and reuse
   fails closed.  It does not hold, and no run lists it: two calls that read the same file both
   find the record unused. *)
ExecutedOnce == \A r \in Record : ~executions[r].again
==============================================================================
