---------------------------- MODULE StagedTransfer ----------------------------
(***************************************************************************)
(* Staged service transfers (runtime/release/staged-service-transfer): an  *)
(* archive is uploaded into a stage, confirmed, and registered as the      *)
(* child of the services directory that its release names.  Stages and     *)
(* operations are one document; each locked section reads it, applies the  *)
(* deadlines that passed, works on it and replaces it.  The child is       *)
(* published outside the lock, so a call may die, or race another call of  *)
(* the same stage, between the claim and the recorded outcome.             *)
(* All the stages here are for the same service.                           *)
(***************************************************************************)
EXTENDS Naturals, FiniteSets

CONSTANTS
  Stage,       \* stages
  Key,         \* idempotency keys of one actor
  Call,        \* concurrent calls
  Quota,       \* how many stages may be active at once (8 in the code)
  None,        \* no stage, no outcome
  MaxTroubles  \* bounds calls that die, failed resolutions and writes, and damaged children

(* "other" is a child that no stage published. *)
ASSUME StagedAssumption == {None, "other"} \cap Stage = {} /\ None # "other"

VARIABLES
  stages,      \* the stage section of the document
  operations,  \* its operations: per key, the stage and the status
  outbox,      \* per stage, the outcome still to be audited
  audit,       \* per stage, the outcome in the audit log
  child,       \* the stage whose files are the service's directory
  calls,       \* what every call is doing
  imports,     \* history: how often each stage was handed to the importer
  published,   \* history: the stages whose files became the service's directory
  troubles     \* the bound already used

stagedVars == <<stages, operations, outbox, audit, child, calls, imports, published, troubles>>

NoStage == [state |-> "absent", due |-> FALSE, received |-> FALSE, object |-> FALSE, confirmation |-> FALSE,
            journal |-> None, phase |-> "none", key |-> None, operation |-> "none"]
NoOperation == [stage |-> None, status |-> "none"]
Idle == [at |-> "idle", stage |-> None, key |-> None, outcome |-> "none"]

StagedInit ==
  /\ stages = [s \in Stage |-> NoStage] /\ operations = [k \in Key |-> NoOperation]
  /\ outbox = [s \in Stage |-> "none"] /\ audit = [s \in Stage |-> "none"]
  /\ child = None /\ calls = [c \in Call |-> Idle]
  /\ imports = [s \in Stage |-> 0] /\ published = {} /\ troubles = 0

-----------------------------------------------------------------------------
(* assertCoherentStagedTransferStore: a stage that names an operation or a journal still holds the
   bytes both are about. *)
Coherent ==
  \A s \in Stage :
    /\ stages[s].operation # "none" => stages[s].object /\ operations[stages[s].key].stage = s
    /\ stages[s].operation = "none" /\ stages[s].phase # "none" =>
         stages[s].phase = "prepared" /\ stages[s].object
    /\ outbox[s] # "none" => stages[s].operation # "none"

(* recover: the deadlines that passed, and the removal of what was kept long enough. *)
Recovered(s) ==
  LET stage == stages[s] IN
  IF ~stage.due THEN stage
  ELSE CASE stage.state \in {"uploading", "ready"} ->
              [stage EXCEPT !.state = "expired", !.due = FALSE, !.confirmation = FALSE]
         [] stage.state \in {"rejected", "expired", "quarantined"} ->
              [stage EXCEPT !.state = "cleaned", !.due = FALSE, !.received = FALSE, !.object = FALSE]
         [] OTHER -> [stage EXCEPT !.due = FALSE]

Opened == [s \in Stage |-> Recovered(s)]

At(c, place) == calls[c].at = place
Goes(c, to) == calls' = [calls EXCEPT ![c].at = to]
Returns(c) == calls' = [calls EXCEPT ![c] = Idle]
Calm == UNCHANGED <<imports, published, troubles>>
Trouble == troubles < MaxTroubles /\ troubles' = troubles + 1

(* locked: the document is read, judged, brought up to date, and written back even if the work is
   refused; a document that is not coherent fails the call. *)
Locked == Coherent
Kept == stages' = Opened
KeptOnly == Kept /\ UNCHANGED <<operations, outbox>>

Unavailable(c) ==
  /\ calls[c].at \notin {"idle", "resolve", "import", "reconcile", "recheck", "append"} /\ ~Coherent
  /\ Returns(c)
  /\ Calm /\ UNCHANGED <<stages, operations, outbox, audit, child>>

(* The deadline of a stage, or of what is kept of it, passes. *)
TimePasses(s) ==
  /\ stages[s].state \in {"uploading", "ready", "rejected", "expired", "quarantined"} /\ ~stages[s].due
  /\ stages' = [stages EXCEPT ![s].due = TRUE]
  /\ Calm /\ UNCHANGED <<operations, outbox, audit, child, calls>>

-----------------------------------------------------------------------------
(* create, upload, finalize and confirmation, each one locked section. *)
Active(s) == Opened[s].state \notin {"absent", "consumed", "cleaned"}

Create(s) ==
  /\ Locked /\ Opened[s].state = "absent" /\ Cardinality({o \in Stage : Active(o)}) < Quota
  /\ stages' = [Opened EXCEPT ![s].state = "uploading"]
  /\ Calm /\ UNCHANGED <<operations, outbox, audit, child, calls>>

Upload(s) ==
  /\ Locked /\ Opened[s].state = "uploading" /\ ~Opened[s].received
  /\ stages' = [Opened EXCEPT ![s].received = TRUE]
  /\ Calm /\ UNCHANGED <<operations, outbox, audit, child, calls>>

Finalize(s) ==
  /\ Locked /\ Opened[s].state = "uploading" /\ Opened[s].received
  /\ \/ stages' = [Opened EXCEPT ![s].state = "ready", ![s].object = TRUE]
     \/ stages' = [Opened EXCEPT ![s].state = "rejected"]
  /\ Calm /\ UNCHANGED <<operations, outbox, audit, child, calls>>

Confirmation(s) ==
  /\ Locked /\ Opened[s].state = "ready" /\ ~Opened[s].confirmation
  /\ stages' = [Opened EXCEPT ![s].confirmation = TRUE]
  /\ Calm /\ UNCHANGED <<operations, outbox, audit, child, calls>>

-----------------------------------------------------------------------------
(* register: replay first. *)
Begin(c, s, k) ==
  /\ At(c, "idle") /\ stages[s].state # "absent"
  /\ calls' = [calls EXCEPT ![c] = [Idle EXCEPT !.at = "lookup", !.stage = s, !.key = k]]
  /\ Calm /\ UNCHANGED <<stages, operations, outbox, audit, child>>

Mine(c) == Opened[calls[c].stage]

(* replay: an operation of this stage under another key refuses the call. *)
Conflicts(c) == Mine(c).operation # "none" /\ Mine(c).key # calls[c].key
Replayed(c) == Mine(c).operation # "none" /\ Mine(c).key = calls[c].key

Lookup(c) ==
  /\ At(c, "lookup") /\ Locked /\ KeptOnly
  /\ CASE Conflicts(c) -> Returns(c)
       [] Replayed(c) /\ Mine(c).operation = "unknown" -> Goes(c, "unknown")
       [] Replayed(c) /\ Mine(c).operation = "completed" -> Goes(c, "completed")
       [] Replayed(c) /\ Mine(c).operation = "conflict" -> Returns(c)
       [] OTHER -> Goes(c, "resolve")
  /\ Calm /\ UNCHANGED <<audit, child>>

(* The retained binding is resolved again; a release that cannot be resolved refuses the call. *)
Resolve(c) ==
  /\ At(c, "resolve")
  /\ \/ Goes(c, "prepare") /\ UNCHANGED troubles
     \/ Trouble /\ Returns(c)
  /\ UNCHANGED <<stages, operations, outbox, audit, child, imports, published>>

(* A journal that an earlier call prepared under its own key stays. *)
Prepare(c) ==
  /\ At(c, "prepare") /\ Locked /\ UNCHANGED <<operations, outbox>>
  /\ IF Mine(c).operation = "none" /\ Mine(c).state = "ready"
     THEN /\ stages' = IF Mine(c).phase # "none" THEN Opened
                       ELSE [Opened EXCEPT ![calls[c].stage].phase = "prepared",
                                           ![calls[c].stage].journal = calls[c].key]
          /\ Goes(c, "claim")
     ELSE Kept /\ Returns(c)
  /\ Calm /\ UNCHANGED <<audit, child>>

(* mutant: the claim looks only at the confirmation its caller saw. *)
ClaimableOnce(c) == Mine(c).object /\ Mine(c).phase # "none"

Claimable(c) ==
  /\ Mine(c).operation = "none"
  /\ Mine(c).phase = "prepared" /\ Mine(c).state = "ready" /\ Mine(c).confirmation /\ Mine(c).object

(* claimStagedRegistrationInStore adds the operation of this key unless another stage has it. *)
Taken(c) == operations[calls[c].key].stage \notin {None, calls[c].stage}

(* The claim consumes the confirmation.  An operation that is not the one the journal names is
   refused after it was added, and the section is written all the same. *)
Claim(c) ==
  /\ At(c, "claim") /\ Locked /\ UNCHANGED outbox
  /\ IF Claimable(c) /\ ~Taken(c)
     THEN /\ operations' = [operations EXCEPT ![calls[c].key] =
               [stage |-> calls[c].stage, status |-> IF @.stage = None THEN "unknown" ELSE @.status]]
          /\ IF Mine(c).journal = calls[c].key
             THEN /\ stages' = [Opened EXCEPT ![calls[c].stage] =
                       [@ EXCEPT !.state = "claimed", !.confirmation = FALSE, !.phase = "claimed",
                                 !.operation = "unknown", !.key = calls[c].key]]
                  /\ Goes(c, "handle")
             ELSE Kept /\ Returns(c)
     ELSE Kept /\ Returns(c) /\ UNCHANGED operations
  /\ Calm /\ UNCHANGED <<audit, child>>

-----------------------------------------------------------------------------
(* importClaimed: the handle to the claimed bytes is taken under the lock, the child is built
   beside the live one and renamed into place outside it. *)
Handle(c) ==
  /\ At(c, "handle") /\ Locked /\ KeptOnly
  /\ IF Mine(c).phase = "claimed" /\ Mine(c).state = "claimed" /\ Mine(c).object
     THEN /\ Goes(c, "import")
          /\ imports' = [imports EXCEPT ![calls[c].stage] = @ + 1]
     ELSE calls' = [calls EXCEPT ![c].at = "record", ![c].outcome = "unknown"] /\ UNCHANGED imports
  /\ UNCHANGED <<audit, child, published, troubles>>

Outcome(c, to, outcome) == calls' = [calls EXCEPT ![c].at = to, ![c].outcome = outcome]

(* A directory that is there is never replaced; one that cannot be synchronised is not reported. *)
Import(c) ==
  /\ At(c, "import")
  /\ \/ /\ child = None /\ child' = calls[c].stage /\ published' = published \cup {calls[c].stage}
        /\ \/ Outcome(c, "record", "completed") /\ UNCHANGED troubles
           \/ Trouble /\ Outcome(c, "record", "unknown")
     \/ /\ child # None /\ \E outcome \in {"conflict", "unknown"} : Outcome(c, "record", outcome)
        /\ UNCHANGED <<child, published, troubles>>
     \/ Trouble /\ Outcome(c, "record", "unknown") /\ UNCHANGED <<child, published>>
  /\ UNCHANGED <<stages, operations, outbox, audit, imports>>

StateFor(outcome) == CASE outcome = "completed" -> "consumed"
                       [] outcome = "conflict" -> "quarantined"
                       [] OTHER -> "unknown"

(* recordOutcome: nothing once the journal is sealed; an outcome that waits for its audit stays. *)
Recorded(c) ==
  LET s == calls[c].stage
      outcome == calls[c].outcome
  IN IF Mine(c).operation # "none" /\ Mine(c).phase = "claimed"
     THEN /\ stages' = [Opened EXCEPT ![s].operation = outcome, ![s].state = StateFor(outcome),
                          ![s].phase = IF outcome = "unknown" THEN "claimed" ELSE "sealed"]
          /\ operations' = [operations EXCEPT ![Mine(c).key].status = outcome]
          /\ outbox' = [outbox EXCEPT ![s] = IF @ = "none" THEN outcome ELSE @]
     ELSE KeptOnly

RecordOutcome(c) ==
  /\ At(c, "record") /\ Locked /\ Recorded(c) /\ Goes(c, "flush")
  /\ Calm /\ UNCHANGED <<audit, child>>

-----------------------------------------------------------------------------
(* A replay reconciles: what the child directory holds decides. *)
Found(s) == CASE child = s -> "completed"
              [] child = None -> "unknown"
              [] OTHER -> "conflict"

Reconcilable(c) ==
  /\ Mine(c).object /\ Mine(c).state \in {"claimed", "unknown"} /\ Mine(c).operation = "unknown"
  /\ Mine(c).phase = "claimed"

ReconcilableDone(c) ==
  Mine(c).object /\ Mine(c).state \in {"claimed", "unknown", "consumed"}
    /\ Mine(c).operation \in {"unknown", "completed"} /\ Mine(c).phase \in {"claimed", "sealed"}

ReconcileInput(c) ==
  /\ Locked /\ KeptOnly
  /\ \/ /\ At(c, "unknown")
        /\ IF Reconcilable(c) THEN Goes(c, "reconcile") ELSE Returns(c)
     \/ /\ At(c, "completed")
        /\ Goes(c, IF ReconcilableDone(c) THEN "recheck" ELSE "doubt")
  /\ Calm /\ UNCHANGED <<audit, child>>

(* An attachment that cannot be read leaves the operation as it is. *)
Reconcile(c) ==
  /\ At(c, "reconcile")
  /\ \/ /\ UNCHANGED troubles
        /\ IF Found(calls[c].stage) = "unknown" THEN Returns(c)
           ELSE Outcome(c, "settle", Found(calls[c].stage))
     \/ Trouble /\ Returns(c)
  /\ UNCHANGED <<stages, operations, outbox, audit, child, imports, published>>

Settle(c) ==
  /\ At(c, "settle") /\ Locked /\ Recorded(c) /\ Returns(c)
  /\ Calm /\ UNCHANGED <<audit, child>>

Recheck(c) ==
  /\ At(c, "recheck")
  /\ \/ UNCHANGED troubles /\ IF Found(calls[c].stage) = "completed" THEN Returns(c) ELSE Goes(c, "doubt")
     \/ Trouble /\ Goes(c, "doubt")
  /\ UNCHANGED <<stages, operations, outbox, audit, child, imports, published>>

(* markCompletedUnknown *)
Doubt(c) ==
  /\ At(c, "doubt") /\ Locked /\ UNCHANGED outbox /\ Returns(c)
  /\ IF Mine(c).operation = "completed"
     THEN /\ stages' = [Opened EXCEPT ![calls[c].stage] =
               [@ EXCEPT !.operation = "unknown", !.state = "unknown", !.phase = "claimed"]]
          /\ operations' = [operations EXCEPT ![Mine(c).key].status = "unknown"]
     ELSE Kept /\ UNCHANGED operations
  /\ Calm /\ UNCHANGED <<audit, child>>

-----------------------------------------------------------------------------
(* flushAuditOutbox, at the end of a registration and at every status call. *)
Status(c) ==
  /\ At(c, "idle") /\ Goes(c, "flush")
  /\ Calm /\ UNCHANGED <<stages, operations, outbox, audit, child>>

Flush(c) ==
  /\ At(c, "flush") /\ Locked /\ KeptOnly
  /\ \/ /\ \A s \in Stage : outbox[s] = "none"
        /\ Returns(c)
     \/ \E s \in Stage :
          /\ outbox[s] # "none"
          /\ calls' = [calls EXCEPT ![c] = [Idle EXCEPT !.at = "append", !.stage = s, !.outcome = outbox[s]]]
  /\ Calm /\ UNCHANGED <<audit, child>>

(* An event of the same operation that is in the log is not appended again. *)
AppendEvent(c) ==
  /\ At(c, "append")
  /\ \/ /\ audit' = [audit EXCEPT ![calls[c].stage] = IF @ = "none" THEN calls[c].outcome ELSE @]
        /\ Goes(c, "sent") /\ UNCHANGED troubles
     \/ Trouble /\ Returns(c) /\ UNCHANGED audit
  /\ UNCHANGED <<stages, operations, outbox, child, imports, published>>

Sent(c) ==
  /\ At(c, "sent") /\ Locked
  /\ Kept /\ UNCHANGED operations /\ outbox' = [outbox EXCEPT ![calls[c].stage] = "none"]
  /\ Returns(c)
  /\ Calm /\ UNCHANGED <<audit, child>>

-----------------------------------------------------------------------------
(* The process of a call dies outside a locked section, whose write is one rename. *)
Crash(c) ==
  /\ ~At(c, "idle") /\ Trouble /\ Returns(c)
  /\ UNCHANGED <<stages, operations, outbox, audit, child, imports, published>>

(* The published child is replaced or truncated. *)
Damage ==
  /\ child \in Stage /\ Trouble /\ child' = "other"
  /\ UNCHANGED <<stages, operations, outbox, audit, calls, imports, published>>

StagedNext ==
  \/ \E s \in Stage : TimePasses(s) \/ Create(s) \/ Upload(s) \/ Finalize(s) \/ Confirmation(s)
  \/ \E c \in Call, s \in Stage, k \in Key : Begin(c, s, k)
  \/ \E c \in Call :
       \/ Lookup(c) \/ Resolve(c) \/ Prepare(c) \/ Claim(c) \/ Handle(c) \/ Import(c) \/ RecordOutcome(c)
       \/ ReconcileInput(c) \/ Reconcile(c) \/ Settle(c) \/ Recheck(c) \/ Doubt(c)
       \/ Status(c) \/ Flush(c) \/ AppendEvent(c) \/ Sent(c) \/ Unavailable(c) \/ Crash(c)
  \/ Damage

StagedSpec == StagedInit /\ [][StagedNext]_stagedVars

-----------------------------------------------------------------------------
(* However calls race, are repeated or die, the bytes of a stage are handed to the importer at most
   once, and only under the one operation that claimed it; a registration reported complete was
   published, and one reported as a conflict was not.  (register, importClaimed, reconcileUnknown) *)
ImportedOnce ==
  \A s \in Stage :
    /\ imports[s] <= 1
    /\ stages[s].operation = "completed" => s \in published
    /\ stages[s].operation = "conflict" /\ s \in published => child # s
    /\ imports[s] = 1 => stages[s].operation # "none"
    /\ s \in published => imports[s] = 1

(* docs/api/staged-service-transfer.md:65: cleanup deletes the bytes after their retention and keeps
   the metadata readable.  It does not hold, and no run lists it: clean forgets the bytes of a
   quarantined stage that still names its operation, and the store is not read again. *)
StoreStaysReadable == Coherent

(* docs/api/staged-service-transfer.md:225: a terminal operation seals the stage and emits its
   audit.  It does not hold, and no run lists it: an outcome reconciled after the event of its
   operation was written adds none. *)
AuditTellsOutcome ==
  \A s \in Stage : stages[s].phase = "sealed" /\ outbox[s] = "none" => audit[s] = stages[s].operation
==============================================================================
