---------------------------- MODULE SecretRotation ----------------------------
(***************************************************************************)
(* The rotation of one secret (runtime/operator/secret-rotation-execution) *)
(* through its owner, the Secrets Broker and the services that use it.     *)
(* What a call has done is written to the operation's file after each      *)
(* step; a call with the operation's id goes on from there, and rolls back *)
(* what was activated when a consumer does not follow.  A call holds the   *)
(* lock of the secret (acquireRefLock), so one is under way at a time.     *)
(*                                                                         *)
(* An operation's name also stands for the version of the secret that it   *)
(* brings.  The broker and the owner are external: they do or do not do    *)
(* what they are asked, and an answer may be lost.                         *)
(***************************************************************************)
EXTENDS Naturals, FiniteSets

CONSTANTS
  Op,          \* rotation operations
  Restarted,   \* the consumers the plan restarts
  Reloaded,    \* the consumers that have a change action
  MaxMishaps   \* bounds the crashes and the steps that fail

(* No operation has the name of the first version, or of none. *)
ASSUME OperationAssumption == "v0" \notin Op /\ "none" \notin Op

VARIABLES
  ops,        \* the operations' files
  call,       \* the call under way and its copy of the file
  broker,     \* the version the broker has active
  owner,      \* the version the owner of the secret accepts
  ownerRuns,  \* the owner's actions that have succeeded, with their operation
  consumers,  \* per consumer: whether it is up and the version it uses
  last,       \* history: the operation that settled last
  mishaps     \* the bound already used

rotationVars == <<ops, call, broker, owner, ownerRuns, consumers, last, mishaps>>

Consumer == Restarted \cup Reloaded
Terminal == {"committed", "rolled_back", "blocked"}

NoOp == [phase |-> "none", previous |-> "none", initial |-> {}, stopped |-> {}, done |-> {},
         undone |-> {}, ownerDone |-> FALSE, ownerUndone |-> FALSE]
NoCall == [at |-> "idle", op |-> "none", then |-> "idle", mem |-> NoOp, was |-> "none"]

RotationInit ==
  /\ ops = [o \in Op |-> NoOp]
  /\ call = NoCall
  /\ broker = "v0" /\ owner = "v0" /\ ownerRuns = {}
  /\ consumers \in [Consumer -> {[up |-> TRUE, version |-> "v0"], [up |-> FALSE, version |-> "v0"]}]
  /\ last = "none" /\ mishaps = [crashes |-> 0, faults |-> 0]

mem == call.mem
CallIsAt(place) == call.at = place
CallGoes(to) == call' = [call EXCEPT !.at = to]

Mishap == mishaps.crashes + mishaps.faults < MaxMishaps
Fault == Mishap /\ mishaps' = [mishaps EXCEPT !.faults = @ + 1]

outside == <<broker, owner, ownerRuns, consumers>>

(* A step that fails ends in the handler of the call, or in that of the rollback. *)
Undoing == call.was # "none"
Throws == CallGoes(IF Undoing THEN "blocked" ELSE "catch")

(* writeState of the call's copy with a change, and where the call goes then. *)
SavesOp(m, to) == call' = [call EXCEPT !.mem = m, !.at = "write", !.then = to]

WriteOp ==
  /\ CallIsAt("write")
  /\ \/ /\ ops' = [ops EXCEPT ![call.op] = mem]
        /\ last' = IF mem.phase \in Terminal THEN call.op ELSE last
        /\ IF call.then = "idle" THEN call' = NoCall ELSE CallGoes(call.then)
        /\ UNCHANGED mishaps
     \/ /\ Fault
        /\ IF call.then = "idle" /\ Undoing /\ mem.phase # "rolled_back" THEN call' = NoCall ELSE Throws
        /\ UNCHANGED <<ops, last>>
  /\ UNCHANGED outside

-----------------------------------------------------------------------------
(* executeSecretRotation *)

(* mutant: a rotation whose consumers were stopped is taken for an activated one. *)
PlaceOfStopped(phase) ==
  CASE phase = "planned" -> "preview"
    [] phase = "staged" -> "stop"
    [] phase \in {"consumers_stopped", "activated", "converging"} -> "converging"
    [] OTHER -> "idle"

PlaceOf(phase) ==
  CASE phase = "planned" -> "preview"
    [] phase = "staged" -> "stop"
    [] phase = "consumers_stopped" -> "activate"
    [] phase \in {"activated", "converging"} -> "converging"
    [] OTHER -> "idle"

(* assertNoOtherActiveOperation; a settled operation is returned as it is, and so is one whose
   rollback was interrupted. *)
Execute(o) ==
  /\ CallIsAt("idle")
  /\ \A other \in Op \ {o} : ops[other].phase \in Terminal \cup {"none"}
  /\ IF ops[o].phase = "none"
     THEN call' = [NoCall EXCEPT !.op = o, !.at = "write", !.then = "preview",
                     !.mem = [NoOp EXCEPT !.phase = "planned", !.initial = {c \in Consumer : consumers[c].up}]]
     ELSE /\ PlaceOf(ops[o].phase) # "idle"
          /\ call' = [NoCall EXCEPT !.op = o, !.at = PlaceOf(ops[o].phase), !.mem = ops[o]]
  /\ UNCHANGED <<ops, outside, last, mishaps>>

(* The dry run and the version that is active. *)
Preview ==
  /\ CallIsAt("preview")
  /\ \/ call' = [call EXCEPT !.mem.previous = broker, !.at = "owner"] /\ UNCHANGED mishaps
     \/ Fault /\ Throws
  /\ UNCHANGED <<ops, outside, last>>

(* An action whose run is recorded as succeeded for this operation is not run again. *)
OwnerActs(run, version) ==
  IF <<call.op, run>> \in ownerRuns THEN UNCHANGED <<owner, ownerRuns>>
  ELSE owner' = version /\ ownerRuns' = ownerRuns \cup {<<call.op, run>>}

RunOwnerAction ==
  /\ CallIsAt("owner")
  /\ \/ /\ ~mem.ownerDone
        /\ OwnerActs("owner", call.op)
        /\ SavesOp([mem EXCEPT !.ownerDone = TRUE], "stage")
        /\ UNCHANGED mishaps
     \/ mem.ownerDone /\ CallGoes("stage") /\ UNCHANGED <<owner, ownerRuns, mishaps>>
     \/ ~mem.ownerDone /\ Fault /\ Throws /\ UNCHANGED <<owner, ownerRuns>>
  /\ UNCHANGED <<ops, broker, consumers, last>>

StageVersion ==
  /\ CallIsAt("stage")
  /\ \/ SavesOp([mem EXCEPT !.phase = "staged"], "stop") /\ UNCHANGED mishaps
     \/ Fault /\ Throws
  /\ UNCHANGED <<ops, outside, last>>

(* stopImpactedConsumers *)
ToStop == ((mem.initial \cap Restarted) \ mem.stopped)

StopConsumer(c) ==
  /\ CallIsAt("stop") /\ c \in ToStop
  /\ \/ consumers' = [consumers EXCEPT ![c].up = FALSE] /\ UNCHANGED mishaps
        /\ SavesOp([mem EXCEPT !.stopped = @ \cup {c}], "stop")
     \/ Fault /\ Throws /\ UNCHANGED consumers
  /\ UNCHANGED <<ops, broker, owner, ownerRuns, last>>

ConsumersStopped ==
  /\ CallIsAt("stop") /\ ToStop = {}
  /\ SavesOp([mem EXCEPT !.phase = "consumers_stopped"], "activate")
  /\ UNCHANGED <<ops, outside, last, mishaps>>

(* The broker activates the staged version if the expected one is active.  Asked again, it says
   that it did, or refuses. *)
Activate ==
  /\ CallIsAt("activate")
  /\ \/ /\ broker = mem.previous
        /\ broker' = call.op
        /\ \/ SavesOp([mem EXCEPT !.phase = "activated"], "converging") /\ UNCHANGED mishaps
           \/ Fault /\ Throws
     \/ /\ broker = call.op /\ UNCHANGED <<broker, mishaps>>
        /\ SavesOp([mem EXCEPT !.phase = "activated"], "converging") \/ Throws
     \/ Fault /\ Throws /\ UNCHANGED broker
  /\ UNCHANGED <<ops, owner, ownerRuns, consumers, last>>

Converging ==
  /\ CallIsAt("converging")
  /\ SavesOp([mem EXCEPT !.phase = "converging"], "converge")
  /\ UNCHANGED <<ops, outside, last, mishaps>>

(* convergeConsumers, forward or in a rollback.  A consumer that was not running is left alone. *)
Completed == IF Undoing THEN mem.undone ELSE mem.done

Completes(c) ==
  IF Undoing THEN [mem EXCEPT !.undone = @ \cup {c}] ELSE [mem EXCEPT !.done = @ \cup {c}]

Converge(c) ==
  /\ CallIsAt("converge") /\ c \notin Completed
  /\ \/ /\ c \in mem.initial => c \in Restarted \/ consumers[c].up
        /\ consumers' = IF c \in mem.initial
                        THEN [consumers EXCEPT ![c] = [up |-> TRUE, version |-> broker]] ELSE consumers
        /\ SavesOp(Completes(c), "converge")
        /\ UNCHANGED mishaps
     \/ /\ c \in mem.initial
        /\ IF c \in Restarted \/ consumers[c].up THEN Fault ELSE UNCHANGED mishaps
        /\ consumers' \in {consumers, [consumers EXCEPT ![c].up = c \notin Restarted /\ @]}
        /\ Throws
  /\ UNCHANGED <<ops, broker, owner, ownerRuns, last>>

Converged ==
  /\ CallIsAt("converge") /\ Completed = Consumer
  /\ CASE ~Undoing -> SavesOp([mem EXCEPT !.phase = "committed"], "idle")
       [] call.was = "activated" -> SavesOp([mem EXCEPT !.phase = "rolled_back"], "idle")
       [] OTHER -> SavesOp([mem EXCEPT !.phase = "blocked"], "idle")
  /\ UNCHANGED <<ops, outside, last, mishaps>>

-----------------------------------------------------------------------------
(* A step has failed *)

Catches ==
  CASE mem.phase \in {"activated", "converging"} ->
         call' = [call EXCEPT !.was = "activated", !.mem.phase = "rolling_back",
                              !.at = "write", !.then = "brokerRollback"]
    [] mem.phase \notin {"activated", "converging"} /\ mem.ownerDone ->
         call' = [call EXCEPT !.was = "not_activated", !.at = "ownerRollback"]
    [] OTHER -> call' = [call EXCEPT !.was = "failed", !.at = "write", !.then = "idle"]

Catch ==
  /\ CallIsAt("catch")
  /\ Catches
  /\ UNCHANGED <<ops, outside, last, mishaps>>

(* rollBackActivatedRotation *)
BrokerRollback ==
  /\ CallIsAt("brokerRollback")
  /\ \/ broker' = mem.previous /\ ((CallGoes("ownerRollback") /\ UNCHANGED mishaps) \/ (Fault /\ Throws))
     \/ Fault /\ Throws /\ UNCHANGED broker
  /\ UNCHANGED <<ops, owner, ownerRuns, consumers, last>>

AfterOwner == IF call.was = "activated" \/ mem.stopped # {} THEN "converge" ELSE "blocked"

RunOwnerRollback ==
  /\ CallIsAt("ownerRollback")
  /\ \/ /\ mem.ownerDone /\ ~mem.ownerUndone
        /\ OwnerActs("rollback", mem.previous)
        /\ SavesOp([mem EXCEPT !.ownerUndone = TRUE], AfterOwner)
        /\ UNCHANGED mishaps
     \/ (mem.ownerDone => mem.ownerUndone) /\ CallGoes(AfterOwner) /\ UNCHANGED <<owner, ownerRuns, mishaps>>
     \/ mem.ownerDone /\ ~mem.ownerUndone /\ Fault /\ CallGoes("blocked") /\ UNCHANGED <<owner, ownerRuns>>
  /\ UNCHANGED <<ops, broker, consumers, last>>

Blocked ==
  /\ CallIsAt("blocked")
  /\ SavesOp([mem EXCEPT !.phase = "blocked"], "idle")
  /\ UNCHANGED <<ops, outside, last, mishaps>>

(* The runtime dies, with or without the services it started. *)
RotationDies ==
  /\ ~CallIsAt("idle")
  /\ Mishap /\ mishaps' = [mishaps EXCEPT !.crashes = @ + 1]
  /\ call' = NoCall
  /\ consumers' \in {consumers, [c \in Consumer |-> [consumers[c] EXCEPT !.up = FALSE]]}
  /\ UNCHANGED <<ops, broker, owner, ownerRuns, last>>

RotationNext ==
  \/ \E o \in Op : Execute(o)
  \/ \E c \in Consumer : StopConsumer(c) \/ Converge(c)
  \/ WriteOp \/ Preview \/ RunOwnerAction \/ StageVersion \/ ConsumersStopped \/ Activate \/ Converging \/ Converged
  \/ Catch \/ BrokerRollback \/ RunOwnerRollback \/ Blocked \/ RotationDies

RotationSpec == RotationInit /\ [][RotationNext]_rotationVars

-----------------------------------------------------------------------------
(* The broker, the owner and the consumers an operation found running use a version. *)
IsEverywhere(op, version) ==
  /\ broker = version /\ owner = version
  /\ \A c \in op.initial : /\ consumers[c].up => consumers[c].version = version
                           /\ mishaps.crashes = 0 => consumers[c].up

AnyOpen == \E o \in Op : ops[o].phase \notin Terminal \cup {"none"}

(* When the operation that settled last says that it was committed, the broker, the owner and
   every consumer that runs use its version; when it says rolled back, they all use the previous
   one, and the consumers that ran do so again unless the runtime died.  This is said of every
   rotation that met one failure, and of those that met two without the owner being rolled back:
   an undoing that is interrupted before the activation is later taken for a completed one.
   .governance/specs/SPEC-002-core-standalone-runtime.md:176.  (executeSecretRotation) *)
SettledIsEverywhere ==
  (/\ CallIsAt("idle") /\ ~AnyOpen /\ last # "none"
   /\ mishaps.crashes + mishaps.faults <= 1 \/ <<last, "rollback">> \notin ownerRuns) =>
    /\ ops[last].phase = "committed" => IsEverywhere(ops[last], last)
    /\ ops[last].phase = "rolled_back" => IsEverywhere(ops[last], ops[last].previous)

(* secret-rotation-execution.ts:268: an interrupted rotation "must be resumed before starting
   another".  One that is interrupted can be resumed.  It does not hold, and no run lists it: one
   whose rollback was interrupted is returned as it is, and refuses every other. *)
InterruptedCanResume ==
  \A o \in Op : CallIsAt("idle") /\ ops[o].phase \notin Terminal \cup {"none"} => PlaceOf(ops[o].phase) # "idle"
==============================================================================
