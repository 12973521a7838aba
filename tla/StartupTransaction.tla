------------------------- MODULE StartupTransaction -------------------------
(***************************************************************************)
(* The durable startup journal of src/src/runtime/startup/transaction.ts:  *)
(* its phases and statuses, and the four functions that write it, as       *)
(* operators on journal records.  Each of those functions ends in exactly  *)
(* one atomic document write, so a caller's action assigns                 *)
(* journal' = Op(journal, ...) in one step, under the guard CanOp: the     *)
(* function throws, and writes nothing, when the guard is false.           *)
(*                                                                         *)
(* Lists of unique strings (completedActions, pendingCompensations) are    *)
(* sets; time stamps, roots and identifiers that never decide a branch of  *)
(* the callers that are modelled are left out.                             *)
(***************************************************************************)
EXTENDS Naturals

CONSTANTS
  Action,         \* completed action names
  Compensation    \* pending compensation names

(* STARTUP_TRANSACTION_PHASES, each with its position in that list. *)
PhaseRank == [preflight_reconciliation   |-> 0,
              allocation_reserved        |-> 1,
              configuration_materialized |-> 2,
              process_spawned            |-> 3,
              ownership_persisted        |-> 4,
              owned_readiness_proven     |-> 5,
              generation_committed       |-> 6]

Phase       == DOMAIN PhaseRank
Status      == {"active", "committed", "rolled_back", "blocked"}
FailureCode == {"none", "startup_failure", "materialization_commit_cleanup_failed"}

(* status "none" stands for a workspace that has no journal file yet. *)
Journal == [status      : Status \cup {"none"},
            phase       : Phase,
            completed   : SUBSET Action,
            pending     : SUBSET Compensation,
            failureCode : FailureCode]

Interrupted(j) == j.status \in {"active", "blocked"}
Sealed(j)      == j.status \in {"committed", "rolled_back"}

(***************************************************************************)
(* What one update changes: StartupTransactionUpdate.  Removals are        *)
(* applied before additions.                                               *)
(***************************************************************************)
Update(done, add, remove) == [done |-> done, add |-> add, remove |-> remove]

ApplyUpdate(j, u) ==
  [j EXCEPT !.completed = @ \cup u.done,
            !.pending   = (@ \ u.remove) \cup u.add]

(* beginStartupTransaction: refused while an interrupted journal exists. *)
NewJournal ==
  [status |-> "active", phase |-> "preflight_reconciliation",
   completed |-> {}, pending |-> {}, failureCode |-> "none"]

NoJournal == [NewJournal EXCEPT !.status = "none"]

(* activateStartupTransactionRecovery(journal, action) *)
CanActivate(j) == Interrupted(j)
Activate(j, action) ==
  [j EXCEPT !.status      = "active",
            !.failureCode = IF action = "resume" THEN "none" ELSE @]

(* advanceStartupTransaction(journal, phase, update) *)
CanAdvance(j, p) == j.status = "active" /\ PhaseRank[p] >= PhaseRank[j.phase]
Advance(j, p, u) == ApplyUpdate([j EXCEPT !.phase = p], u)

(* settleStartupTransaction(journal, status, update): it does not look at  *)
(* the status it replaces.                                                 *)
CanSettleRollback(j, status, u) ==                          \* mutant
  status = "committed" => ApplyUpdate(j, u).pending = {}
CanSettle(j, status, u) ==
  status \in {"committed", "rolled_back"} => ApplyUpdate(j, u).pending = {}
Settle(j, status, u) == ApplyUpdate([j EXCEPT !.status = status], u)
SettleFailed(j, status, code) ==
  [Settle(j, status, Update({}, {}, {})) EXCEPT !.failureCode = code]
=============================================================================
