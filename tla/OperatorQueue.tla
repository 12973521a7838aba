----------------------------- MODULE OperatorQueue -----------------------------
(***************************************************************************)
(* The queue of conditions that wait for an operator                       *)
(* (runtime/operator/action-queue.ts).  The runtime records what it        *)
(* observes; the runtime, for the API, and the command line acknowledge,   *)
(* defer and reopen it.  Every call reads the file, changes one item and   *)
(* writes the file in place.  Calls of one process take turns; nothing     *)
(* keeps the runtime and the command line apart, and a file that cannot be *)
(* read counts as an empty queue.                                          *)
(*                                                                         *)
(* A condition stands for its dedupe key and for the identifier made of    *)
(* it; the history of acknowledgements, texts and evidence are left out.   *)
(***************************************************************************)
EXTENDS Naturals, Sequences, SequencesExt

CONSTANTS
  Condition,  \* what can be observed
  Process,    \* "runtime" and "cli"
  Limit,      \* OPERATOR_ACTION_QUEUE_LIMIT, 500 in the code
  MaxTime,    \* bounds the calls, and the times they are dated with
  MaxKills    \* bounds how often a process dies

ASSUME QueueAssumption == Limit \in Nat \ {0}

VARIABLES
  queue,    \* operator-actions.json: the items, newest first, and whether it can be read
  work,     \* per process: the call under way, with what it will write
  clock,    \* the time of the latest call
  owed,     \* history: the date of each condition observed and not acknowledged since, or 0
  kills     \* how much of the bound is used

queueVars == <<queue, work, clock, owed, kills>>

NoWork == [at |-> "idle", items |-> <<>>, owed |-> [c \in Condition |-> 0], overlapped |-> FALSE]

QueueInit ==
  /\ queue = [items |-> <<>>, torn |-> FALSE]
  /\ work = [p \in Process |-> NoWork]
  /\ clock = 0
  /\ owed = [c \in Condition |-> 0]
  /\ kills = 0

(* readOperatorActionQueue *)
Items == IF queue.torn THEN <<>> ELSE queue.items

Queued(c) == \E i \in DOMAIN Items : Items[i].id = c
Item(c) == Items[CHOOSE i \in DOMAIN Items : Items[i].id = c]

Cut(items) == SubSeq(items, 1, IF Len(items) > Limit THEN Limit ELSE Len(items))

(* The queue without the item of a condition. *)
Without(c) ==
  IF Queued(c) THEN RemoveAt(Items, CHOOSE i \in DOMAIN Items : Items[i].id = c) ELSE Items

(* The queue is sorted, the newest first: how many items are newer than a date. *)
Newer(items, date) ==
  CHOOSE k \in 0..Len(items) : \A i \in DOMAIN items : i <= k <=> items[i].at > date

(* What writeOperatorActionQueueWithoutQueue makes of the queue and one changed item: the item
   before those that are dated no later. *)
With(item) == LET others == Without(item.id) IN Cut(InsertAt(others, Newer(others, item.at) + 1, item))

(* mutant: what was acknowledged stays so when it is observed again. *)
StatusKept(c) == IF Queued(c) THEN Item(c).status ELSE "open"

(* The status of a condition that is observed (again). *)
StatusObserved(c) == IF Queued(c) /\ Item(c).status = "deferred" THEN "deferred" ELSE "open"

(* A call takes its turn in its process, and finds the other process at work or not. *)
BeginsWork(p, item, date) ==
  LET others == {q \in Process \ {p} : work[q].at # "idle"} IN
    work' = [q \in Process |->
      IF q = p THEN [at |-> "read", items |-> With(item), owed |-> [owed EXCEPT ![item.id] = date],
                     overlapped |-> others # {}]
      ELSE [work[q] EXCEPT !.overlapped = @ \/ q \in others]]

Turn(p) == work[p].at = "idle" /\ clock < MaxTime /\ clock' = clock + 1

(* upsertOperatorActionItem: an observation may be dated by its event, a while ago. *)
Observe(p, c) ==
  /\ p = "runtime" /\ Turn(p)
  /\ \E date \in {clock, clock + 1} \ {0} :
       BeginsWork(p, [id |-> c, status |-> StatusObserved(c), at |-> date], date)
  /\ UNCHANGED <<queue, owed, kills>>

(* mutateOperatorActionItem; an item the queue does not have is refused. *)
Mutate(p, c, status) ==
  /\ Queued(c) /\ Turn(p)
  /\ BeginsWork(p, [id |-> c, status |-> status, at |-> clock + 1],
                IF status = "acknowledged" THEN 0 ELSE clock + 1)
  /\ UNCHANGED <<queue, owed, kills>>

(* writeFile empties the file before it fills it. *)
EmptyQueue(p) ==
  /\ work[p].at = "read"
  /\ work' = [work EXCEPT ![p].at = "writing"]
  /\ queue' = [queue EXCEPT !.torn = TRUE]
  /\ UNCHANGED <<clock, owed, kills>>

(* A call that ran while the other process was at work promises nothing. *)
Nothing == [c \in Condition |-> 0]

FillQueue(p) ==
  /\ work[p].at = "writing"
  /\ queue' = [items |-> work[p].items, torn |-> FALSE]
  /\ owed' = IF work[p].overlapped THEN Nothing ELSE work[p].owed
  /\ work' = [work EXCEPT ![p] = NoWork]
  /\ UNCHANGED <<clock, kills>>

Killed(p) ==
  /\ work[p].at # "idle"
  /\ kills < MaxKills /\ kills' = kills + 1
  /\ owed' = IF work[p].at = "writing" THEN Nothing ELSE owed
  /\ work' = [work EXCEPT ![p] = NoWork]
  /\ UNCHANGED <<queue, clock>>

QueueNext ==
  \E p \in Process :
    \/ EmptyQueue(p) \/ FillQueue(p) \/ Killed(p)
    \/ \E c \in Condition :
         Observe(p, c) \/ \E status \in {"acknowledged", "deferred", "open"} : Mutate(p, c, status)

QueueSpec == QueueInit /\ [][QueueNext]_queueVars

-----------------------------------------------------------------------------

(* What was observed and not acknowledged since waits in the queue, or has made room for records no
   older: until a write is cut off by a crash or runs while the other process is at work, and again
   after the next call.  (upsertOperatorActionItem, mutateOperatorActionItem) *)
OwedIsOpen ==
  queue.torn \/
  \A c \in Condition : owed[c] > 0 =>
    \/ Queued(c) /\ Item(c).status # "acknowledged"
    \/ Len(queue.items) = Limit /\ \A i \in 1..Limit : queue.items[i].at >= owed[c]
================================================================================
