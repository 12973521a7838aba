------------------------- MODULE RuntimeStartupProofs -------------------------
(***************************************************************************)
(* For any processes and troubles: two processes never both hold the       *)
(* workspace, unless a rollback ended the generation of one that lives     *)
(* (HoldInv).  As long as no start begins during another's, a process that *)
(* was spawned for a service is in the journal until its generation runs   *)
(* or a rollback did not know of it, and a start that was rolled back      *)
(* leaves nothing else (RollbackInv, on top of HoldInv: where each start   *)
(* stands, Starts; what the journal notes, AllNoted; what it notes of the  *)
(* service and what a start knows of it, ServiceInv).                      *)
(*                                                                         *)
(* The lock of the registries it writes excludes, unless it was taken from *)
(* a process that lived, and that needs a death or a pause (LockInv).      *)
(***************************************************************************)
EXTENDS RuntimeStartup, WorkspaceLock, TLAPS

Resources == {"service", "instance", "ownership", "allocation", "generation"}

Looking == {"rollback", "cleanup", "cleaning"}
Resuming == {"resume", "prepare", "recover"}
Beginning == {"noteAdoption", "generate"}
Reserving == {"reserve", "reservePlan", "claim", "noteAllocation", "own"}
Bound == InLoop \cup Later \cup {"noteGeneration"}
Unwinding == {"undo", "undone", "undoLoop", "undoneLoop"}

Places == {"idle", "again", "begin", "seal", "running", "done"} \cup Looking \cup Resuming
            \cup Beginning \cup Bound \cup Unwinding \cup Leaving

Id == Process \cup {"none"}

Journal ==
  [generation : Id, status : {"none", "active", "blocked", "committed", "rolled_back"},
   committed : BOOLEAN, done : SUBSET (Resources \cup {"adoption"}), pending : SUBSET Resources,
   allocation : Id, started : BOOLEAN]

Phases == {"none", "starting", "running", "stopping", "superseded", "failed", "stopped"}

Start ==
  [at : Places, copy : Journal, generation : Id, allocation : Id, held : SUBSET Resources,
   todo : SUBSET Resources, recovering : BOOLEAN, adopts : BOOLEAN, runs : {"none", "own", "other"}]

WorldTypes ==
  /\ journal \in Journal
  /\ generations \in [Process -> [phase : Phases, pid : Id]]
  /\ active \in Id
  /\ owner \in [generation : Id, pid : Id, allocation : Id]
  /\ service \in [generation : Id, allocation : Id, up : BOOLEAN, adopted : BOOLEAN]
  /\ reservations \subseteq [allocation : Id, pid : Id]
  /\ plan \in [allocation : Id, reserved : BOOLEAN]
  /\ instance \in Id
  /\ instances \in [Process -> [pid : Id, running : BOOLEAN]]
  /\ dead \subseteq Process /\ strays \subseteq Process
  /\ evicted \subseteq Process /\ abandoned \subseteq Process /\ overlooked \subseteq Process
  /\ usurped \in BOOLEAN
  /\ spent \in [crashes : Nat, faults : Nat, overlaps : Nat]

StartupTypes == WorldTypes /\ starts \in [Process -> Start]

(* What the place of a process says of the generation it has, and of the one its journal names. *)
NotYet == {"idle", "again", "begin"} \cup Looking \cup Resuming \cup Beginning
Holding == Bound \cup {"seal", "running"} \cup Leaving
Released == Unwinding \cup {"release", "done"}
Journaling == Looking \cup Resuming \cup Beginning \cup Bound \cup {"seal"} \cup Unwinding

Placed(r) ==
  /\ r.at \in NotYet \/ r.recovering => r.generation = "none"
  /\ r.recovering => r.at \in {"undo", "undone", "done"}
  /\ r.at \in Holding => r.generation \in Process
  /\ r.at \in Journaling => r.copy.generation \in Process

Names ==
  /\ \A p \in Process : Placed(starts[p])
  /\ journal.status # "none" => journal.generation \in Process

(* While no rollback ended the generation of a process that lives, whoever has one has the active
   one, and it says so: what the looks of beginRuntimeGeneration and recoverRuntimeGeneration need. *)
Authority ==
  \A p \in Process : HasGeneration(p) =>
    LET g == starts[p].generation IN
    /\ g \in Process /\ active = g
    /\ generations[g].phase \in {"starting", "running", "stopping"} /\ generations[g].pid = p

HoldInv == StartupTypes /\ Names /\ (usurped \/ Authority)

-----------------------------------------------------------------------------
(* Steps of one process *)

Becomes(p, r) == starts' = [starts EXCEPT ![p] = r]

(* The fields of a record that a step leaves alone. *)
SameCopy(p, r) == r.copy = starts[p].copy
SameGeneration(p, r) == r.generation = starts[p].generation
SameTodo(p, r) == r.todo = starts[p].todo /\ r.recovering = starts[p].recovering
SameHeld(p, r) == r.allocation = starts[p].allocation /\ r.held = starts[p].held

LEMMA OthersStay ==
  ASSUME NEW p \in Process, NEW r \in Start, starts \in [Process -> Start], Becomes(p, r)
  PROVE  /\ starts' \in [Process -> Start] /\ starts'[p] = r
         /\ \A q \in Process : q # p => starts'[q] = starts[q]
BY DEF Becomes

LEMMA GoesTo ==
  ASSUME NEW p \in Process, NEW to \in Places, starts \in [Process -> Start], Goes(p, to)
  PROVE  \E r \in Start : /\ Becomes(p, r) /\ r.at = to
                          /\ SameCopy(p, r) /\ SameGeneration(p, r) /\ SameTodo(p, r) /\ SameHeld(p, r)
<1> DEFINE r == [starts[p] EXCEPT !.at = to]
<1>1. starts[p] \in Start
  OBVIOUS
<1>2. /\ r \in Start /\ r.at = to
      /\ SameCopy(p, r) /\ SameGeneration(p, r) /\ SameTodo(p, r) /\ SameHeld(p, r)
  BY <1>1 DEF Start, SameCopy, SameGeneration, SameTodo, SameHeld
<1>3. Becomes(p, r)
  BY <1>1 DEF Becomes, Goes
<1> QED
  BY <1>2, <1>3

LEMMA WritesTo ==
  ASSUME NEW p \in Process, NEW to \in Places, NEW j \in Journal, starts \in [Process -> Start],
         Writes(p, j, to)
  PROVE  \E r \in Start : /\ Becomes(p, r) /\ r.at = to /\ r.copy = j
                          /\ SameGeneration(p, r) /\ SameTodo(p, r) /\ SameHeld(p, r)
<1> DEFINE r == [starts[p] EXCEPT !.at = to, !.copy = j]
<1>1. starts[p] \in Start
  OBVIOUS
<1>2. /\ r \in Start /\ r.at = to /\ r.copy = j
      /\ SameGeneration(p, r) /\ SameTodo(p, r) /\ SameHeld(p, r)
  BY <1>1 DEF Start, SameGeneration, SameTodo, SameHeld
<1>3. Becomes(p, r)
  BY <1>1 DEF Becomes, Writes
<1> QED
  BY <1>2, <1>3

(* A step after which the process knows whether the service runs. *)
Turns(p, to, runs) == starts' = [starts EXCEPT ![p].at = to, ![p].runs = runs]

LEMMA TurnsTo ==
  ASSUME NEW p \in Process, NEW to \in Places, NEW runs \in {"none", "own", "other"},
         starts \in [Process -> Start], Turns(p, to, runs)
  PROVE  \E r \in Start : /\ Becomes(p, r) /\ r.at = to
                          /\ SameCopy(p, r) /\ SameGeneration(p, r) /\ SameTodo(p, r) /\ SameHeld(p, r)
<1> DEFINE r == [starts[p] EXCEPT !.at = to, !.runs = runs]
<1>1. starts[p] \in Start
  OBVIOUS
<1>2. /\ r \in Start /\ r.at = to
      /\ SameCopy(p, r) /\ SameGeneration(p, r) /\ SameTodo(p, r) /\ SameHeld(p, r)
  BY <1>1 DEF Start, SameCopy, SameGeneration, SameTodo, SameHeld
<1>3. Becomes(p, r)
  BY <1>1 DEF Becomes, Turns
<1> QED
  BY <1>2, <1>3

LEMMA NotedIsJournal ==
  ASSUME NEW j \in Journal, NEW done \in SUBSET (Resources \cup {"adoption"}), NEW add \in SUBSET Resources
  PROVE  LET k == Noted(j, done, add) IN
         /\ k \in Journal /\ k.done = j.done \cup done /\ k.pending = j.pending \cup add
         /\ k.generation = j.generation /\ k.status = j.status /\ k.committed = j.committed
         /\ k.allocation = j.allocation
BY DEF Noted, Journal

LEMMA NoteGenerationTo ==
  ASSUME starts \in [Process -> Start], NEW p \in Process, NoteGeneration(p)
  PROVE  LET j == Noted(Copy(p), {"generation"}, {"generation"}) IN
         /\ journal' = j /\ j \in Journal
         /\ \E r \in Start :
              /\ Becomes(p, r) /\ r.copy = j /\ SameGeneration(p, r) /\ SameTodo(p, r) /\ SameHeld(p, r)
              /\ r.at = IF j.allocation # "none" THEN "claim" ELSE "reserve"
<1> DEFINE j == Noted(Copy(p), {"generation"}, {"generation"})
           at == IF j.allocation # "none" THEN "claim" ELSE "reserve"
           runs == IF starts[p].runs # "none" \/ starts[p].adopts \/ j.generation # p THEN starts[p].runs
                   ELSE Adopted(p)
           r == [starts[p] EXCEPT !.copy = j, !.at = at, !.runs = runs]
<1>1. starts[p] \in Start /\ Copy(p) \in Journal
  BY DEF Start, Copy
<1>2. j \in Journal
  BY <1>1, NotedIsJournal DEF Resources
<1>3. at \in Places /\ runs \in {"none", "own", "other"}
  BY <1>1 DEF Places, Bound, InLoop, Start, Adopted
<1>4. journal' = j /\ Becomes(p, r)
  BY <1>1 DEF NoteGeneration, Becomes
<1> HIDE DEF j, at, runs
<1>5. r \in Start /\ r.copy = j /\ r.at = at /\ SameGeneration(p, r) /\ SameTodo(p, r) /\ SameHeld(p, r)
  BY <1>1, <1>2, <1>3 DEF Start, SameGeneration, SameTodo, SameHeld
<1> HIDE DEF r
<1> QED
  BY <1>2, <1>4, <1>5 DEF at, j

(* inspectStartupRecovery knows five classes, and all but one are of a journal that is open. *)
LEMMA ClassIs ==
  ASSUME NEW j \in Journal
  PROVE  /\ Class(j) \in {"begin", "refused", "rollback", "cleanup", "resume"}
         /\ Class(j) \in {"rollback", "cleanup", "resume"} => j.status \in {"active", "blocked"}
<1>1. CommittedClass(j) \in {"refused", "cleanup"}
  BY DEF CommittedClass
<1>2. ServiceClass(j) \in {"refused", "rollback", "resume"}
  BY DEF ServiceClass
<1>3. UncommittedClass(j) \in {"refused", "rollback", "resume"}
  BY <1>2 DEF UncommittedClass
<1> QED
  BY <1>1, <1>3 DEF Class

LEMMA InspectTo ==
  ASSUME StartupTypes, NEW p \in Process, Inspect(p)
  PROVE  \E r \in Start :
           /\ Becomes(p, r) /\ r.copy = journal /\ SameGeneration(p, r) /\ SameTodo(p, r) /\ SameHeld(p, r)
           /\ \/ r.at \in {"done", "begin"}
              \/ r.at \in {"rollback", "cleanup", "resume"} /\ r.at = Class(journal)
              \/ r.at = "rollback" /\ Class(journal) = "resume"
<1>1. PICK to \in {Class(journal)} \cup (IF Class(journal) = "resume" THEN {"rollback"} ELSE {}) :
        starts' = [starts EXCEPT ![p].at = IF to = "refused" THEN "done" ELSE to,
                                 ![p].copy = journal,
                                 ![p].adopts = @ \/ "adoption" \in journal.done,
                                 ![p].runs = IF /\ @ = "none" /\ to \in {"rollback", "resume"}
                                                /\ Evident(journal)
                                                /\ to = "resume" => "adoption" \notin journal.done
                                             THEN Adopted(journal.generation) ELSE @]
  BY DEF Inspect
<1> DEFINE at == IF to = "refused" THEN "done" ELSE to
           runs == IF /\ starts[p].runs = "none" /\ to \in {"rollback", "resume"}
                      /\ Evident(journal)
                      /\ to = "resume" => "adoption" \notin journal.done
                   THEN Adopted(journal.generation) ELSE starts[p].runs
           r == [starts[p] EXCEPT !.at = at, !.copy = journal, !.adopts = @ \/ "adoption" \in journal.done,
                                  !.runs = runs]
<1>2. journal \in Journal /\ starts \in [Process -> Start] /\ starts[p] \in Start
  BY DEF StartupTypes, WorldTypes
<1>3. /\ at \in Places
      /\ \/ at \in {"done", "begin"}
         \/ at \in {"rollback", "cleanup", "resume"} /\ at = Class(journal)
         \/ at = "rollback" /\ Class(journal) = "resume"
  BY <1>1, <1>2, ClassIs DEF Places, Looking, Resuming
<1>4. Becomes(p, r)
  BY <1>1, <1>2 DEF Becomes
<1>6. runs \in {"none", "own", "other"}
  BY <1>2 DEF Start, Adopted
<1> HIDE DEF at, runs
<1>5. /\ r \in Start /\ r.at = at /\ r.copy = journal
      /\ SameGeneration(p, r) /\ SameTodo(p, r) /\ SameHeld(p, r)
  BY <1>2, <1>3, <1>6 DEF Start, SameGeneration, SameTodo, SameHeld
<1> HIDE DEF r
<1> QED
  BY <1>3, <1>4, <1>5

LEMMA RollbackTo ==
  ASSUME StartupTypes, NEW p \in Process, Rollback(p)
  PROVE  \E r \in Start :
           /\ Becomes(p, r) /\ r.at = "undo" /\ r.copy = Activated(p) /\ SameGeneration(p, r) /\ SameHeld(p, r)
           /\ r.recovering /\ r.todo = Copy(p).pending
<1> DEFINE r == [starts[p] EXCEPT !.at = "undo", !.copy = Activated(p), !.recovering = TRUE,
                                  !.todo = Copy(p).pending]
<1>1. starts \in [Process -> Start] /\ starts[p] \in Start
  BY DEF StartupTypes
<1>2. Becomes(p, r)
  BY <1>1 DEF Becomes, Rollback
<1>3. Activated(p) \in Journal /\ Copy(p).pending \in SUBSET Resources
  BY <1>1 DEF Activated, Copy, Start, Journal
<1>4. /\ r \in Start /\ r.at = "undo" /\ r.copy = Activated(p) /\ SameGeneration(p, r) /\ SameHeld(p, r)
      /\ r.recovering /\ r.todo = Copy(p).pending
  BY <1>1, <1>3 DEF Start, SameGeneration, SameHeld, Places, Unwinding
<1> HIDE DEF r
<1> QED
  BY <1>2, <1>4

LEMMA CleanedTo ==
  ASSUME StartupTypes, NEW p \in Process, Cleaned(p)
  PROVE  \E r \in Start :
           /\ Becomes(p, r) /\ r.at = "again" /\ r.copy = journal' /\ journal' \in Journal
           /\ journal' = [Copy(p) EXCEPT !.status = "committed", !.pending = {}]
           /\ SameGeneration(p, r) /\ SameTodo(p, r) /\ SameHeld(p, r)
<1> DEFINE j == [Copy(p) EXCEPT !.status = "committed", !.pending = {}]
           adopts == starts[p].adopts \/ (j.started /\ service.up /\ service.generation = j.generation)
           runs == IF j.started /\ service.up THEN "other" ELSE starts[p].runs
           r == [starts[p] EXCEPT !.at = "again", !.copy = j, !.adopts = adopts, !.runs = runs]
<1>1. starts \in [Process -> Start] /\ starts[p] \in Start
  BY DEF StartupTypes
<1>2. j \in Journal
  BY <1>1 DEF Copy, Start, Journal
<1>3. journal' = j /\ Becomes(p, r)
  BY <1>1 DEF Becomes, Cleaned
<1>4. adopts \in BOOLEAN /\ runs \in {"none", "own", "other"}
  BY <1>1, <1>2 DEF Start, Journal
<1> HIDE DEF j, adopts, runs
<1>5. /\ r \in Start /\ r.at = "again" /\ r.copy = j
      /\ SameGeneration(p, r) /\ SameTodo(p, r) /\ SameHeld(p, r)
  BY <1>1, <1>2, <1>4 DEF Start, SameGeneration, SameTodo, SameHeld, Places
<1> HIDE DEF r
<1> QED
  BY <1>2, <1>3, <1>5 DEF j

(* A generation is taken: its record, the active one, and those it supersedes. *)
LEMMA TakenTo ==
  ASSUME StartupTypes, NEW p \in Process, NEW g \in Process, NEW to \in Places, Taken(p, g, to)
  PROVE  \E r \in Start :
           /\ Becomes(p, r) /\ r.at = to /\ r.generation = g
           /\ SameCopy(p, r) /\ SameTodo(p, r) /\ SameHeld(p, r)
<1> DEFINE r == [starts[p] EXCEPT !.at = to, !.generation = g]
<1>1. starts \in [Process -> Start] /\ starts[p] \in Start
  BY DEF StartupTypes
<1>2. Becomes(p, r)
  BY <1>1 DEF Becomes, Taken
<1>3. /\ r \in Start /\ r.at = to /\ r.generation = g
      /\ SameCopy(p, r) /\ SameTodo(p, r) /\ SameHeld(p, r)
  BY <1>1 DEF Start, SameCopy, SameTodo, SameHeld, Id
<1> HIDE DEF r
<1> QED
  BY <1>2, <1>3

LEMMA TakenIs ==
  ASSUME StartupTypes, NEW p \in Process, NEW g \in Process, NEW to \in Places, Taken(p, g, to)
  PROVE  /\ generations' \in [Process -> [phase : Phases, pid : Id]] /\ active' = g
         /\ generations'[g].phase = "starting" /\ generations'[g].pid = p
         /\ \A h \in Process : h # g => \/ generations'[h] = generations[h]
                                        \/ /\ generations[h].phase \in {"starting", "running", "stopping"}
                                           /\ generations'[h].phase = "superseded"
<1> DEFINE next(h) ==
       IF h = g THEN [phase |-> "starting", pid |-> p]
       ELSE IF generations[h].phase \in {"starting", "running", "stopping"} /\ starts[p].at = "generate"
       THEN [generations[h] EXCEPT !.phase = "superseded"] ELSE generations[h]
<1>1. generations' = [h \in Process |-> next(h)] /\ active' = g
  BY DEF Taken
<1>2. ASSUME NEW h \in Process PROVE next(h) \in [phase : Phases, pid : Id]
  BY DEF StartupTypes, WorldTypes, Phases, Id
<1>3. ASSUME NEW h \in Process, h # g, next(h) # generations[h]
      PROVE  /\ generations[h].phase \in {"starting", "running", "stopping"}
             /\ next(h).phase = "superseded"
  BY <1>3 DEF StartupTypes, WorldTypes
<1>4. next(g).phase = "starting" /\ next(g).pid = p
  OBVIOUS
<1> HIDE DEF next
<1> QED
  BY <1>1, <1>2, <1>3, <1>4

(* A step of the start that fails. *)
Undoes(p, to, todo) == starts' = [starts EXCEPT ![p].at = to, ![p].todo = todo]

LEMMA UndoesTo ==
  ASSUME StartupTypes, NEW p \in Process, NEW to \in Places, NEW todo \in SUBSET Resources, Undoes(p, to, todo)
  PROVE  \E r \in Start :
           /\ Becomes(p, r) /\ r.at = to /\ r.todo = todo /\ r.recovering = starts[p].recovering
           /\ SameCopy(p, r) /\ SameGeneration(p, r) /\ SameHeld(p, r)
<1> DEFINE r == [starts[p] EXCEPT !.at = to, !.todo = todo]
<1>1. starts \in [Process -> Start] /\ starts[p] \in Start
  BY DEF StartupTypes
<1>2. Becomes(p, r)
  BY <1>1 DEF Becomes, Undoes
<1>3. /\ r \in Start /\ r.at = to /\ r.todo = todo /\ r.recovering = starts[p].recovering
      /\ SameCopy(p, r) /\ SameGeneration(p, r) /\ SameHeld(p, r)
  BY <1>1 DEF Start, SameCopy, SameGeneration, SameHeld
<1> HIDE DEF r
<1> QED
  BY <1>2, <1>3

(* A step that acquires something to be given back. *)
(* An allocation a is held from here on. *)
Holds(p, a) ==
  starts' = [starts EXCEPT ![p].at = "noteAllocation", ![p].allocation = a, ![p].held = {"allocation"}]
Held(p, r) ==
  /\ Becomes(p, r) /\ r.at = "noteAllocation"
  /\ SameCopy(p, r) /\ SameGeneration(p, r) /\ SameTodo(p, r)

LEMMA HoldsTo ==
  ASSUME StartupTypes, NEW p \in Process, NEW a \in Id, Holds(p, a)
  PROVE  \E r \in Start : Held(p, r)
<1> DEFINE r == [starts[p] EXCEPT !.at = "noteAllocation", !.allocation = a, !.held = {"allocation"}]
<1>1. starts \in [Process -> Start] /\ starts[p] \in Start
  BY DEF StartupTypes
<1>2. Becomes(p, r)
  BY <1>1 DEF Becomes, Holds
<1>3. "noteAllocation" \in Places
  BY DEF Places, Bound, InLoop
<1>4. {"allocation"} \subseteq Resources
  BY DEF Resources
<1>5. /\ r \in Start /\ r.at = "noteAllocation"
      /\ SameCopy(p, r) /\ SameGeneration(p, r) /\ SameTodo(p, r)
  BY <1>1, <1>3, <1>4 DEF Start, SameCopy, SameGeneration, SameTodo
<1> HIDE DEF r
<1> QED
  BY <1>2, <1>5 DEF Held

LEMMA OwnTo ==
  ASSUME StartupTypes, NEW p \in Process, Own(p)
  PROVE  \E r \in Start :
           /\ Becomes(p, r) /\ r.at = "noteOwnership" /\ r.held = starts[p].held \cup {"ownership"}
           /\ r.allocation = starts[p].allocation
           /\ SameCopy(p, r) /\ SameGeneration(p, r) /\ SameTodo(p, r)
<1> DEFINE held == starts[p].held \cup {"ownership"}
           r == [starts[p] EXCEPT !.at = "noteOwnership", !.held = held]
<1>1. starts \in [Process -> Start] /\ starts[p] \in Start
  BY DEF StartupTypes
<1>2. Becomes(p, r)
  BY <1>1 DEF Becomes, Own
<1>3. held \in SUBSET Resources /\ "noteOwnership" \in Places
  BY <1>1 DEF Start, Resources, Places, Bound, InLoop
<1> HIDE DEF held
<1>4. /\ r \in Start /\ r.at = "noteOwnership" /\ r.held = held /\ r.allocation = starts[p].allocation
      /\ SameCopy(p, r) /\ SameGeneration(p, r) /\ SameTodo(p, r)
  BY <1>1, <1>3 DEF Start, SameCopy, SameGeneration, SameTodo
<1> HIDE DEF r
<1> QED
  BY <1>2, <1>4 DEF held

LEMMA NoteUndoneTo ==
  ASSUME StartupTypes, NEW p \in Process, NoteUndone(p)
  PROVE  \E s \in starts[p].todo : \E r \in Start :
           /\ IsNext(p, s)
           /\ Becomes(p, r) /\ r.copy = journal' /\ journal' \in Journal
           /\ journal' = [Copy(p) EXCEPT !.pending = @ \ {s}]
           /\ r.at = IF starts[p].at = "undoneLoop" THEN "undoLoop" ELSE "undo"
           /\ r.todo = starts[p].todo \ {s} /\ r.recovering = starts[p].recovering
           /\ SameGeneration(p, r) /\ SameHeld(p, r)
<1>1. PICK s \in starts[p].todo :
        /\ IsNext(p, s)
        /\ journal' = [Copy(p) EXCEPT !.pending = @ \ {s}]
        /\ starts' = [starts EXCEPT ![p].copy = journal', ![p].todo = @ \ {s},
                        ![p].at = IF @ = "undoneLoop" THEN "undoLoop" ELSE "undo"]
  BY DEF NoteUndone
<1> DEFINE at == IF starts[p].at = "undoneLoop" THEN "undoLoop" ELSE "undo"
           todo == starts[p].todo \ {s}
           r == [starts[p] EXCEPT !.copy = journal', !.todo = todo, !.at = at]
<1>2. starts \in [Process -> Start] /\ starts[p] \in Start
  BY DEF StartupTypes
<1>3. journal' \in Journal
  BY <1>1, <1>2 DEF Copy, Start, Journal
<1>4. at \in Places /\ todo \in SUBSET Resources
  BY <1>2 DEF Start, Places, Unwinding
<1>5. Becomes(p, r)
  BY <1>1, <1>2 DEF Becomes
<1> HIDE DEF at, todo
<1>6. /\ r \in Start /\ r.copy = journal' /\ r.at = at /\ r.todo = todo
      /\ r.recovering = starts[p].recovering /\ SameGeneration(p, r) /\ SameHeld(p, r)
  BY <1>2, <1>3, <1>4 DEF Start, SameGeneration, SameHeld
<1> HIDE DEF r
<1> QED
  BY <1>1, <1>3, <1>5, <1>6 DEF at, todo

(* settleStartupTransaction, when it does not fail. *)
LEMMA SettleTo ==
  ASSUME StartupTypes, NEW p \in Process, journal' = [Copy(p) EXCEPT !.status = Outcome(p)],
         starts' = [starts EXCEPT ![p].copy = journal', ![p].recovering = FALSE,
                      ![p].at = IF starts[p].recovering /\ journal'.status = "rolled_back" THEN "begin" ELSE "done"]
  PROVE  \E r \in Start :
           /\ Becomes(p, r) /\ r.copy = journal' /\ journal' \in Journal /\ journal'.status = Outcome(p)
           /\ r.at \in {"begin", "done"} /\ (r.at = "begin" => starts[p].recovering) /\ ~r.recovering
           /\ SameGeneration(p, r) /\ SameHeld(p, r)
<1> DEFINE at == IF starts[p].recovering /\ journal'.status = "rolled_back" THEN "begin" ELSE "done"
           r == [starts[p] EXCEPT !.copy = journal', !.recovering = FALSE, !.at = at]
<1>1. starts \in [Process -> Start] /\ starts[p] \in Start
  BY DEF StartupTypes
<1>2. Outcome(p) \in {"blocked", "rolled_back"}
  BY DEF Outcome
<1>3. journal' \in Journal /\ journal'.status = Outcome(p)
  BY <1>1, <1>2 DEF Copy, Start, Journal
<1>4. at \in Places /\ at \in {"begin", "done"} /\ (at = "begin" => starts[p].recovering)
  BY DEF Places
<1>5. Becomes(p, r)
  BY <1>1 DEF Becomes
<1> HIDE DEF at
<1>6. /\ r \in Start /\ r.copy = journal' /\ r.at = at /\ ~r.recovering
      /\ SameGeneration(p, r) /\ SameHeld(p, r)
  BY <1>1, <1>3, <1>4 DEF Start, SameGeneration, SameHeld
<1> HIDE DEF r
<1> QED
  BY <1>3, <1>4, <1>5, <1>6

-----------------------------------------------------------------------------
(* Who holds the workspace *)

LEMMA FaultsCount ==
  ASSUME spent \in [crashes : Nat, faults : Nat, overlaps : Nat], Faults
  PROVE  spent' \in [crashes : Nat, faults : Nat, overlaps : Nat] /\ spent'.overlaps = spent.overlaps
BY DEF Faults

(* A step that neither takes nor ends a generation. *)
LEMMA QuietHolds ==
  ASSUME HoldInv, NEW p \in Process, NEW r \in Start, Becomes(p, r), WorldTypes',
         UNCHANGED <<generations, active, dead, usurped>>, SameGeneration(p, r), Placed(r),
         r.at \in Released \/ starts[p].at \notin Released \/ r.generation = "none",
         journal'.status # "none" => journal'.generation \in Process
  PROVE  HoldInv'
<1>1. /\ starts' \in [Process -> Start] /\ starts'[p] = r
      /\ \A q \in Process : q # p => starts'[q] = starts[q]
  BY OthersStay DEF HoldInv, StartupTypes
<1>2. Names'
  BY <1>1 DEF HoldInv, Names
<1>3. ASSUME Authority PROVE Authority'
  <2>1. ASSUME NEW q \in Process, HasGeneration(q)'
        PROVE  HasGeneration(q) /\ starts'[q].generation = starts[q].generation
    <3>1. CASE q = p
      BY <1>1, <2>1, <3>1 DEF HasGeneration, SameGeneration, Released, Unwinding
    <3>2. CASE q # p
      BY <1>1, <2>1, <3>2 DEF HasGeneration
    <3> QED
      BY <3>1, <3>2
  <2> QED
    BY <1>3, <2>1 DEF Authority
<1> QED
  BY <1>1, <1>2, <1>3 DEF HoldInv, StartupTypes

(* The place a step starts from, what holds there, and the records it may write. *)
LEMMA Here ==
  ASSUME HoldInv, NEW p \in Process
  PROVE  /\ WorldTypes /\ starts \in [Process -> Start] /\ starts[p] \in Start /\ Placed(starts[p])
         /\ Copy(p) \in Journal /\ journal \in Journal
         /\ starts[p].generation \in Id /\ starts[p].allocation \in Id
         /\ starts[p].held \in SUBSET Resources /\ starts[p].todo \in SUBSET Resources
         /\ Copy(p).allocation \in Id /\ Copy(p).pending \in SUBSET Resources
         /\ journal.status # "none" => journal.generation \in Process
BY DEF HoldInv, StartupTypes, WorldTypes, Names, Start, Journal, Copy

(* The steps that only move the process, and write a record that no generation depends on. *)
LEMMA GoingHolds ==
  ASSUME HoldInv, NEW p \in Process,
         \/ NothingToLaunch(p) \/ Rediscover(p) \/ Spawn(p) \/ Enrol(p) \/ Store(p) \/ Register(p)
         \/ RegisterHost(p) \/ Reserve(p)
         \/ StopServices(p) \/ StopInstance(p) \/ Disown(p) \/ Release(p)
  PROVE  HoldInv'
<1> USE DEF NotYet, Looking, Resuming, Beginning, Reserving, Bound, InLoop, Later, Leaving, Holding, Released,
            Journaling, Unwinding
<1>0. /\ WorldTypes /\ starts \in [Process -> Start] /\ starts[p] \in Start /\ Placed(starts[p])
      /\ starts[p].generation \in Id /\ starts[p].allocation \in Id
      /\ journal.status # "none" => journal.generation \in Process
  BY Here
<1>1. CASE NothingToLaunch(p)
  <2>1. Goes(p, "register")
    BY <1>1 DEF NothingToLaunch
  <2>2. PICK r \in Start : /\ Becomes(p, r) /\ r.at = "register"
                           /\ SameCopy(p, r) /\ SameGeneration(p, r) /\ SameTodo(p, r)
    BY <1>0, <2>1, GoesTo DEF Places
  <2>3. WorldTypes'
    BY <1>0, <1>1 DEF NothingToLaunch, WorldTypes, registries, endpoints, records, history, undoings
  <2>4. Placed(r)
    BY <1>0, <1>1, <2>2 DEF NothingToLaunch, At, SameCopy, SameGeneration, SameTodo, Copy, Placed
  <2> QED
    BY <1>0, <1>1, <2>2, <2>3, <2>4, QuietHolds DEF NothingToLaunch, At, registries, endpoints, records, history, undoings
<1>2. CASE Rediscover(p)
  <2>1. Turns(p, "register", "own")
    BY <1>2 DEF Rediscover, Turns
  <2>2. PICK r \in Start : /\ Becomes(p, r) /\ r.at = "register"
                           /\ SameCopy(p, r) /\ SameGeneration(p, r) /\ SameTodo(p, r)
    BY <1>0, <2>1, GoesTo, TurnsTo DEF Places
  <2>3. WorldTypes'
    BY <1>0, <1>2 DEF Rediscover, WorldTypes, registries, endpoints, records, history, undoings
  <2>4. Placed(r)
    BY <1>0, <1>2, <2>2 DEF Rediscover, At, SameCopy, SameGeneration, SameTodo, Copy, Placed
  <2> QED
    BY <1>0, <1>2, <2>2, <2>3, <2>4, QuietHolds DEF Rediscover, At, registries, endpoints, records, history, undoings
<1>10. CASE Spawn(p)
  <2>1. Goes(p, "enrol")
    BY <1>10 DEF Spawn, Turns
  <2>2. PICK r \in Start : /\ Becomes(p, r) /\ r.at = "enrol"
                           /\ SameCopy(p, r) /\ SameGeneration(p, r) /\ SameTodo(p, r)
    BY <1>0, <2>1, GoesTo, TurnsTo DEF Places
  <2>3. WorldTypes'
    BY <1>0, <1>10 DEF Spawn, WorldTypes, registries, endpoints, records, history, undoings
  <2>4. Placed(r)
    BY <1>0, <1>10, <2>2 DEF Spawn, At, SameCopy, SameGeneration, SameTodo, Copy, Placed
  <2> QED
    BY <1>0, <1>10, <2>2, <2>3, <2>4, QuietHolds DEF Spawn, At, registries, endpoints, records, history, undoings
<1>11. CASE Enrol(p)
  <2>1. Turns(p, "store", "own")
    BY <1>11 DEF Enrol, Turns
  <2>2. PICK r \in Start : /\ Becomes(p, r) /\ r.at = "store"
                           /\ SameCopy(p, r) /\ SameGeneration(p, r) /\ SameTodo(p, r)
    BY <1>0, <2>1, GoesTo, TurnsTo DEF Places
  <2>3. WorldTypes'
    BY <1>0, <1>11 DEF Enrol, WorldTypes, registries, endpoints, records, history, undoings
  <2>4. Placed(r)
    BY <1>0, <1>11, <2>2 DEF Enrol, At, SameCopy, SameGeneration, SameTodo, Copy, Placed
  <2> QED
    BY <1>0, <1>11, <2>2, <2>3, <2>4, QuietHolds DEF Enrol, At, registries, endpoints, records, history, undoings
<1>12. CASE Store(p)
  <2>1. Goes(p, "register")
    BY <1>12 DEF Store, Turns
  <2>2. PICK r \in Start : /\ Becomes(p, r) /\ r.at = "register"
                           /\ SameCopy(p, r) /\ SameGeneration(p, r) /\ SameTodo(p, r)
    BY <1>0, <2>1, GoesTo, TurnsTo DEF Places
  <2>3. WorldTypes'
    BY <1>0, <1>12 DEF Store, WorldTypes, registries, endpoints, records, history, undoings
  <2>4. Placed(r)
    BY <1>0, <1>12, <2>2 DEF Store, At, SameCopy, SameGeneration, SameTodo, Copy, Placed
  <2> QED
    BY <1>0, <1>12, <2>2, <2>3, <2>4, QuietHolds DEF Store, At, registries, endpoints, records, history, undoings
<1>3. CASE Register(p)
  <2>1. Goes(p, "registerHost")
    BY <1>3 DEF Register
  <2>2. PICK r \in Start : /\ Becomes(p, r) /\ r.at = "registerHost"
                           /\ SameCopy(p, r) /\ SameGeneration(p, r) /\ SameTodo(p, r)
    BY <1>0, <2>1, GoesTo DEF Places
  <2>3. WorldTypes'
    BY <1>0, <1>3 DEF Register, WorldTypes, registries, endpoints, records, history, undoings
  <2>4. Placed(r)
    BY <1>0, <1>3, <2>2 DEF Register, At, SameCopy, SameGeneration, SameTodo, Copy, Placed
  <2> QED
    BY <1>0, <1>3, <2>2, <2>3, <2>4, QuietHolds DEF Register, At, registries, endpoints, records, history, undoings
<1>4. CASE RegisterHost(p)
  <2>1. Goes(p, "noteInstance")
    BY <1>4 DEF RegisterHost
  <2>2. PICK r \in Start : /\ Becomes(p, r) /\ r.at = "noteInstance"
                           /\ SameCopy(p, r) /\ SameGeneration(p, r) /\ SameTodo(p, r)
    BY <1>0, <2>1, GoesTo DEF Places
  <2>3. WorldTypes'
    <3>1. instances' \in [Process -> [pid : Id, running : BOOLEAN]]
      BY <1>0, <1>4 DEF RegisterHost, WorldTypes, Id
    <3> QED
      BY <1>0, <1>4, <3>1 DEF RegisterHost, WorldTypes, registries, endpoints, history, undoings
  <2>4. Placed(r)
    BY <1>0, <1>4, <2>2 DEF RegisterHost, At, SameCopy, SameGeneration, SameTodo, Copy, Placed
  <2> QED
    BY <1>0, <1>4, <2>2, <2>3, <2>4, QuietHolds DEF RegisterHost, At, registries, endpoints, records, history, undoings
<1>5. CASE Reserve(p)
  <2>1. Goes(p, "reservePlan")
    BY <1>5 DEF Reserve
  <2>2. PICK r \in Start : /\ Becomes(p, r) /\ r.at = "reservePlan"
                           /\ SameCopy(p, r) /\ SameGeneration(p, r) /\ SameTodo(p, r)
    BY <1>0, <2>1, GoesTo DEF Places
  <2>3. WorldTypes'
    BY <1>0, <1>5 DEF Reserve, WorldTypes, registries, endpoints, records, history, undoings, Retained, Id
  <2>4. Placed(r)
    BY <1>0, <1>5, <2>2 DEF Reserve, At, SameCopy, SameGeneration, SameTodo, Copy, Placed
  <2> QED
    BY <1>0, <1>5, <2>2, <2>3, <2>4, QuietHolds DEF Reserve, At, registries, endpoints, records, history, undoings
<1>6. CASE StopServices(p)
  <2>1. Turns(p, "stopInstance", "none")
    BY <1>6 DEF StopServices, Turns
  <2>2. PICK r \in Start : /\ Becomes(p, r) /\ r.at = "stopInstance"
                           /\ SameCopy(p, r) /\ SameGeneration(p, r) /\ SameTodo(p, r)
    BY <1>0, <2>1, GoesTo, TurnsTo DEF Places
  <2>3. WorldTypes'
    BY <1>0, <1>6 DEF StopServices, WorldTypes, registries, endpoints, records, history, undoings
  <2>4. Placed(r)
    BY <1>0, <1>6, <2>2 DEF StopServices, At, SameCopy, SameGeneration, SameTodo, Copy, Placed
  <2> QED
    BY <1>0, <1>6, <2>2, <2>3, <2>4, QuietHolds DEF StopServices, At, registries, endpoints, records, history, undoings
<1>7. CASE StopInstance(p)
  <2>1. Goes(p, "disown")
    BY <1>7 DEF StopInstance, Stopping
  <2>2. PICK r \in Start : /\ Becomes(p, r) /\ r.at = "disown"
                           /\ SameCopy(p, r) /\ SameGeneration(p, r) /\ SameTodo(p, r)
    BY <1>0, <2>1, GoesTo DEF Places
  <2>3. WorldTypes'
    BY <1>0, <1>7 DEF StopInstance, Stopping, WorldTypes, registries, endpoints, records, history, undoings
  <2>4. Placed(r)
    BY <1>0, <1>7, <2>2 DEF StopInstance, Stopping, At, SameCopy, SameGeneration, SameTodo, Copy, Placed
  <2> QED
    BY <1>0, <1>7, <2>2, <2>3, <2>4, QuietHolds DEF StopInstance, Stopping, At, registries, endpoints, records, history, undoings
<1>8. CASE Disown(p)
  <2>1. Goes(p, "stopped")
    BY <1>8 DEF Disown, Stopping
  <2>2. PICK r \in Start : /\ Becomes(p, r) /\ r.at = "stopped"
                           /\ SameCopy(p, r) /\ SameGeneration(p, r) /\ SameTodo(p, r)
    BY <1>0, <2>1, GoesTo DEF Places
  <2>3. WorldTypes'
    BY <1>0, <1>8 DEF Disown, Stopping, WorldTypes, registries, endpoints, records, history, undoings, Id
  <2>4. Placed(r)
    BY <1>0, <1>8, <2>2 DEF Disown, Stopping, At, SameCopy, SameGeneration, SameTodo, Copy, Placed
  <2> QED
    BY <1>0, <1>8, <2>2, <2>3, <2>4, QuietHolds DEF Disown, Stopping, At, registries, endpoints, records, history, undoings
<1>9. CASE Release(p)
  <2>1. Goes(p, "done")
    BY <1>9 DEF Release, Stopping
  <2>2. PICK r \in Start : /\ Becomes(p, r) /\ r.at = "done"
                           /\ SameCopy(p, r) /\ SameGeneration(p, r) /\ SameTodo(p, r)
    BY <1>0, <2>1, GoesTo DEF Places
  <2>3. WorldTypes'
    BY <1>0, <1>9 DEF Release, Stopping, WorldTypes, registries, endpoints, records, history, undoings, Releases
  <2>4. Placed(r)
    BY <1>0, <1>9, <2>2 DEF Release, Stopping, At, SameCopy, SameGeneration, SameTodo, Copy, Placed
  <2> QED
    BY <1>0, <1>9, <2>2, <2>3, <2>4, QuietHolds DEF Release, Stopping, At, registries, endpoints, records, history, undoings
<1> QED
  BY <1>1, <1>2, <1>3, <1>4, <1>5, <1>6, <1>7, <1>8, <1>9, <1>10, <1>11, <1>12

(* The steps that write the journal, from the copy of the process or anew. *)
LEMMA WritingHolds ==
  ASSUME HoldInv, NEW p \in Process,
         \/ Cleanup(p) \/ Resume(p) \/ Prepare(p) \/ Begin(p) \/ NoteAdoption(p) \/ NoteGeneration(p)
         \/ NoteAllocation(p) \/ NoteOwnership(p) \/ Intend(p) \/ NoteInstance(p) \/ NoteCommitted(p)
         \/ Seal(p) \/ SealFails(p)
  PROVE  HoldInv'
<1> USE DEF NotYet, Looking, Resuming, Beginning, Reserving, Bound, InLoop, Later, Leaving, Holding, Released,
            Journaling, Unwinding
<1>0. /\ WorldTypes /\ starts \in [Process -> Start] /\ starts[p] \in Start /\ Placed(starts[p])
      /\ starts[p].generation \in Id /\ starts[p].allocation \in Id /\ Copy(p) \in Journal
      /\ journal.status # "none" => journal.generation \in Process
      /\ starts[p].copy = Copy(p)
  BY Here DEF Copy
<1>w. ASSUME NEW to \in Places \ {"idle", "again", "begin", "rollback", "cleanup", "release"}, NEW j \in Journal,
             Writes(p, j, to), j.generation \in Process,
             UNCHANGED <<registries, endpoints, records, dead, undoings>>,
             spent' \in [crashes : Nat, faults : Nat, overlaps : Nat],
             ~starts[p].recovering, starts[p].at \notin Released,
             to \in NotYet => starts[p].generation = "none",
             to \in Holding => starts[p].generation \in Process
      PROVE  HoldInv'
  <2>1. PICK r \in Start : /\ Becomes(p, r) /\ r.at = to /\ r.copy = j
                           /\ SameGeneration(p, r) /\ SameTodo(p, r)
    BY <1>0, <1>w, WritesTo
  <2>2. WorldTypes'
    BY <1>0, <1>w DEF WorldTypes, Writes, registries, endpoints, records, undoings
  <2>3. Placed(r)
    BY <1>0, <1>w, <2>1 DEF SameGeneration, SameTodo, Placed
  <2>4. journal' = j
    BY <1>w DEF Writes
  <2> QED
    BY <1>0, <1>w, <2>1, <2>2, <2>3, <2>4, QuietHolds DEF registries, undoings
<1>a. Activated(p) \in Journal /\ Activated(p).generation = Copy(p).generation
  BY <1>0 DEF Activated, Journal
<1>n. ASSUME NEW done \in SUBSET (Resources \cup {"adoption"}), NEW add \in SUBSET Resources
      PROVE  Noted(Copy(p), done, add) \in Journal /\ Noted(Copy(p), done, add).generation = Copy(p).generation
  BY <1>0, NotedIsJournal
<1>s. spent \in [crashes : Nat, faults : Nat, overlaps : Nat]
  BY <1>0 DEF WorldTypes
<1>1. CASE Cleanup(p)
  <2>1. PICK to \in {"cleaning"} : Writes(p, Activated(p), to)
    BY <1>1 DEF Cleanup
  <2>2. Activated(p) \in Journal /\ Activated(p).generation = Copy(p).generation
    BY <1>a
  <2> QED
    BY <1>0, <1>s, <1>1, <1>w, <2>1, <2>2 DEF Cleanup, At, Placed, Places, history, undoings
<1>2. CASE Resume(p)
  <2>1. PICK to \in {"prepare"} : Writes(p, Activated(p), to)
    BY <1>2 DEF Resume
  <2>2. Activated(p) \in Journal /\ Activated(p).generation = Copy(p).generation
    BY <1>a
  <2> QED
    BY <1>0, <1>s, <1>2, <1>w, <2>1, <2>2 DEF Resume, At, Placed, Places, history, undoings
<1>3. CASE Prepare(p)
  <2>1. PICK to \in {"recover"} : Writes(p, Noted(Copy(p), {}, {"generation"}), to)
    BY <1>3 DEF Prepare
  <2>2. Noted(Copy(p), {}, {"generation"}) \in Journal /\ Noted(Copy(p), {}, {"generation"}).generation = Copy(p).generation
    BY <1>n DEF Resources
  <2> QED
    BY <1>0, <1>s, <1>3, <1>w, <2>1, <2>2 DEF Prepare, At, Placed, Places, history, undoings
<1>4. CASE NoteAdoption(p)
  <2>1. PICK to \in {"generate"} : Writes(p, Noted(Copy(p), {"adoption"}, {}), to)
    BY <1>4 DEF NoteAdoption
  <2>2. Noted(Copy(p), {"adoption"}, {}) \in Journal /\ Noted(Copy(p), {"adoption"}, {}).generation = Copy(p).generation
    BY <1>n DEF Resources
  <2> QED
    BY <1>0, <1>s, <1>4, <1>w, <2>1, <2>2 DEF NoteAdoption, At, Placed, Places, history, undoings
<1>5. CASE NoteGeneration(p)
  <2> DEFINE j == Noted(Copy(p), {"generation"}, {"generation"})
  <2>1. j.generation = Copy(p).generation
    BY <1>n DEF Resources
  <2>2. /\ journal' = j /\ j \in Journal
        /\ \E r \in Start : /\ Becomes(p, r) /\ r.copy = j /\ r.at \in {"claim", "reserve"}
                           /\ SameGeneration(p, r) /\ SameTodo(p, r)
    BY <1>0, <1>5, NoteGenerationTo
  <2> HIDE DEF j
  <2>3. PICK r \in Start : /\ Becomes(p, r) /\ r.copy = j /\ r.at \in {"claim", "reserve"}
                          /\ SameGeneration(p, r) /\ SameTodo(p, r)
    BY <2>2
  <2>4. WorldTypes'
    BY <1>0, <1>5, <2>2 DEF NoteGeneration, WorldTypes, registries, endpoints, records, history, undoings
  <2>5. Placed(r)
    BY <1>0, <1>5, <2>1, <2>3 DEF NoteGeneration, At, Placed, SameGeneration, SameTodo
  <2> QED
    BY <1>0, <1>5, <2>1, <2>2, <2>3, <2>4, <2>5, QuietHolds
       DEF NoteGeneration, At, registries, history, undoings, Placed
<1>6. CASE NoteAllocation(p)
  <2>1. PICK to \in {"own"} : Writes(p, [Noted(Copy(p), {}, {"allocation"}) EXCEPT !.allocation = starts[p].allocation], to)
    BY <1>6 DEF NoteAllocation
  <2>2. [Noted(Copy(p), {}, {"allocation"}) EXCEPT !.allocation = starts[p].allocation] \in Journal /\ [Noted(Copy(p), {}, {"allocation"}) EXCEPT !.allocation = starts[p].allocation].generation = Copy(p).generation
    <3>1. Noted(Copy(p), {}, {"allocation"}) \in Journal
          /\ Noted(Copy(p), {}, {"allocation"}).generation = Copy(p).generation
      BY <1>n DEF Resources
    <3> QED
      BY <1>0, <3>1 DEF Journal
  <2> QED
    BY <1>0, <1>s, <1>6, <1>w, <2>1, <2>2 DEF NoteAllocation, At, Placed, Places, history, undoings
<1>7. CASE NoteOwnership(p)
  <2>1. PICK to \in {"rebind", "services"} : Writes(p, Noted(Copy(p), {}, {"ownership"}), to)
    BY <1>7 DEF NoteOwnership
  <2>2. Noted(Copy(p), {}, {"ownership"}) \in Journal /\ Noted(Copy(p), {}, {"ownership"}).generation = Copy(p).generation
    BY <1>n DEF Resources
  <2> QED
    BY <1>0, <1>s, <1>7, <1>w, <2>1, <2>2 DEF NoteOwnership, At, Placed, Places, history, undoings
<1>8. CASE Intend(p)
  <2>1. PICK to \in {"launch"} : Writes(p, [Noted(Copy(p), {}, {"service"}) EXCEPT !.started = TRUE], to)
    BY <1>8 DEF Intend, Intended
  <2>2. [Noted(Copy(p), {}, {"service"}) EXCEPT !.started = TRUE] \in Journal /\ [Noted(Copy(p), {}, {"service"}) EXCEPT !.started = TRUE].generation = Copy(p).generation
    <3>1. Noted(Copy(p), {}, {"service"}) \in Journal
          /\ Noted(Copy(p), {}, {"service"}).generation = Copy(p).generation
      BY <1>n DEF Resources
    <3> QED
      BY <3>1 DEF Journal
  <2> QED
    BY <1>0, <1>s, <1>8, <1>w, <2>1, <2>2 DEF Intend, At, Placed, Places, history, undoings
<1>9. CASE NoteInstance(p)
  <2>1. PICK to \in {"publish"} : Writes(p, Noted(Copy(p), {"instance"}, {"instance"}), to)
    BY <1>9 DEF NoteInstance
  <2>2. Noted(Copy(p), {"instance"}, {"instance"}) \in Journal /\ Noted(Copy(p), {"instance"}, {"instance"}).generation = Copy(p).generation
    BY <1>n DEF Resources
  <2> QED
    BY <1>0, <1>s, <1>9, <1>w, <2>1, <2>2 DEF NoteInstance, At, Placed, Places, history, undoings
<1>10. CASE NoteCommitted(p)
  <2>1. PICK to \in {"seal"} : Writes(p, [Copy(p) EXCEPT !.committed = TRUE], to)
    BY <1>10 DEF NoteCommitted
  <2>2. [Copy(p) EXCEPT !.committed = TRUE] \in Journal /\ [Copy(p) EXCEPT !.committed = TRUE].generation = Copy(p).generation
    BY <1>0 DEF Journal
  <2> QED
    BY <1>0, <1>s, <1>10, <1>w, <2>1, <2>2 DEF NoteCommitted, At, Placed, Places, history, undoings
<1>11. CASE Seal(p)
  <2>1. PICK to \in {"running"} : Writes(p, [Copy(p) EXCEPT !.status = "committed", !.pending = {}], to)
    BY <1>11 DEF Seal
  <2>2. [Copy(p) EXCEPT !.status = "committed", !.pending = {}] \in Journal /\ [Copy(p) EXCEPT !.status = "committed", !.pending = {}].generation = Copy(p).generation
    BY <1>0 DEF Journal
  <2> QED
    BY <1>0, <1>s, <1>11, <1>w, <2>1, <2>2 DEF Seal, At, Placed, Places, history, undoings
<1>12. CASE SealFails(p)
  <2>1. PICK to \in {"running", "done"} :
          Writes(p, [Copy(p) EXCEPT !.status = "blocked"], to) /\ (to = "running" => starts[p].at = "seal")
    BY <1>12 DEF SealFails, At
  <2>2. /\ [Copy(p) EXCEPT !.status = "blocked"] \in Journal
        /\ [Copy(p) EXCEPT !.status = "blocked"].generation = Copy(p).generation
    BY <1>0 DEF Journal
  <2>3. spent' \in [crashes : Nat, faults : Nat, overlaps : Nat]
    BY <1>s, <1>12, FaultsCount DEF SealFails
  <2> QED
    BY <1>0, <1>12, <1>w, <2>1, <2>2, <2>3 DEF SealFails, At, Placed, Places
<1>13. CASE Begin(p)
  <2>1. CASE Interrupted
    <3>1. Goes(p, "done") /\ journal' = journal
      BY <1>13, <2>1 DEF Begin
    <3>2. PICK r \in Start : /\ Becomes(p, r) /\ r.at = "done"
                             /\ SameCopy(p, r) /\ SameGeneration(p, r) /\ SameTodo(p, r)
      BY <1>0, <3>1, GoesTo DEF Places
    <3>3. WorldTypes'
      BY <1>0, <1>13, <3>1 DEF Begin, WorldTypes, registries, endpoints, records, history, undoings
    <3>4. Placed(r)
      BY <1>0, <3>2 DEF SameGeneration, SameTodo, Placed
    <3> QED
      BY <1>0, <1>13, <3>1, <3>2, <3>3, <3>4, QuietHolds DEF Begin, registries, history, undoings
  <2>2. CASE ~Interrupted
    <3> DEFINE j == [NoJournal EXCEPT !.generation = p, !.status = "active"]
    <3>1. PICK to \in {"noteAdoption", "generate"} : Writes(p, j, to)
      BY <1>13, <2>2 DEF Begin
    <3>2. j \in Journal /\ j.generation = p
      BY DEF NoJournal, Journal, Id
    <3> HIDE DEF j
    <3> QED
      BY <1>0, <1>s, <1>13, <1>w, <3>1, <3>2 DEF Begin, At, Placed, Places, history, undoings
  <2> QED
    BY <2>1, <2>2
<1> QED
  BY <1>1, <1>2, <1>3, <1>4, <1>5, <1>6, <1>7, <1>8, <1>9, <1>10, <1>11, <1>12, <1>13

(* What an interrupted start left is looked at. *)
LEMMA LookingHolds ==
  ASSUME HoldInv, NEW p \in Process, Inspect(p) \/ Rollback(p) \/ Cleaned(p)
  PROVE  HoldInv'
<1> USE DEF NotYet, Looking, Resuming, Beginning, Reserving, Bound, InLoop, Later, Leaving, Holding, Released,
            Journaling, Unwinding
<1>0. /\ WorldTypes /\ starts \in [Process -> Start] /\ starts[p] \in Start /\ Placed(starts[p])
      /\ starts[p].generation \in Id /\ starts[p].allocation \in Id /\ Copy(p) \in Journal
      /\ starts[p].held \in SUBSET Resources /\ starts[p].todo \in SUBSET Resources
      /\ Copy(p).allocation \in Id /\ Copy(p).pending \in SUBSET Resources
      /\ journal.status # "none" => journal.generation \in Process
      /\ starts[p].copy = Copy(p) /\ StartupTypes /\ journal \in Journal
  BY Here DEF Copy, HoldInv
<1>1. CASE Inspect(p)
  <2>1. PICK r \in Start :
           /\ Becomes(p, r) /\ r.copy = journal /\ SameGeneration(p, r) /\ SameTodo(p, r)
           /\ \/ r.at \in {"done", "begin"}
              \/ r.at \in {"rollback", "cleanup", "resume"} /\ Class(journal) \in {"rollback", "cleanup", "resume"}
    BY <1>0, <1>1, InspectTo
  <2>2. starts[p].generation = "none" /\ ~starts[p].recovering
    BY <1>0, <1>1 DEF Inspect, At, Placed
  <2>3. Class(journal) \in {"rollback", "cleanup", "resume"} => journal.generation \in Process
    BY <1>0, ClassIs
  <2>4. Placed(r)
    BY <2>1, <2>2, <2>3 DEF Placed, SameGeneration, SameTodo
  <2>5. spent' \in [crashes : Nat, faults : Nat, overlaps : Nat]
    <3>1. spent \in [crashes : Nat, faults : Nat, overlaps : Nat]
      BY <1>0 DEF WorldTypes
    <3>2. spent' = spent \/ spent' = [spent EXCEPT !.overlaps = @ + 1]
      BY <1>1 DEF Inspect
    <3> QED
      BY <3>1, <3>2
  <2>6. WorldTypes' /\ journal' = journal /\ UNCHANGED <<generations, active, dead, usurped>>
    <3>1. evicted' \subseteq Process
      BY <1>0, <1>1 DEF Inspect, WorldTypes, Interrupted
    <3> QED
      BY <1>0, <1>1, <2>5, <3>1 DEF Inspect, WorldTypes, registries, endpoints, records
  <2> QED
    BY <1>0, <2>1, <2>2, <2>4, <2>6, QuietHolds DEF SameGeneration
<1>2. CASE Rollback(p)
  <2>1. PICK r \in Start :
           /\ Becomes(p, r) /\ r.at = "undo" /\ r.copy = Activated(p) /\ SameGeneration(p, r) /\ r.recovering
    BY <1>0, <1>2, RollbackTo
  <2>2. Activated(p) \in Journal /\ Activated(p).generation = Copy(p).generation
    BY <1>0 DEF Activated, Journal
  <2>3. Placed(r) /\ starts[p].generation = "none"
    BY <1>0, <1>2, <2>1, <2>2 DEF Rollback, At, Placed, SameGeneration
  <2>4. WorldTypes' /\ journal' = Activated(p) /\ UNCHANGED <<generations, active, dead, usurped>>
    BY <1>0, <1>2, <2>2 DEF Rollback, WorldTypes, registries, endpoints, records, history, undoings
  <2> QED
    BY <1>0, <1>2, <2>1, <2>2, <2>3, <2>4, QuietHolds DEF Rollback, At, Placed
<1>3. CASE Cleaned(p)
  <2>1. PICK r \in Start :
           /\ Becomes(p, r) /\ r.at = "again" /\ r.copy = journal' /\ journal' \in Journal
           /\ journal' = [Copy(p) EXCEPT !.status = "committed", !.pending = {}]
           /\ SameGeneration(p, r) /\ SameTodo(p, r)
    BY <1>0, <1>3, CleanedTo
  <2>2. journal'.generation = Copy(p).generation
    BY <1>0, <2>1 DEF Journal
  <2>3. Placed(r) /\ starts[p].generation = "none" /\ Copy(p).generation \in Process
    BY <1>0, <1>3, <2>1 DEF Cleaned, At, Placed, SameGeneration, SameTodo
  <2>4. WorldTypes' /\ UNCHANGED <<generations, active, dead, usurped>>
    BY <1>0, <1>3, <2>1 DEF Cleaned, WorldTypes, registries, endpoints, records, history, undoings
  <2> QED
    BY <2>1, <2>2, <2>3, <2>4, QuietHolds DEF SameGeneration
<1> QED
  BY <1>1, <1>2, <1>3

(* What is acquired while the API is being bound, and the service that is taken over. *)
LEMMA AcquiringHolds ==
  ASSUME HoldInv, NEW p \in Process, ReservePlan(p) \/ Claim(p) \/ Own(p) \/ Rebind(p)
  PROVE  HoldInv'
<1> USE DEF NotYet, Looking, Resuming, Beginning, Reserving, Bound, InLoop, Later, Leaving, Holding, Released,
            Journaling, Unwinding
<1>0. /\ WorldTypes /\ starts \in [Process -> Start] /\ starts[p] \in Start /\ Placed(starts[p])
      /\ starts[p].generation \in Id /\ starts[p].allocation \in Id /\ Copy(p) \in Journal
      /\ starts[p].held \in SUBSET Resources /\ starts[p].todo \in SUBSET Resources
      /\ Copy(p).allocation \in Id /\ Copy(p).pending \in SUBSET Resources
      /\ journal.status # "none" => journal.generation \in Process
      /\ starts[p].copy = Copy(p) /\ StartupTypes /\ journal \in Journal
  BY Here DEF Copy, HoldInv
<1>p. p \in Id /\ {"allocation"} \in SUBSET Resources /\ {"generation"} \in SUBSET Resources
      /\ starts[p].held \cup {"ownership"} \in SUBSET Resources
  BY <1>0 DEF Id, Resources
<1>1. CASE ReservePlan(p)
  <2>1. PICK r \in Start : Becomes(p, r) /\ r.at = "noteAllocation"
                          /\ SameCopy(p, r) /\ SameGeneration(p, r) /\ SameTodo(p, r)
    <3>1. StartupTypes /\ p \in Id /\ Holds(p, p)
      BY <1>0, <1>p, <1>1 DEF ReservePlan, Holds
    <3>2. PICK r \in Start : Held(p, r)
      BY <3>1, HoldsTo
    <3> QED
      BY <3>2 DEF Held
  <2>2. WorldTypes' /\ journal' = journal
    BY <1>0, <1>p, <1>1 DEF ReservePlan, WorldTypes, registries, records, history, undoings
  <2>3. Placed(r)
    BY <1>0, <1>1, <2>1 DEF ReservePlan, At, Placed, SameCopy, SameGeneration, SameTodo
  <2> QED
    BY <1>0, <1>1, <2>1, <2>2, <2>3, QuietHolds DEF ReservePlan, At, registries, history, undoings
<1>2. CASE Claim(p)
  <2>1. PICK r \in Start : Becomes(p, r) /\ r.at \in {"noteAllocation", "undo"} /\ r.recovering = starts[p].recovering
                          /\ SameCopy(p, r) /\ SameGeneration(p, r)
    <3>1. CASE starts' = [starts EXCEPT ![p].at = "noteAllocation", ![p].allocation = Copy(p).allocation,
                                        ![p].held = {"allocation"}]
      <4>1. StartupTypes /\ Copy(p).allocation \in Id /\ Holds(p, Copy(p).allocation)
        BY <1>0, <3>1 DEF Holds
      <4>2. PICK r \in Start : Held(p, r)
        BY <4>1, HoldsTo
      <4> QED
        BY <4>2 DEF Held, SameTodo
    <3>2. CASE starts' = [starts EXCEPT ![p].at = "undo", ![p].todo = {"generation"}]
      <4>1. "undo" \in Places
        BY DEF Places
      <4>2. PICK todo \in SUBSET Resources : todo = {"generation"}
        BY <1>p
      <4>3. starts' = [starts EXCEPT ![p].at = "undo", ![p].todo = todo]
        BY <3>2, <4>2
      <4> QED
        BY <1>0, <4>1, <4>3, UndoesTo DEF Undoes
    <3> QED
      BY <1>2, <3>1, <3>2 DEF Claim
  <2>2. WorldTypes' /\ journal' = journal
    BY <1>0, <1>p, <1>2 DEF Claim, WorldTypes, registries, records, history, undoings
  <2>3. Placed(r)
    BY <1>0, <1>2, <2>1 DEF Claim, At, Placed, SameCopy, SameGeneration
  <2> QED
    BY <1>0, <1>2, <2>1, <2>2, <2>3, QuietHolds DEF Claim, At, registries, history, undoings
<1>3. CASE Own(p)
  <2>1. PICK r \in Start : Becomes(p, r) /\ r.at = "noteOwnership"
                          /\ SameCopy(p, r) /\ SameGeneration(p, r) /\ SameTodo(p, r)
    BY <1>0, <1>3, OwnTo
  <2>2. WorldTypes' /\ journal' = journal
    BY <1>0, <1>p, <1>3 DEF Own, RowOf, WorldTypes, endpoints, records, history, undoings
  <2>3. Placed(r)
    BY <1>0, <1>3, <2>1 DEF Own, At, Placed, SameCopy, SameGeneration, SameTodo
  <2> QED
    BY <1>0, <1>3, <2>1, <2>2, <2>3, QuietHolds DEF Own, At, history, undoings
<1>4. CASE Rebind(p)
  <2>1. PICK r \in Start : Becomes(p, r) /\ r.at \in {"services", "undo"} /\ r.recovering = starts[p].recovering
                          /\ SameCopy(p, r) /\ SameGeneration(p, r)
    <3>1. CASE Turns(p, "services", "own")
      BY <1>0, <3>1, TurnsTo DEF Places, SameTodo
    <3>2. CASE Unready(p)
      BY <1>0, <3>2, UndoesTo DEF Unready, Undoes, Places
    <3> QED
      BY <1>4, <3>1, <3>2 DEF Rebind, Turns
  <2>2. WorldTypes' /\ journal' = journal
    <3>1. service' \in [generation : Id, allocation : Id, up : BOOLEAN, adopted : BOOLEAN]
      <4>1. CASE service.up /\ starts[p].runs # "none"
        <5>1. service' = [generation |-> starts[p].generation, allocation |-> starts[p].allocation,
                          up |-> TRUE, adopted |-> TRUE]
          BY <1>4, <4>1 DEF Rebind
        <5> QED
          BY <1>0, <5>1
      <4>2. CASE ~(service.up /\ starts[p].runs # "none")
        BY <1>0, <1>4, <4>2 DEF Rebind, WorldTypes
      <4> QED
        BY <4>1, <4>2
    <3> QED
      BY <1>0, <1>4, <3>1 DEF Rebind, WorldTypes, endpoints, records, history, undoings
  <2>3. Placed(r)
    BY <1>0, <1>4, <2>1 DEF Rebind, At, Placed, SameCopy, SameGeneration
  <2> QED
    BY <1>0, <1>4, <2>1, <2>2, <2>3, QuietHolds DEF Rebind, At, history, undoings
<1> QED
  BY <1>1, <1>2, <1>3, <1>4

(* What is undone of what a start acquired, but for its generation. *)
LEMMA UndoingHolds ==
  ASSUME HoldInv, NEW p \in Process,
         \/ Fail(p) \/ UndoService(p) \/ UndoInstance(p) \/ UndoOwnership(p) \/ UndoAllocation(p)
         \/ NoteUndone(p) \/ UndoFails(p) \/ Settle(p)
  PROVE  HoldInv'
<1> USE DEF NotYet, Looking, Resuming, Beginning, Reserving, Bound, InLoop, Later, Leaving, Holding, Released,
            Journaling, Unwinding
<1>0. /\ WorldTypes /\ starts \in [Process -> Start] /\ starts[p] \in Start /\ Placed(starts[p])
      /\ starts[p].generation \in Id /\ starts[p].allocation \in Id /\ Copy(p) \in Journal
      /\ starts[p].held \in SUBSET Resources /\ starts[p].todo \in SUBSET Resources
      /\ Copy(p).allocation \in Id /\ Copy(p).pending \in SUBSET Resources
      /\ journal.status # "none" => journal.generation \in Process
      /\ starts[p].copy = Copy(p) /\ StartupTypes /\ journal \in Journal
  BY Here DEF Copy, HoldInv
<1>g. ASSUME NEW to \in {"undone", "undoneLoop"}, Goes(p, to) \/ Turns(p, to, "none"), starts[p].at \in {"undo", "undoLoop"},
             to = "undoneLoop" => starts[p].at = "undoLoop",
             WorldTypes', UNCHANGED <<journal, generations, active, dead, usurped>>
      PROVE  HoldInv'
  <2>1. PICK r \in Start : Becomes(p, r) /\ r.at = to
                          /\ SameCopy(p, r) /\ SameGeneration(p, r) /\ SameTodo(p, r)
    BY <1>0, <1>g, GoesTo, TurnsTo DEF Places
  <2>2. Placed(r)
    BY <1>0, <1>g, <2>1 DEF Placed, SameCopy, SameGeneration, SameTodo
  <2> QED
    BY <1>0, <1>g, <2>1, <2>2, QuietHolds
<1>t. ASSUME NotesUndoing(p), Undoing(p)
      PROVE  \E to \in {"undone", "undoneLoop"} :
               /\ Goes(p, to) /\ starts[p].at \in {"undo", "undoLoop"}
               /\ to = "undoneLoop" => starts[p].at = "undoLoop"
  BY <1>t DEF NotesUndoing, Undoing
<1>1. CASE Fail(p)
  <2>1. ToUndo(p) \in SUBSET Resources
    BY <1>0 DEF ToUndo, Resources
  <2>2. PICK r \in Start : /\ Becomes(p, r) /\ r.at \in {"undo", "undoLoop"} /\ r.recovering = starts[p].recovering
                           /\ SameCopy(p, r) /\ SameGeneration(p, r)
    <3>1. CASE starts[p].at \in InLoop
      <4>1. starts' = [starts EXCEPT ![p].at = "undoLoop", ![p].todo = ToUndo(p)]
        BY <1>0, <1>1, <3>1 DEF Fail
      <4> QED
        BY <1>0, <2>1, <4>1, UndoesTo DEF Undoes, Places
    <3>2. CASE starts[p].at \notin InLoop
      <4>1. starts' = [starts EXCEPT ![p].at = "undo", ![p].todo = ToUndo(p)]
        BY <1>0, <1>1, <3>2 DEF Fail
      <4> QED
        BY <1>0, <2>1, <4>1, UndoesTo DEF Undoes, Places
    <3> QED
      BY <3>1, <3>2
  <2>3. spent' \in [crashes : Nat, faults : Nat, overlaps : Nat]
    BY <1>0, <1>1, FaultsCount DEF Fail, WorldTypes
  <2>4. WorldTypes'
    BY <1>0, <1>1, <2>3 DEF Fail, WorldTypes, endpoints, records, undoings
  <2>5. Placed(r)
    BY <1>0, <1>1, <2>2 DEF Fail, Placed, SameCopy, SameGeneration
  <2> QED
    BY <1>0, <1>1, <2>2, <2>4, <2>5, QuietHolds DEF Fail, undoings
<1>2. CASE UndoService(p)
  <2>1. Undone(p) \in Process
    BY <1>0, <1>2 DEF UndoService, Undoing, Undone, Placed
  <2>2. /\ service' \in [generation : Id, allocation : Id, up : BOOLEAN, adopted : BOOLEAN]
        /\ abandoned' \subseteq Process /\ overlooked' \subseteq Process
    <3>1. service' = service \/ service' = [service EXCEPT !.up = FALSE]
      BY <1>2 DEF UndoService
    <3>2. abandoned' \subseteq abandoned \cup {Undone(p)}
      BY <1>2 DEF UndoService
    <3>3. overlooked' \subseteq overlooked \cup strays
      BY <1>2 DEF UndoService, StraysOf
    <3> QED
      BY <1>0, <2>1, <3>1, <3>2, <3>3 DEF WorldTypes
  <2>3. WorldTypes'
    BY <1>0, <1>2, <2>2 DEF UndoService, WorldTypes, endpoints, records
  <2>4. PICK to \in {"undone", "undoneLoop"} :
          /\ Goes(p, to) \/ Turns(p, to, "none")
          /\ starts[p].at \in {"undo", "undoLoop"} /\ (to = "undoneLoop" => starts[p].at = "undoLoop")
    BY <1>2 DEF UndoService, Undoing, NotesUndoing, Turns
  <2> QED
    BY <1>2, <1>g, <2>3, <2>4 DEF UndoService
<1>3. CASE UndoInstance(p)
  <2>1. instances' \in [Process -> [pid : Id, running : BOOLEAN]]
    BY <1>0, <1>3 DEF UndoInstance, WorldTypes
  <2>2. WorldTypes'
    BY <1>0, <1>3, <2>1 DEF UndoInstance, WorldTypes, registries, endpoints, history, undoings
  <2> QED
    BY <1>3, <1>g, <1>t, <2>2 DEF UndoInstance, registries, history, undoings
<1>4. CASE UndoOwnership(p)
  <2>1. WorldTypes'
    BY <1>0, <1>4 DEF UndoOwnership, WorldTypes, endpoints, records, history, undoings, Id
  <2> QED
    BY <1>4, <1>g, <1>t, <2>1 DEF UndoOwnership, history, undoings
<1>5. CASE UndoAllocation(p)
  <2>1. Allocated(p) \in Id
    BY <1>0 DEF Allocated
  <2>2. WorldTypes'
    BY <1>0, <1>5, <2>1 DEF UndoAllocation, Releases, WorldTypes, registries, records, history, undoings
  <2> QED
    BY <1>5, <1>g, <1>t, <2>2 DEF UndoAllocation, registries, history, undoings
<1>6. CASE NoteUndone(p)
  <2>1. PICK s \in starts[p].todo, r \in Start :
           /\ Becomes(p, r) /\ r.copy = journal' /\ journal' \in Journal
           /\ journal' = [Copy(p) EXCEPT !.pending = @ \ {s}]
           /\ r.at = IF starts[p].at = "undoneLoop" THEN "undoLoop" ELSE "undo"
           /\ r.recovering = starts[p].recovering /\ SameGeneration(p, r)
    BY <1>0, <1>6, NoteUndoneTo
  <2>2. journal'.generation = Copy(p).generation
    BY <1>0, <2>1 DEF Journal
  <2>3. WorldTypes'
    BY <1>0, <1>6, <2>1 DEF NoteUndone, WorldTypes, registries, endpoints, records, history, undoings
  <2>4. Placed(r) /\ Copy(p).generation \in Process
    BY <1>0, <1>6, <2>1, <2>2 DEF NoteUndone, At, Placed, SameGeneration
  <2> QED
    BY <1>0, <1>6, <2>1, <2>2, <2>3, <2>4, QuietHolds DEF NoteUndone, At, registries, history, undoings
<1>7. CASE UndoFails(p)
  <2>1. PICK todo \in SUBSET Resources : starts' = [starts EXCEPT ![p].todo = todo]
    <3>1. PICK s \in starts[p].todo :
            starts' = [starts EXCEPT ![p].todo =
                       IF starts[p].at = "undoLoop" THEN (@ \cap {"generation"}) \ {s} ELSE @ \ {s}]
      BY <1>7 DEF UndoFails
    <3> DEFINE todo == IF starts[p].at = "undoLoop" THEN (starts[p].todo \cap {"generation"}) \ {s}
                       ELSE starts[p].todo \ {s}
    <3>2. todo \in SUBSET Resources
      BY <1>0
    <3>3. starts' = [starts EXCEPT ![p].todo = todo]
      BY <1>0, <3>1
    <3> HIDE DEF todo
    <3> QED
      BY <3>2, <3>3
  <2> DEFINE r == [starts[p] EXCEPT !.todo = todo]
  <2>2. Becomes(p, r)
    BY <1>0, <2>1 DEF Becomes
  <2>3. r \in Start /\ r.at = starts[p].at /\ r.recovering = starts[p].recovering
        /\ SameCopy(p, r) /\ SameGeneration(p, r)
    BY <1>0, <2>1 DEF Start, SameCopy, SameGeneration
  <2> HIDE DEF r
  <2>4. spent' \in [crashes : Nat, faults : Nat, overlaps : Nat]
    BY <1>0, <1>7, FaultsCount DEF UndoFails, WorldTypes
  <2>5. WorldTypes'
    BY <1>0, <1>7, <2>4 DEF UndoFails, WorldTypes, registries, endpoints, records, undoings
  <2>6. Placed(r)
    BY <1>0, <2>3 DEF Placed, SameCopy, SameGeneration
  <2> QED
    BY <1>0, <1>7, <2>2, <2>3, <2>5, <2>6, QuietHolds DEF UndoFails, Undoing, registries, undoings
<1>8. CASE Settle(p)
  <2>1. CASE journal' = [Copy(p) EXCEPT !.status = Outcome(p)]
             /\ starts' = [starts EXCEPT ![p].copy = journal', ![p].recovering = FALSE,
                      ![p].at = IF starts[p].recovering /\ journal'.status = "rolled_back" THEN "begin" ELSE "done"]
             /\ spent' = spent
    <3>1. PICK r \in Start :
           /\ Becomes(p, r) /\ r.copy = journal' /\ journal' \in Journal
           /\ r.at \in {"begin", "done"} /\ (r.at = "begin" => starts[p].recovering) /\ ~r.recovering
           /\ SameGeneration(p, r)
      BY <1>0, <2>1, SettleTo
    <3>2. journal'.generation = Copy(p).generation /\ Copy(p).generation \in Process
      BY <1>0, <1>8, <2>1 DEF Journal, Settle, Undoing, Placed
    <3>3. WorldTypes'
      BY <1>0, <1>8, <2>1, <3>1 DEF Settle, WorldTypes, registries, endpoints, records, undoings
    <3>4. Placed(r) /\ (r.at = "begin" => starts[p].generation = "none")
      BY <1>0, <3>1 DEF Placed, SameGeneration
    <3> QED
      BY <1>0, <1>8, <3>1, <3>2, <3>3, <3>4, QuietHolds DEF Settle, registries, undoings, SameGeneration
  <2>2. CASE Faults /\ Goes(p, "done") /\ journal' = journal
    <3>1. PICK r \in Start : Becomes(p, r) /\ r.at = "done"
                            /\ SameCopy(p, r) /\ SameGeneration(p, r) /\ SameTodo(p, r)
      BY <1>0, <2>2, GoesTo DEF Places
    <3>2. spent' \in [crashes : Nat, faults : Nat, overlaps : Nat]
      BY <1>0, <2>2, FaultsCount DEF WorldTypes
    <3>3. WorldTypes'
      BY <1>0, <1>8, <2>2, <3>2 DEF Settle, WorldTypes, registries, endpoints, records, undoings
    <3>4. Placed(r)
      BY <1>0, <3>1 DEF Placed, SameGeneration, SameTodo
    <3> QED
      BY <1>0, <1>8, <2>2, <3>1, <3>3, <3>4, QuietHolds DEF Settle, registries, undoings
  <2> QED
    BY <1>8, <2>1, <2>2 DEF Settle
<1> QED
  BY <1>1, <1>2, <1>3, <1>4, <1>5, <1>6, <1>7, <1>8

(* A step that changes generations leaves their types, and other processes where they are. *)
LEMMA NamesKept ==
  ASSUME HoldInv, NEW p \in Process, NEW r \in Start, Becomes(p, r), Placed(r), WorldTypes', journal' = journal
  PROVE  StartupTypes' /\ Names' /\ starts'[p] = r /\ \A q \in Process : q # p => starts'[q] = starts[q]
<1>1. /\ starts' \in [Process -> Start] /\ starts'[p] = r
      /\ \A q \in Process : q # p => starts'[q] = starts[q]
  BY OthersStay DEF HoldInv, StartupTypes
<1> QED
  BY <1>1 DEF HoldInv, StartupTypes, Names

LEMMA TakingHolds ==
  ASSUME HoldInv, NEW p \in Process, Recover(p) \/ Generate(p)
  PROVE  HoldInv'
<1> USE DEF NotYet, Looking, Resuming, Beginning, Reserving, Bound, InLoop, Later, Leaving, Holding, Released,
            Journaling, Unwinding
<1>0. /\ WorldTypes /\ starts \in [Process -> Start] /\ starts[p] \in Start /\ Placed(starts[p])
      /\ starts[p].generation \in Id /\ starts[p].allocation \in Id /\ Copy(p) \in Journal
      /\ starts[p].held \in SUBSET Resources /\ starts[p].todo \in SUBSET Resources
      /\ Copy(p).allocation \in Id /\ Copy(p).pending \in SUBSET Resources
      /\ journal.status # "none" => journal.generation \in Process
      /\ starts[p].copy = Copy(p) /\ StartupTypes /\ journal \in Journal
  BY Here DEF Copy, HoldInv
<1>1. UNCHANGED <<journal, owner, service, strays, endpoints, records, history>> /\ starts[p].at \in {"recover", "generate"}
  BY DEF Recover, Generate, At
<1>2. CASE Fails(p) /\ UNCHANGED <<generations, active>>
  <2>1. "undo" \in Places /\ {} \in SUBSET Resources
    BY DEF Places
  <2>2. PICK r \in Start : /\ Becomes(p, r) /\ r.at = "undo" /\ r.recovering = starts[p].recovering
                           /\ SameCopy(p, r) /\ SameGeneration(p, r)
    BY <1>0, <1>2, <2>1, UndoesTo DEF Undoes, Fails
  <2>3. WorldTypes'
    BY <1>0, <1>1, <1>2 DEF WorldTypes, endpoints, records, history, undoings
  <2>4. Placed(r)
    BY <1>0, <1>1, <2>2 DEF Placed, SameCopy, SameGeneration
  <2> QED
    BY <1>0, <1>1, <1>2, <2>2, <2>3, <2>4, QuietHolds DEF history, undoings
<1>3. ASSUME NEW g \in Process, Taken(p, g, "noteGeneration"), usurped \/ \A q \in Process : ~HasGeneration(q)
      PROVE  HoldInv'
  <2>1. "noteGeneration" \in Places
    BY DEF Places
  <2>2. PICK r \in Start :
           /\ Becomes(p, r) /\ r.at = "noteGeneration" /\ r.generation = g /\ SameCopy(p, r) /\ SameTodo(p, r)
    BY <1>0, <1>3, <2>1, TakenTo
  <2>3. /\ generations' \in [Process -> [phase : Phases, pid : Id]] /\ active' = g
        /\ generations'[g].phase = "starting" /\ generations'[g].pid = p
    BY <1>0, <1>3, <2>1, TakenIs
  <2>4. WorldTypes'
    BY <1>0, <1>1, <2>3 DEF WorldTypes, endpoints, records, history, undoings, Id
  <2>5. Placed(r)
    BY <1>0, <1>1, <2>2 DEF Placed, SameCopy, SameTodo
  <2>6. StartupTypes' /\ Names' /\ starts'[p] = r /\ \A q \in Process : q # p => starts'[q] = starts[q]
    BY <1>1, <2>2, <2>4, <2>5, NamesKept
  <2>7. ASSUME ~usurped PROVE Authority'
    <3>1. ASSUME NEW q \in Process, HasGeneration(q)' PROVE q = p
      <4>1. CASE q # p
        BY <1>1, <1>3, <2>6, <2>7, <3>1, <4>1 DEF HasGeneration, history, undoings
      <4> QED
        BY <4>1
    <3> QED
      BY <2>2, <2>3, <2>6, <3>1 DEF Authority
  <2> QED
    BY <1>1, <2>6, <2>7 DEF HoldInv, history, undoings
<1>4. CASE Recover(p) /\ Taken(p, Copy(p).generation, "noteGeneration")
  <2>1. Copy(p).generation \in Process
    BY <1>0, <1>4 DEF Recover, At, Placed
  <2>2. CASE ~(active = Copy(p).generation /\ ~Alive(generations[Copy(p).generation].pid))
    <3>1. Fails(p) /\ UNCHANGED <<generations, active>>
      BY <1>4, <2>2 DEF Recover
    <3> QED
      BY <1>2, <3>1
  <2>3. CASE active = Copy(p).generation /\ ~Alive(generations[Copy(p).generation].pid)
    <3>1. ~usurped => \A q \in Process : ~HasGeneration(q)
      BY <2>3, ProcessAssumption DEF HoldInv, Authority, HasGeneration, Alive
    <3> QED
      BY <1>3, <1>4, <2>1, <3>1
  <2> QED
    BY <2>2, <2>3
<1>5. CASE Generate(p) /\ WorkspaceFree
  <2>1. Taken(p, p, "noteGeneration")
    BY <1>5 DEF Generate
  <2>2. ~usurped => \A q \in Process : ~HasGeneration(q)
    BY <1>5, ProcessAssumption DEF HoldInv, Authority, HasGeneration, Alive, WorkspaceFree
  <2> QED
    BY <1>3, <2>1, <2>2
<1>6. CASE Generate(p) /\ ~WorkspaceFree
  BY <1>2, <1>6 DEF Generate
<1>7. CASE Recover(p) /\ ~Taken(p, Copy(p).generation, "noteGeneration")
  BY <1>2, <1>7 DEF Recover
<1> QED
  BY <1>4, <1>5, <1>6, <1>7

(* What a step that takes, runs or ends a generation must show of the types. *)
LEMMA WorldRetyped ==
  ASSUME WorldTypes, generations' \in [Process -> [phase : Phases, pid : Id]], active' \in Id,
         owner' \in [generation : Id, pid : Id, allocation : Id],
         UNCHANGED <<journal, service, reservations, plan, instance, instances, strays, dead, undoings, spent>>
  PROVE  WorldTypes'
BY DEF WorldTypes, undoings

(* The service it started does not run: the start does not come to publish itself. *)
LEMMA UnreadyHolds ==
  ASSUME HoldInv, NEW p \in Process, Publish(p), Unready(p)
  PROVE  HoldInv'
<1> USE DEF NotYet, Looking, Resuming, Beginning, Reserving, Bound, InLoop, Later, Leaving, Holding, Released,
            Journaling, Unwinding
<1>0. /\ WorldTypes /\ starts \in [Process -> Start] /\ starts[p] \in Start /\ Placed(starts[p])
      /\ starts[p].generation \in Id /\ starts[p].allocation \in Id /\ Copy(p).pending \in SUBSET Resources
      /\ journal.status # "none" => journal.generation \in Process
      /\ StartupTypes
  BY Here DEF HoldInv
<1>1. starts[p].at = "publish"
  BY DEF Publish, At
<1>2. PICK r \in Start : /\ Becomes(p, r) /\ r.at = "undo" /\ r.recovering = starts[p].recovering
                        /\ SameCopy(p, r) /\ SameGeneration(p, r)
  BY <1>0, UndoesTo DEF Unready, Undoes, Places
<1>3. starts'[p].at = "undo"
  BY <1>0, <1>2, OthersStay
<1>4. UNCHANGED <<generations, active>>
  <2>1. ~Goes(p, "noteCommitted")
    BY <1>0, <1>3, GoesTo, OthersStay DEF Places
  <2> QED
    BY <2>1 DEF Publish
<1>5. WorldTypes'
  <2>1. UNCHANGED <<journal, service, reservations, plan, instance, instances, strays, dead, undoings, spent>>
    BY DEF Publish, endpoints, records, history
  <2>2. owner' \in [generation : Id, pid : Id, allocation : Id]
    BY <1>0 DEF Publish, RowOf, Id
  <2>3. generations' \in [Process -> [phase : Phases, pid : Id]] /\ active' \in Id
    BY <1>0, <1>4 DEF WorldTypes
  <2> QED
    BY <1>0, <2>1, <2>2, <2>3, WorldRetyped
<1>6. Placed(r)
  BY <1>0, <1>1, <1>2 DEF Placed, SameCopy, SameGeneration
<1> QED
  BY <1>0, <1>1, <1>2, <1>4, <1>5, <1>6, QuietHolds DEF Publish, history, undoings

(* The generation of the process itself comes to run, or to stop. *)
LEMMA RunningHolds ==
  ASSUME HoldInv, NEW p \in Process, (Publish(p) /\ ~Unready(p)) \/ StopBegins(p)
  PROVE  HoldInv'
<1> USE DEF NotYet, Looking, Resuming, Beginning, Reserving, Bound, InLoop, Later, Leaving, Holding, Released,
            Journaling, Unwinding
<1>0. /\ WorldTypes /\ starts \in [Process -> Start] /\ starts[p] \in Start /\ Placed(starts[p])
      /\ starts[p].generation \in Id /\ starts[p].allocation \in Id /\ Copy(p) \in Journal
      /\ starts[p].held \in SUBSET Resources /\ starts[p].todo \in SUBSET Resources
      /\ Copy(p).allocation \in Id /\ Copy(p).pending \in SUBSET Resources
      /\ journal.status # "none" => journal.generation \in Process
      /\ starts[p].copy = Copy(p) /\ StartupTypes /\ journal \in Journal
  BY Here DEF Copy, HoldInv
<1>1. PICK phase \in {"running", "stopping"}, to \in {"noteCommitted", "stopServices"} :
        /\ generations' = [generations EXCEPT ![starts[p].generation].phase = phase]
        /\ active' \in {starts[p].generation, active} /\ (active # "none" => active' = active)
        /\ Goes(p, to) /\ (StopBegins(p) => to = "stopServices")
  <2>1. CASE Publish(p)
    <3>1. StopBegins(p) => FALSE
      BY <2>1 DEF Publish, StopBegins, Stopping, At
    <3> QED
      BY <2>1, <3>1 DEF Publish, StopBegins, Stopping, At
  <2>2. CASE StopBegins(p)
    BY <2>2 DEF StopBegins, Stopping
  <2> QED
    BY <2>1, <2>2
<1>2. /\ UNCHANGED <<journal, service, strays, endpoints, records, history>>
      /\ owner' \in [generation : Id, pid : Id, allocation : Id]
  BY <1>0 DEF Publish, StopBegins, RowOf, WorldTypes, Id
<1>3. PICK r \in Start : /\ Becomes(p, r) /\ r.at = to
                         /\ SameCopy(p, r) /\ SameGeneration(p, r) /\ SameTodo(p, r)
  BY <1>0, <1>1, GoesTo DEF Places
<1> DEFINE g == starts[p].generation
<1>4. starts[p].at \in {"publish", "running"} /\ p \notin dead /\ g \in Process
  BY <1>0 DEF Publish, StopBegins, Stopping, At, Placed
<1>5. /\ generations' \in [Process -> [phase : Phases, pid : Id]]
      /\ generations'[g].phase \in {"running", "stopping"} /\ generations'[g].pid = generations[g].pid
      /\ active' \in Id /\ (active # "none" => active' = active)
  BY <1>0, <1>1, <1>4 DEF WorldTypes, Phases, Id
<1>6. WorldTypes'
  <2>1. UNCHANGED <<journal, service, reservations, plan, instance, instances, strays, dead, undoings, spent>>
    BY <1>2 DEF endpoints, records, history, undoings
  <2>2. /\ generations' \in [Process -> [phase : Phases, pid : Id]] /\ active' \in Id
        /\ owner' \in [generation : Id, pid : Id, allocation : Id]
    BY <1>2, <1>5
  <2> QED
    BY <1>0, <2>1, <2>2, WorldRetyped
<1>7. Placed(r)
  <2>1. CASE Publish(p)
    <3>1. to \in {"noteCommitted", "stopServices"}
      OBVIOUS
    <3>2. starts[p].at = "publish" /\ ~starts[p].recovering /\ Copy(p).generation \in Process
      BY <1>0, <2>1 DEF Publish, At, Placed
    <3> QED
      BY <1>0, <1>3, <1>4, <3>2 DEF Placed, SameCopy, SameGeneration, SameTodo
  <2>2. CASE StopBegins(p)
    <3>1. to = "stopServices"
      BY <1>1, <2>2
    <3> QED
      BY <1>0, <1>3, <1>4, <3>1 DEF Placed, SameCopy, SameGeneration, SameTodo
  <2> QED
    BY <2>1, <2>2
<1>8. StartupTypes' /\ Names' /\ starts'[p] = r /\ \A q \in Process : q # p => starts'[q] = starts[q]
  BY <1>2, <1>3, <1>6, <1>7, NamesKept
<1>9. ASSUME Authority PROVE Authority'
  <2>1. HasGeneration(p) /\ g # "none"
    BY <1>4, ProcessAssumption DEF HasGeneration
  <2>2. ASSUME NEW q \in Process, HasGeneration(q)'
        PROVE  starts'[q].generation = g /\ q = p
    <3>1. HasGeneration(q) /\ starts'[q].generation = starts[q].generation
      BY <1>2, <1>3, <1>8, <2>1, <2>2 DEF HasGeneration, SameGeneration, history, undoings
    <3> QED
      BY <1>9, <2>1, <3>1 DEF Authority
  <2>3. active = g /\ generations[g].pid = p
    BY <1>9, <2>1 DEF Authority
  <2> HIDE DEF g
  <2>4. active' = g
    BY <1>5, <2>1, <2>3
  <2>5. generations'[g].pid = p /\ generations'[g].phase \in {"running", "stopping"}
    BY <1>5, <2>3
  <2> QED
    BY <1>4, <2>2, <2>4, <2>5 DEF Authority
<1> QED
  BY <1>2, <1>8, <1>9 DEF HoldInv, history, undoings

(* A generation ends: that of a runtime that stops, or the one that is undone. *)
LEMMA EndingHolds ==
  ASSUME HoldInv, NEW p \in Process, Stopped(p) \/ UndoGeneration(p)
  PROVE  HoldInv'
<1> USE DEF NotYet, Looking, Resuming, Beginning, Reserving, Bound, InLoop, Later, Leaving, Holding, Released,
            Journaling, Unwinding
<1>0. /\ WorldTypes /\ starts \in [Process -> Start] /\ starts[p] \in Start /\ Placed(starts[p])
      /\ starts[p].generation \in Id /\ starts[p].allocation \in Id /\ Copy(p) \in Journal
      /\ starts[p].held \in SUBSET Resources /\ starts[p].todo \in SUBSET Resources
      /\ Copy(p).allocation \in Id /\ Copy(p).pending \in SUBSET Resources
      /\ journal.status # "none" => journal.generation \in Process
      /\ starts[p].copy = Copy(p) /\ StartupTypes /\ journal \in Journal
  BY Here DEF Copy, HoldInv
<1>1. PICK g \in Id, phase \in {"stopped", "failed"} :
        Ended(g, phase) /\ (Stopped(p) => g = starts[p].generation) /\ (UndoGeneration(p) => g = Undone(p))
  <2>1. Copy(p).generation \in Id
    BY <1>0 DEF Journal
  <2>2. CASE Stopped(p)
    <3>1. ~UndoGeneration(p)
      BY <2>2 DEF Stopped, Stopping, At, UndoGeneration, Undoing
    <3>2. Ended(starts[p].generation, "stopped")
      BY <2>2 DEF Stopped
    <3> QED
      BY <1>0, <3>1, <3>2
  <2>3. CASE UndoGeneration(p)
    <3>1. ~Stopped(p)
      BY <2>3 DEF Stopped, Stopping, At, UndoGeneration, Undoing
    <3>2. Ended(Undone(p), "failed") /\ Undone(p) \in Id
      BY <2>1, <2>3 DEF UndoGeneration, Undone
    <3> QED
      BY <3>1, <3>2
  <2> QED
    BY <2>2, <2>3
<1>2. PICK to \in {"release", "undone", "undoneLoop"} :
        /\ Goes(p, to) /\ (Stopped(p) => starts[p].at = "stopped")
        /\ UndoGeneration(p) => starts[p].at \in {"undo", "undoLoop"}
        /\ to = "undone" => starts[p].at = "undo"
        /\ to = "undoneLoop" => starts[p].at = "undoLoop"
        /\ to = "release" => starts[p].at = "stopped"
  BY DEF Stopped, Stopping, At, UndoGeneration, Undoing, NotesUndoing
<1>3. /\ UNCHANGED <<journal, owner, service, strays, endpoints, records, dead, evicted, abandoned, overlooked,
                     spent>>
      /\ usurped' \in BOOLEAN /\ (usurped => usurped')
  <2>1. CASE Stopped(p)
    BY <1>0, <2>1 DEF Stopped, history, undoings, WorldTypes
  <2>2. CASE UndoGeneration(p)
    BY <1>0, <2>2 DEF UndoGeneration, WorldTypes, HasGeneration
  <2> QED
    BY <2>1, <2>2
<1>4. PICK r \in Start : /\ Becomes(p, r) /\ r.at = to
                         /\ SameCopy(p, r) /\ SameGeneration(p, r) /\ SameTodo(p, r)
  BY <1>0, <1>2, GoesTo DEF Places
<1>5. /\ generations' \in [Process -> [phase : Phases, pid : Id]] /\ active' \in Id
      /\ \A h \in Process : h # g => generations'[h] = generations[h]
      /\ active # g => active' = active
  <2>1. generations \in [Process -> [phase : Phases, pid : Id]] /\ active \in Id
    BY <1>0 DEF WorldTypes
  <2>2. generations' = [generations EXCEPT ![g].phase = phase] /\ active' = IF active = g THEN "none" ELSE active
    BY <1>1 DEF Ended
  <2>3. phase \in Phases /\ "none" \in Id
    BY DEF Phases, Id
  <2>4. CASE g \in Process
    BY <2>1, <2>2, <2>3, <2>4
  <2>5. CASE g \notin Process
    BY <2>1, <2>2, <2>3, <2>5
  <2> QED
    BY <2>4, <2>5
<1>6. WorldTypes'
  BY <1>0, <1>3, <1>5 DEF WorldTypes, endpoints, records
<1>7. Placed(r)
  BY <1>0, <1>2, <1>4 DEF Placed, SameCopy, SameGeneration, SameTodo
<1>8. StartupTypes' /\ Names' /\ starts'[p] = r /\ \A q \in Process : q # p => starts'[q] = starts[q]
  BY <1>3, <1>4, <1>6, <1>7, NamesKept
<1>9. ASSUME ~usurped', Authority PROVE Authority'
  <2>1. ASSUME NEW q \in Process, HasGeneration(q)'
        PROVE  HasGeneration(q) /\ starts'[q] = starts[q] /\ starts[q].generation # g
    <3>1. q # p
      BY <1>2, <1>4, <1>8, <2>1 DEF HasGeneration
    <3>2. HasGeneration(q) /\ starts'[q] = starts[q]
      BY <1>3, <1>8, <2>1, <3>1 DEF HasGeneration
    <3>3. CASE UndoGeneration(p)
      BY <1>1, <1>9, <3>1, <3>2, <3>3 DEF UndoGeneration
    <3>4. CASE Stopped(p)
      <4>1. HasGeneration(p)
        BY <1>0, <3>4, ProcessAssumption DEF Stopped, Stopping, At, Placed, HasGeneration
      <4> QED
        BY <1>1, <1>9, <3>1, <3>2, <3>4, <4>1 DEF Authority
    <3> QED
      BY <3>2, <3>3, <3>4
  <2> QED
    BY <1>5, <1>9, <2>1 DEF Authority
<1> QED
  BY <1>0, <1>3, <1>8, <1>9 DEF HoldInv

LEMMA CrashHolds ==
  ASSUME HoldInv, NEW p \in Process, Crash(p)
  PROVE  HoldInv'
<1>0. WorldTypes
  BY DEF HoldInv, StartupTypes
<1>1. WorldTypes'
  <2>1. service' \in [generation : Id, allocation : Id, up : BOOLEAN, adopted : BOOLEAN]
    BY <1>0 DEF WorldTypes, Crash
  <2>2. spent' \in [crashes : Nat, faults : Nat, overlaps : Nat] /\ dead' \subseteq Process
    BY <1>0 DEF WorldTypes, Crash
  <2> QED
    BY <1>0, <2>1, <2>2 DEF WorldTypes, Crash, endpoints, records, undoings
<1>2. Names' /\ starts' \in [Process -> Start]
  BY DEF HoldInv, StartupTypes, Names, Crash
<1>3. Authority => Authority'
  BY DEF Authority, HasGeneration, Crash
<1> QED
  BY <1>1, <1>2, <1>3 DEF HoldInv, StartupTypes, Crash, undoings

LEMMA InitHolds == StartupInit => HoldInv
<1> SUFFICES ASSUME StartupInit PROVE HoldInv
  OBVIOUS
<1>1. NoJournal \in Journal
  BY DEF NoJournal, Journal, Id
<1>2. NoStart \in Start
  BY <1>1 DEF NoStart, Start, Places, Id
<1>3. WorldTypes
  BY <1>1 DEF StartupInit, WorldTypes, Phases, Id, NoInstance
<1>4. Names
  BY DEF StartupInit, Names, Placed, NoStart, NoJournal, Holding, Journaling, Bound, InLoop, Later, Leaving,
         Looking, Resuming, Beginning, Unwinding
<1>5. Authority
  BY DEF StartupInit, Authority, HasGeneration, NoStart
<1> QED
  BY <1>2, <1>3, <1>4, <1>5 DEF StartupInit, HoldInv, StartupTypes

LEMMA StepHolds == HoldInv /\ [StartupNext]_startupVars => HoldInv'
<1> SUFFICES ASSUME HoldInv, [StartupNext]_startupVars PROVE HoldInv'
  OBVIOUS
<1>1. CASE UNCHANGED startupVars
  BY <1>1 DEF startupVars, HoldInv, StartupTypes, WorldTypes, Names, Authority, HasGeneration
<1>2. ASSUME NEW p \in Process,
             \/ Inspect(p) \/ Rollback(p) \/ Cleanup(p) \/ Cleaned(p) \/ Resume(p) \/ Prepare(p) \/ Recover(p)
             \/ Begin(p) \/ NoteAdoption(p) \/ Generate(p) \/ NoteGeneration(p) \/ Reserve(p) \/ ReservePlan(p)
             \/ Claim(p) \/ NoteAllocation(p) \/ Own(p) \/ NoteOwnership(p) \/ Rebind(p) \/ Intend(p)
             \/ NothingToLaunch(p) \/ Rediscover(p) \/ Spawn(p) \/ Enrol(p) \/ Store(p) \/ Register(p)
             \/ RegisterHost(p) \/ NoteInstance(p)
             \/ Publish(p) \/ NoteCommitted(p) \/ Seal(p) \/ Fail(p) \/ SealFails(p)
             \/ UndoService(p) \/ UndoInstance(p) \/ UndoOwnership(p) \/ UndoAllocation(p) \/ UndoGeneration(p)
             \/ NoteUndone(p) \/ UndoFails(p) \/ Settle(p)
             \/ StopBegins(p) \/ StopServices(p) \/ StopInstance(p) \/ Disown(p) \/ Stopped(p) \/ Release(p)
             \/ Crash(p)
      PROVE  HoldInv'
  BY <1>2, GoingHolds, WritingHolds, LookingHolds, AcquiringHolds, UndoingHolds, TakingHolds, RunningHolds,
     UnreadyHolds, EndingHolds, CrashHolds
<1> QED
  BY <1>1, <1>2 DEF StartupNext

(* The inductive invariant of who holds the workspace, for any processes and troubles, overlapping
   starts included. *)
THEOREM HoldIsInvariant == StartupSpec => []HoldInv
<1>1. StartupInit => HoldInv
  BY InitHolds
<1>2. HoldInv /\ [StartupNext]_startupVars => HoldInv'
  BY StepHolds
<1> QED
  BY <1>1, <1>2, PTL DEF StartupSpec

(* Two processes never both hold the workspace, however their starts, rollbacks, stops and crashes
   overlap, unless a rollback ended the generation of a process that lived: what
   beginRuntimeGeneration and recoverRuntimeGeneration look at is enough. *)
THEOREM RuntimeIsAlone == StartupSpec => []OneActiveRuntime
<1>1. HoldInv => OneActiveRuntime
  BY DEF HoldInv, Authority, OneActiveRuntime
<1> QED
  BY <1>1, HoldIsInvariant, PTL

-----------------------------------------------------------------------------
(***************************************************************************)
(* What the journal records, as long as no start begins during another's.  *)
(***************************************************************************)
Phase(g) == generations[g].phase
OwnerLives == owner.generation = journal.generation /\ Alive(owner.pid)

(* One process at a time is at its start, and its copy of the journal is the journal. *)
OneStart ==
  /\ \A p, q \in Process : Starting(p) /\ Starting(q) => p = q
  /\ \A p \in Process : Starting(p) => Copy(p) = journal

(* What a process p at its start with record r has written before it came to its place. *)
WrittenBefore(p, r) ==
  /\ r.at \in {"rollback"} \cup Resuming \cup Beginning \cup Bound \cup Unwinding
       => ~journal.committed /\ Interrupted
  /\ r.at \in {"cleanup", "cleaning", "seal"} => journal.committed
  /\ r.at \in Beginning => journal.generation = p
  /\ r.at \in Bound \cup {"seal"} => r.generation = journal.generation /\ Phase(journal.generation) # "none"
  /\ r.at \in InLoop \cup Later => "generation" \in journal.done \cap journal.pending
  /\ r.at \in {"reserve", "reservePlan"} => journal.allocation = "none"
  /\ r.at \in {"own", "noteOwnership"} => "allocation" \in journal.pending
  /\ r.at \in Later => "ownership" \in journal.pending
  /\ r.at \in {"noteOwnership"} \cup Later => owner.generation # "none"
  /\ r.at = "noteOwnership" => "ownership" \in r.held
  /\ r.at \in {"noteCommitted", "seal"} => Phase(journal.generation) \notin {"starting", "failed"}
  /\ r.at \in {"rollback", "noteGeneration"} \cup Resuming \cup Beginning \cup Reserving => ~OwnerLives

(* What is left to undo, and what is undone and not noted yet. *)
First(todo, s) ==
  \E i \in 1..5 : Order[i] = s /\ s \in todo /\ \A k \in 1..i-1 : Order[k] \notin todo

Unwound(r) ==
  /\ r.at \in {"undo", "undone"} /\ OwnerLives => "ownership" \in journal.pending
  /\ r.at \in {"undoLoop", "undoneLoop"} /\ OwnerLives /\ "ownership" \notin journal.pending
       => "ownership" \in r.todo \/ "allocation" \notin r.todo
  /\ r.at \in {"undone", "undoneLoop"} =>
       /\ First(r.todo, "ownership") => ~OwnerLives
       /\ First(r.todo, "allocation") => ~plan.reserved
       /\ First(r.todo, "generation") => Phase(journal.generation) \notin {"running", "stopping"}

(* A start that has not written its journal yet has left no trace. *)
Early(r) == r.at \in {"idle", "again", "begin"} \cup Looking \/ r.recovering
Traceless(p) ==
  /\ p \notin {journal.generation, service.generation, owner.generation}
  /\ Phase(p) = "none"
  /\ \A q \in Process : starts[q].generation # p

(* The generation of a runtime that runs or stops is another than the journal's, or committed. *)
Committed(p) ==
  p \notin dead /\ starts[p].at \in {"running"} \cup Leaving /\ starts[p].generation = journal.generation
    => journal.committed

InPlace(p) ==
  /\ Starting(p) => WrittenBefore(p, starts[p]) /\ Unwound(starts[p])
  /\ Early(starts[p]) => Traceless(p)
  /\ Committed(p)

Starts == OneStart /\ \A p \in Process : InPlace(p)

(* What a generation that is not committed has, the journal says. *)
Outcomes ==
  /\ journal.committed => "generation" \in journal.done /\ Phase(journal.generation) \notin {"starting", "failed"}
  /\ journal.status = "rolled_back" => ~journal.committed /\ journal.pending = {}

OwnerNoted ==
  /\ ~journal.committed /\ OwnerLives => journal.pending \cap {"ownership", "allocation"} # {}
  /\ owner.generation # "none" => Phase(owner.generation) # "none"
  /\ \A g \in Process : instances[g].running => owner.generation # "none"

GenerationNoted ==
  journal.status # "none" /\ ~journal.committed /\ Phase(journal.generation) \in {"running", "stopping"}
    => "generation" \in journal.pending

PlanNoted ==
  /\ plan.reserved => plan.allocation # "none"
  /\ ~journal.committed /\ plan.reserved /\ plan.allocation = journal.allocation
       => "allocation" \in journal.pending

AllNoted == Outcomes /\ OwnerNoted /\ GenerationNoted /\ PlanNoted

(* A journal whose start is rolled back or resumed, and a service that it knows of. *)
Undecided == Interrupted /\ ~journal.committed
Known == Undecided /\ "service" \in journal.pending /\ Served(journal.generation) /\ journal.generation \notin evicted

(* As long as a process that a generation launched lives, its journal says that it must be stopped. *)
StopNoted(g) ==
  /\ g = journal.generation /\ ~journal.committed => "service" \in journal.pending
  /\ Phase(g) \in {"starting", "failed"} => g = journal.generation /\ Undecided

(* What is noted before a launch, and what a process at its start with record r knows of the service. *)
Knows(r) ==
  /\ r.at \in {"launch", "enrol"} => "service" \in journal.pending
  /\ r.at \in Unwinding /\ "service" \in r.todo => "service" \in journal.pending
  /\ r.at \in {"undone", "undoneLoop"} /\ First(r.todo, "service") => ~Unstopped(journal.generation)
  /\ r.at = "noteAdoption" => r.adopts /\ "service" \notin journal.pending
  /\ Undecided /\ r.at # "again" /\ "adoption" \in journal.done => r.adopts
  /\ r.at = "services" /\ r.adopts => r.runs # "none"
  /\ Known => r.runs # "none"

StraysWait == \A q \in strays : starts[q].at = "enrol"

ServiceInv ==
  /\ StraysWait
  /\ \A g \in Process : Unstopped(g) => StopNoted(g)
  /\ \A q \in Process : Starting(q) => Knows(starts[q])
  /\ \A q \in Process : "service" \notin starts[q].held
  /\ "service" \in journal.pending => journal.started /\ "adoption" \notin journal.done
  /\ abandoned \subseteq evicted /\ overlooked \subseteq dead

RollbackInv == HoldInv /\ (spent.overlaps = 0 => Starts /\ AllNoted /\ ServiceInv)

-----------------------------------------------------------------------------
(* Steps of the process that is at its start *)

(* What the processes are, after a step of the one at its start that begins no new journal. *)
LEMMA StarterKeeps ==
  ASSUME HoldInv, Starts, NEW p \in Process, NEW r \in Start, Becomes(p, r),
         \A q \in Process : Starting(q) => q = p,
         r.at \in {"idle", "running", "done"} \cup Leaving \/ r.copy = journal',
         dead' = dead, journal'.generation = journal.generation,
         journal.committed => journal'.committed,
         service'.generation \in {service.generation, journal.generation},
         owner'.generation \in {owner.generation, journal.generation},
         \A h \in Process : Phase(h)' # "none" => Phase(h) # "none" \/ h = journal.generation,
         r.generation \in {starts[p].generation, journal.generation},
         Early(r) => Early(starts[p]),
         r.at = "running" => journal'.committed, r.at \notin Leaving,
         r.at \notin {"idle", "running", "done"} => WrittenBefore(p, r)' /\ Unwound(r)'
  PROVE  Starts'
<1>1. /\ starts' \in [Process -> Start] /\ starts'[p] = r
      /\ \A q \in Process : q # p => starts'[q] = starts[q]
  BY OthersStay DEF HoldInv, StartupTypes
<1>2. ASSUME NEW q \in Process, Starting(q)' PROVE q = p
  BY <1>1, <1>2 DEF Starting
<1>3. OneStart'
  <2>1. Starting(p)' => Copy(p)' = journal'
    BY <1>1 DEF Starting, Copy
  <2> QED
    BY <1>2, <2>1 DEF OneStart
<1>4. ASSUME NEW q \in Process PROVE (Starting(q) => WrittenBefore(q, starts[q]) /\ Unwound(starts[q]))'
  <2>1. CASE Starting(q)'
    <3>1. q = p /\ r.at \notin {"idle", "running", "done"}
      BY <1>1, <1>2, <2>1 DEF Starting
    <3>2. WrittenBefore(p, r)' /\ Unwound(r)'
      BY <3>1
    <3> QED
      BY <1>1, <3>1, <3>2 DEF WrittenBefore, Unwound
  <2> QED
    BY <2>1
<1>5. ASSUME NEW q \in Process, Early(starts[q])' PROVE Traceless(q)'
  <2>1. Early(starts[q])
    BY <1>1, <1>5 DEF Early
  <2>2. Traceless(q)
    BY <2>1 DEF Starts, InPlace
  <2>3. q \notin {journal'.generation, service'.generation, owner'.generation}
    BY <2>2 DEF Traceless
  <2>4. Phase(q)' = "none"
    BY <2>2 DEF Traceless
  <2>5. ASSUME NEW h \in Process PROVE starts'[h].generation # q
    BY <1>1, <2>2 DEF Traceless
  <2> QED
    BY <2>3, <2>4, <2>5 DEF Traceless
<1>6. ASSUME NEW q \in Process PROVE Committed(q)'
  <2>1. CASE q = p
    BY <1>1, <2>1 DEF Committed
  <2>2. CASE q # p
    BY <1>1, <2>2 DEF Committed, Starts, InPlace
  <2> QED
    BY <2>1, <2>2
<1> QED
  BY <1>3, <1>4, <1>5, <1>6 DEF Starts, InPlace

LEMMA Stands ==
  ASSUME HoldInv, Starts, NEW p \in Process, Starting(p)
  PROVE  /\ StartupTypes /\ journal \in Journal /\ starts \in [Process -> Start] /\ starts[p] \in Start
         /\ Placed(starts[p]) /\ Copy(p) = journal /\ starts[p].copy = journal
         /\ WrittenBefore(p, starts[p]) /\ Unwound(starts[p])
         /\ \A q \in Process : Starting(q) => q = p
BY Here DEF HoldInv, Starts, InPlace, OneStart, Copy

(* What the journal notes does not depend on more than these. *)
LEMMA NotesStay ==
  ASSUME AllNoted, UNCHANGED <<journal, generations, owner, service, plan, dead>>,
         \A g \in Process : instances'[g].running => instances[g].running \/ owner.generation # "none"
  PROVE  AllNoted'
BY DEF AllNoted, Outcomes, OwnerNoted, GenerationNoted, PlanNoted, Interrupted, Phase,
       OwnerLives, Alive

(* A journal that is open, and in which more is noted. *)
Grows ==
  /\ journal'.generation = journal.generation /\ journal'.committed = journal.committed
  /\ journal'.status \in {"active", "blocked"} /\ (Interrupted \/ journal.committed)
  /\ journal.pending \subseteq journal'.pending /\ journal.done \subseteq journal'.done
  /\ journal'.allocation = journal.allocation \/ "allocation" \in journal'.pending

LEMMA NotesGrow ==
  ASSUME AllNoted, Grows, UNCHANGED <<generations, owner, service, plan, instances, dead>>
  PROVE  AllNoted'
<1>1. Outcomes'
  BY DEF AllNoted, Grows, Outcomes, Phase
<1>2. OwnerNoted'
  BY DEF AllNoted, Grows, OwnerNoted, OwnerLives, Alive, Phase
<1>3. GenerationNoted'
  BY DEF AllNoted, Grows, GenerationNoted, Phase, Interrupted
<1>4. PlanNoted'
  BY DEF AllNoted, Grows, PlanNoted
<1> QED
  BY <1>1, <1>2, <1>3, <1>4 DEF AllNoted

(* A step of the start that only notes something in the journal. *)
LEMMA NotingKeeps ==
  ASSUME HoldInv, Starts, AllNoted, NEW p \in Process, Starting(p), NEW r \in Start, Becomes(p, r),
         r.copy = journal', Grows, SameGeneration(p, r), Early(r) => Early(starts[p]),
         UNCHANGED <<generations, owner, service, plan, instances, dead>>,
         r.at \notin {"idle", "running", "done"} \cup Leaving, WrittenBefore(p, r)', Unwound(r)'
  PROVE  Starts' /\ AllNoted'
<1>1. \A q \in Process : Starting(q) => q = p
  BY Stands
<1>2. AllNoted'
  BY NotesGrow
<1>3. Starts'
  BY <1>1, StarterKeeps DEF Grows, SameGeneration, Phase
<1> QED
  BY <1>2, <1>3

(* A step of the start that none of the records tells of. *)
LEMMA SilentKeeps ==
  ASSUME HoldInv, Starts, AllNoted, NEW p \in Process, Starting(p), NEW r \in Start, Becomes(p, r),
         SameCopy(p, r), SameGeneration(p, r), Early(r) => Early(starts[p]),
         UNCHANGED <<journal, generations, owner, service, plan, dead>>,
         \A g \in Process : instances'[g].running => instances[g].running \/ owner.generation # "none",
         r.at \notin {"running"} \cup Leaving,
         r.at \notin {"idle", "running", "done"} => WrittenBefore(p, r) /\ Unwound(r)
  PROVE  Starts' /\ AllNoted'
<1>1. (\A q \in Process : Starting(q) => q = p) /\ starts[p].copy = journal
  BY Stands
<1>2. AllNoted'
  BY NotesStay
<1>3. r.at \notin {"idle", "running", "done"} => WrittenBefore(p, r)' /\ Unwound(r)'
  BY DEF WrittenBefore, Unwound, Interrupted, Phase, OwnerLives, Alive
<1>4. Starts'
  BY <1>1, <1>3, StarterKeeps DEF SameCopy, SameGeneration, Phase
<1> QED
  BY <1>2, <1>4

(* The steps of a start that only move it, or write a record that the journal does not tell of. *)
LEMMA SilentMoves ==
  ASSUME HoldInv, Starts, AllNoted, NEW p \in Process,
         NothingToLaunch(p) \/ Spawn(p) \/ Store(p) \/ Register(p) \/ RegisterHost(p) \/ Reserve(p)
  PROVE  Starts' /\ AllNoted'
<1> USE DEF NotYet, Looking, Resuming, Beginning, Reserving, Bound, InLoop, Later, Leaving, Unwinding
<1>0. Starting(p)
  BY DEF NothingToLaunch, Spawn, Store, Register, RegisterHost, Reserve, At, Starting
<1>h. /\ StartupTypes /\ journal \in Journal /\ starts \in [Process -> Start] /\ starts[p] \in Start
      /\ Placed(starts[p]) /\ Copy(p) = journal /\ starts[p].copy = journal
      /\ WrittenBefore(p, starts[p]) /\ Unwound(starts[p])
      /\ \A q \in Process : Starting(q) => q = p
  BY <1>0, Stands
<1>1. CASE NothingToLaunch(p)
  <2>1. PICK r \in Start : /\ Becomes(p, r) /\ r.at = "register"
                           /\ SameCopy(p, r) /\ SameGeneration(p, r) /\ SameTodo(p, r) /\ SameHeld(p, r)
    BY <1>h, <1>1, GoesTo DEF NothingToLaunch, Places
  <2>2. WrittenBefore(p, r) /\ Unwound(r)
    BY <1>h, <1>1, <2>1 DEF NothingToLaunch, At, WrittenBefore, Unwound, SameGeneration, SameHeld
  <2>3. \A g \in Process : instances'[g].running => instances[g].running
    BY <1>1 DEF NothingToLaunch, records
  <2>4. ~Early(r) /\ UNCHANGED <<journal, generations, owner, service, plan, dead>>
    BY <1>h, <1>1, <2>1 DEF NothingToLaunch, registries, endpoints, records, history, undoings, At, Placed, Early, SameTodo
  <2> QED
    BY <1>0, <2>1, <2>2, <2>3, <2>4, SilentKeeps
<1>2. CASE Register(p)
  <2>1. PICK r \in Start : /\ Becomes(p, r) /\ r.at = "registerHost"
                           /\ SameCopy(p, r) /\ SameGeneration(p, r) /\ SameTodo(p, r) /\ SameHeld(p, r)
    BY <1>h, <1>2, GoesTo DEF Register, Places
  <2>2. WrittenBefore(p, r) /\ Unwound(r)
    BY <1>h, <1>2, <2>1 DEF Register, At, WrittenBefore, Unwound, SameGeneration, SameHeld
  <2>3. \A g \in Process : instances'[g].running => instances[g].running
    BY <1>2 DEF Register, records
  <2>4. ~Early(r) /\ UNCHANGED <<journal, generations, owner, service, plan, dead>>
    BY <1>h, <1>2, <2>1 DEF Register, registries, endpoints, history, undoings, At, Placed, Early, SameTodo
  <2> QED
    BY <1>0, <2>1, <2>2, <2>3, <2>4, SilentKeeps
<1>3. CASE RegisterHost(p)
  <2>1. PICK r \in Start : /\ Becomes(p, r) /\ r.at = "noteInstance"
                           /\ SameCopy(p, r) /\ SameGeneration(p, r) /\ SameTodo(p, r) /\ SameHeld(p, r)
    BY <1>h, <1>3, GoesTo DEF RegisterHost, Places
  <2>2. WrittenBefore(p, r) /\ Unwound(r)
    BY <1>h, <1>3, <2>1 DEF RegisterHost, At, WrittenBefore, Unwound, SameGeneration, SameHeld
  <2>3. \A g \in Process : instances'[g].running => instances[g].running \/ owner.generation # "none"
    BY <1>h, <1>3 DEF RegisterHost, At, WrittenBefore
  <2>4. ~Early(r) /\ UNCHANGED <<journal, generations, owner, service, plan, dead>>
    BY <1>h, <1>3, <2>1 DEF RegisterHost, registries, endpoints, history, undoings, At, Placed, Early, SameTodo
  <2> QED
    BY <1>0, <2>1, <2>2, <2>3, <2>4, SilentKeeps
<1>4. CASE Reserve(p)
  <2>1. PICK r \in Start : /\ Becomes(p, r) /\ r.at = "reservePlan"
                           /\ SameCopy(p, r) /\ SameGeneration(p, r) /\ SameTodo(p, r) /\ SameHeld(p, r)
    BY <1>h, <1>4, GoesTo DEF Reserve, Places
  <2>2. WrittenBefore(p, r) /\ Unwound(r)
    BY <1>h, <1>4, <2>1 DEF Reserve, At, WrittenBefore, Unwound, SameGeneration, SameHeld
  <2>3. \A g \in Process : instances'[g].running => instances[g].running
    BY <1>4 DEF Reserve, records
  <2>4. ~Early(r) /\ UNCHANGED <<journal, generations, owner, service, plan, dead>>
    BY <1>h, <1>4, <2>1 DEF Reserve, registries, records, history, undoings, At, Placed, Early, SameTodo
  <2> QED
    BY <1>0, <2>1, <2>2, <2>3, <2>4, SilentKeeps
<1>5. CASE Spawn(p)
  <2>1. PICK r \in Start : /\ Becomes(p, r) /\ r.at = "enrol"
                           /\ SameCopy(p, r) /\ SameGeneration(p, r) /\ SameTodo(p, r) /\ SameHeld(p, r)
    BY <1>h, <1>5, GoesTo DEF Spawn, Places
  <2>2. WrittenBefore(p, r) /\ Unwound(r)
    BY <1>h, <1>5, <2>1 DEF Spawn, At, WrittenBefore, Unwound, SameGeneration, SameHeld
  <2>3. \A g \in Process : instances'[g].running => instances[g].running
    BY <1>5 DEF Spawn, records
  <2>4. ~Early(r) /\ UNCHANGED <<journal, generations, owner, service, plan, dead>>
    BY <1>h, <1>5, <2>1 DEF Spawn, registries, endpoints, history, undoings, At, Placed, Early, SameTodo
  <2> QED
    BY <1>0, <2>1, <2>2, <2>3, <2>4, SilentKeeps
<1>6. CASE Store(p)
  <2>1. PICK r \in Start : /\ Becomes(p, r) /\ r.at = "register"
                           /\ SameCopy(p, r) /\ SameGeneration(p, r) /\ SameTodo(p, r) /\ SameHeld(p, r)
    BY <1>h, <1>6, GoesTo DEF Store, Places
  <2>2. WrittenBefore(p, r) /\ Unwound(r)
    BY <1>h, <1>6, <2>1 DEF Store, At, WrittenBefore, Unwound, SameGeneration, SameHeld
  <2>3. \A g \in Process : instances'[g].running => instances[g].running
    BY <1>6 DEF Store, records
  <2>4. ~Early(r) /\ UNCHANGED <<journal, generations, owner, service, plan, dead>>
    BY <1>h, <1>6, <2>1 DEF Store, registries, endpoints, history, undoings, At, Placed, Early, SameTodo
  <2> QED
    BY <1>0, <2>1, <2>2, <2>3, <2>4, SilentKeeps
<1> QED
  BY <1>1, <1>2, <1>3, <1>4, <1>5, <1>6

(* A step that fails: what the process has the journal names, or the process itself. *)
LEMMA FailedKeeps ==
  ASSUME HoldInv, Starts, AllNoted, NEW p \in Process, Starting(p), NEW r \in Start, Becomes(p, r),
         r.at \in {"undo", "undoLoop"}, SameCopy(p, r), SameGeneration(p, r),
         r.recovering = starts[p].recovering,
         UNCHANGED <<journal, generations, owner, service, plan, dead, instances>>,
         starts[p].at \in Resuming \cup Beginning \cup Bound \cup Unwinding,
         \/ ~OwnerLives
         \/ r.at = "undo" /\ "ownership" \in journal.pending
         \/ r.at = "undoLoop" /\ (\/ "ownership" \in journal.pending \/ "ownership" \in r.todo
                                  \/ "allocation" \notin r.todo)
  PROVE  Starts' /\ AllNoted'
<1>1. WrittenBefore(p, starts[p]) /\ starts[p].at \notin Leaving
  BY Stands DEF Starting
<1>2. WrittenBefore(p, r)
  BY <1>1 DEF WrittenBefore, Looking, Resuming, Beginning, Reserving, Bound, InLoop, Later, Unwinding
<1>3. Unwound(r)
  BY DEF Unwound
<1>4. Early(r) => Early(starts[p])
  BY DEF Early, Looking
<1>5. r.at \notin {"running"} \cup Leaving
  BY DEF Leaving
<1> QED
  BY <1>2, <1>3, <1>4, <1>5, SilentKeeps

LEMMA FailingKeeps ==
  ASSUME HoldInv, Starts, AllNoted, NEW p \in Process, Fail(p)
  PROVE  Starts' /\ AllNoted'
<1> USE DEF NotYet, Looking, Resuming, Beginning, Reserving, Bound, InLoop, Later, Leaving, Unwinding
<1>0. Starting(p)
  BY DEF Fail, Starting
<1>h. /\ StartupTypes /\ journal \in Journal /\ starts \in [Process -> Start] /\ starts[p] \in Start
      /\ Placed(starts[p]) /\ Copy(p) = journal /\ starts[p].copy = journal
      /\ WrittenBefore(p, starts[p]) /\ Unwound(starts[p])
      /\ \A q \in Process : Starting(q) => q = p
  BY <1>0, Stands
<1>i. /\ starts[p].generation \in Id /\ starts[p].allocation \in Id /\ Copy(p).allocation \in Id
      /\ starts[p].held \in SUBSET Resources /\ starts[p].todo \in SUBSET Resources
      /\ Copy(p).pending \in SUBSET Resources
  BY Here
<1>1. PICK todo \in SUBSET Resources : todo = ToUndo(p)
  BY <1>i DEF ToUndo, Resources
<1>2. UNCHANGED <<journal, generations, owner, service, plan, dead, instances>>
  BY DEF Fail, registries, endpoints, records
<1>3. CASE starts[p].at \in InLoop
  <2>1. starts' = [starts EXCEPT ![p].at = "undoLoop", ![p].todo = todo]
    BY <1>h, <1>1, <1>3 DEF Fail
  <2>2. PICK r \in Start :
           /\ Becomes(p, r) /\ r.at = "undoLoop" /\ r.todo = todo /\ r.recovering = starts[p].recovering
           /\ SameCopy(p, r) /\ SameGeneration(p, r)
    <3>1. PICK to \in Places : to = "undoLoop"
      BY DEF Places
    <3>2. Undoes(p, to, todo) /\ StartupTypes
      BY <1>h, <2>1, <3>1 DEF Undoes
    <3> QED
      BY <3>1, <3>2, UndoesTo
  <2>3. ~OwnerLives \/ "ownership" \in r.todo
    BY <1>h, <1>1, <1>3, <2>2 DEF WrittenBefore, ToUndo
  <2> QED
    BY <1>0, <1>2, <1>3, <2>2, <2>3, FailedKeeps
<1>4. CASE starts[p].at \notin InLoop
  <2>1. starts' = [starts EXCEPT ![p].at = "undo", ![p].todo = todo]
    BY <1>h, <1>1, <1>4 DEF Fail
  <2>2. PICK r \in Start :
           /\ Becomes(p, r) /\ r.at = "undo" /\ r.recovering = starts[p].recovering
           /\ SameCopy(p, r) /\ SameGeneration(p, r)
    BY <1>h, <2>1, UndoesTo DEF Places, Undoes
  <2>3. starts[p].at \in Later \cup {"noteAdoption", "generate", "noteGeneration", "prepare", "recover"}
    BY <1>4 DEF Fail
  <2>4. ~OwnerLives \/ "ownership" \in journal.pending
    BY <1>h, <2>3 DEF WrittenBefore
  <2> QED
    BY <1>0, <1>2, <2>2, <2>3, <2>4, FailedKeeps
<1> QED
  BY <1>3, <1>4

(* releaseRuntimeEndpointAllocation and the like fail: the resource stays in the journal. *)
LEMMA UndoFailingKeeps ==
  ASSUME HoldInv, Starts, AllNoted, NEW p \in Process, UndoFails(p)
  PROVE  Starts' /\ AllNoted'
<1> USE DEF NotYet, Looking, Resuming, Beginning, Reserving, Bound, InLoop, Later, Leaving, Unwinding
<1>0. Starting(p)
  BY DEF UndoFails, Undoing, Starting
<1>h. /\ StartupTypes /\ journal \in Journal /\ starts \in [Process -> Start] /\ starts[p] \in Start
      /\ Placed(starts[p]) /\ Copy(p) = journal /\ starts[p].copy = journal
      /\ WrittenBefore(p, starts[p]) /\ Unwound(starts[p])
      /\ \A q \in Process : Starting(q) => q = p
  BY <1>0, Stands
<1>i. /\ starts[p].generation \in Id /\ starts[p].allocation \in Id /\ Copy(p).allocation \in Id
      /\ starts[p].held \in SUBSET Resources /\ starts[p].todo \in SUBSET Resources
      /\ Copy(p).pending \in SUBSET Resources
  BY Here
<1>1. UNCHANGED <<journal, generations, owner, service, plan, dead, instances>>
  BY DEF UndoFails, registries, endpoints, records
<1>2. PICK todo \in SUBSET Resources :
        /\ starts' = [starts EXCEPT ![p].todo = todo]
        /\ starts[p].at = "undoLoop" => "allocation" \notin todo
  <2>1. PICK s \in starts[p].todo :
          starts' = [starts EXCEPT ![p].todo =
                       IF starts[p].at = "undoLoop" THEN (@ \cap {"generation"}) \ {s} ELSE @ \ {s}]
    BY DEF UndoFails
  <2> DEFINE todo == IF starts[p].at = "undoLoop" THEN (starts[p].todo \cap {"generation"}) \ {s}
                     ELSE starts[p].todo \ {s}
  <2>2. todo \in SUBSET Resources /\ (starts[p].at = "undoLoop" => "allocation" \notin todo)
    BY <1>i
  <2>3. starts' = [starts EXCEPT ![p].todo = todo]
    BY <1>h, <2>1
  <2> HIDE DEF todo
  <2> QED
    BY <2>2, <2>3
<1> DEFINE r == [starts[p] EXCEPT !.todo = todo]
<1>3. Becomes(p, r)
  BY <1>h, <1>2 DEF Becomes
<1>4. r \in Start /\ r.at = starts[p].at /\ r.recovering = starts[p].recovering /\ r.todo = todo
      /\ SameCopy(p, r) /\ SameGeneration(p, r)
  BY <1>h, <1>2 DEF Start, SameCopy, SameGeneration
<1> HIDE DEF r
<1>5. starts[p].at \in {"undo", "undoLoop"}
  BY DEF UndoFails, Undoing
<1>6. r.at = "undo" => ~OwnerLives \/ "ownership" \in journal.pending
  BY <1>h, <1>4 DEF Unwound
<1> QED
  BY <1>0, <1>1, <1>2, <1>3, <1>4, <1>5, <1>6, FailedKeeps

-----------------------------------------------------------------------------
(* What is undone *)

LEMMA FirstIs ==
  ASSUME NEW todo \in SUBSET Resources, NEW s, NEW t, First(todo, s), First(todo, t)
  PROVE  s = t
<1>1. PICK i \in 1..5 : Order[i] = s /\ s \in todo /\ \A k \in 1..i-1 : Order[k] \notin todo
  BY DEF First
<1>2. PICK k \in 1..5 : Order[k] = t /\ t \in todo /\ \A l \in 1..k-1 : Order[l] \notin todo
  BY DEF First
<1>3. i = k
  BY <1>1, <1>2
<1> QED
  BY <1>1, <1>2, <1>3

(* A resource is undone; the journal still names it. *)
LEMMA UndoneKeeps ==
  ASSUME HoldInv, Starts, AllNoted, NEW p \in Process, Undoing(p),
         NEW to \in {"undone", "undoneLoop"}, to = "undone" <=> starts[p].at = "undo",
         Goes(p, to) \/ Turns(p, to, "none"),
         NEW s \in Resources, IsNext(p, s), UNCHANGED <<journal, dead>>,
         service'.generation = service.generation,
         owner'.generation = owner.generation, owner' = owner \/ owner'.pid = "none",
         plan' = plan \/ ~plan'.reserved,
         \A g \in Process : instances'[g].running => instances[g].running,
         \A h \in Process \cup {"none"} : h # journal.generation => Phase(h)' = Phase(h),
         Phase(journal.generation)' \in {Phase(journal.generation), "failed"},
         s = "ownership" => owner'.pid = "none",
         s = "allocation" => ~plan'.reserved, s = "generation" => Phase(journal.generation)' = "failed"
  PROVE  Starts' /\ AllNoted'
<1> USE DEF NotYet, Looking, Resuming, Beginning, Reserving, Bound, InLoop, Later, Leaving, Unwinding
<1>0. Starting(p)
  BY DEF Undoing, Starting
<1>h. /\ StartupTypes /\ journal \in Journal /\ starts \in [Process -> Start] /\ starts[p] \in Start
      /\ Placed(starts[p]) /\ Copy(p) = journal /\ starts[p].copy = journal
      /\ WrittenBefore(p, starts[p]) /\ Unwound(starts[p])
      /\ \A q \in Process : Starting(q) => q = p
  BY <1>0, Stands
<1>i. /\ starts[p].generation \in Id /\ starts[p].allocation \in Id /\ Copy(p).allocation \in Id
      /\ starts[p].held \in SUBSET Resources /\ starts[p].todo \in SUBSET Resources
      /\ Copy(p).pending \in SUBSET Resources
  BY Here
<1>1. starts[p].at \in {"undo", "undoLoop"} /\ ~journal.committed /\ Interrupted
  BY <1>h DEF Undoing, WrittenBefore
<1>2. to \in {"undone", "undoneLoop"} /\ (to = "undone" <=> starts[p].at = "undo") /\ to \in Places
  BY <1>1 DEF Places
<1>3. PICK r \in Start : /\ Becomes(p, r) /\ r.at = to
                         /\ SameCopy(p, r) /\ SameGeneration(p, r) /\ SameTodo(p, r) /\ SameHeld(p, r)
  <2>1. CASE Goes(p, to)
    BY <1>h, <1>2, <2>1, GoesTo
  <2>2. CASE Turns(p, to, "none")
    BY <1>h, <1>2, <2>2, TurnsTo
  <2> QED
    BY <2>1, <2>2
<1>4. OwnerLives' => OwnerLives /\ owner' = owner
  BY DEF OwnerLives, Alive
<1>5. WrittenBefore(p, r)'
  BY <1>1, <1>2, <1>3 DEF WrittenBefore, Interrupted
<1>6. Unwound(r)'
  <2>1. ASSUME NEW t, First(r.todo, t) PROVE t = s
    BY <1>i, <1>3, <2>1, FirstIs DEF First, IsNext, SameTodo
  <2>2. OwnerLives' => OwnerLives /\ r.todo = starts[p].todo /\ (r.at = "undone" <=> starts[p].at = "undo")
    BY <1>2, <1>3, <1>4 DEF SameTodo
  <2>3. (r.at \in {"undo", "undone"} /\ OwnerLives => "ownership" \in journal.pending)'
    BY <1>h, <1>2, <1>3, <2>2 DEF Unwound
  <2>4. (r.at \in {"undoLoop", "undoneLoop"} /\ OwnerLives /\ "ownership" \notin journal.pending
          => "ownership" \in r.todo \/ "allocation" \notin r.todo)'
    BY <1>h, <1>1, <1>2, <1>3, <2>2 DEF Unwound
  <2>5. (First(r.todo, "ownership") => ~OwnerLives)'
    BY <2>1 DEF First, OwnerLives, Alive
  <2>6. (First(r.todo, "allocation") => ~plan.reserved)'
    BY <2>1 DEF First
  <2>7. (First(r.todo, "generation") => Phase(journal.generation) \notin {"running", "stopping"})'
    BY <2>1 DEF First
  <2> QED
    BY <2>3, <2>4, <2>5, <2>6, <2>7 DEF Unwound
<1>7. AllNoted'
  <2>1. Outcomes'
    BY <1>1 DEF AllNoted, Outcomes, Phase
  <2>2. OwnerNoted'
    <3>1. owner.generation \in Process \cup {"none"}
      BY <1>h DEF StartupTypes, WorldTypes, Id
    <3>2. owner.generation # "none" => Phase(owner.generation)' # "none"
      BY <3>1 DEF AllNoted, OwnerNoted
    <3> QED
      BY <1>4, <3>2 DEF AllNoted, OwnerNoted
  <2>3. GenerationNoted'
    BY DEF AllNoted, GenerationNoted, Phase
  <2>4. PlanNoted'
    BY DEF AllNoted, PlanNoted
  <2> QED
    BY <2>1, <2>2, <2>3, <2>4 DEF AllNoted
<1>8. Starts'
  <2>1. \A h \in Process : Phase(h)' # "none" => Phase(h) # "none" \/ h = journal.generation
    OBVIOUS
  <2>2. (Early(r) => Early(starts[p])) /\ r.at \notin {"running"} \cup Leaving /\ r.copy = journal'
    BY <1>h, <1>2, <1>3 DEF Early, SameTodo, SameCopy
  <2> QED
    BY <1>h, <1>3, <1>5, <1>6, <2>1, <2>2, StarterKeeps DEF SameGeneration
<1> QED
  BY <1>7, <1>8

(* compensateRuntimeStartupResources, the resources one by one. *)
LEMMA UndoingKeeps ==
  ASSUME HoldInv, Starts, AllNoted, NEW p \in Process,
         \/ UndoService(p) \/ UndoInstance(p) \/ UndoOwnership(p) \/ UndoAllocation(p) \/ UndoGeneration(p)
  PROVE  Starts' /\ AllNoted'
<1> USE DEF NotYet, Looking, Resuming, Beginning, Reserving, Bound, InLoop, Later, Leaving, Unwinding
<1>0. Starting(p)
  BY DEF UndoService, UndoInstance, UndoOwnership, UndoAllocation, UndoGeneration, Undoing, Starting
<1>h. /\ StartupTypes /\ journal \in Journal /\ starts \in [Process -> Start] /\ starts[p] \in Start
      /\ Placed(starts[p]) /\ Copy(p) = journal /\ starts[p].copy = journal
      /\ WrittenBefore(p, starts[p]) /\ Unwound(starts[p])
      /\ \A q \in Process : Starting(q) => q = p
  BY <1>0, Stands
<1>i. /\ starts[p].generation \in Id /\ starts[p].allocation \in Id /\ Copy(p).allocation \in Id
      /\ starts[p].held \in SUBSET Resources /\ starts[p].todo \in SUBSET Resources
      /\ Copy(p).pending \in SUBSET Resources
  BY Here
<1>u. PICK to \in {"undone", "undoneLoop"} :
        /\ Undoing(p) /\ (to = "undone" <=> starts[p].at = "undo")
        /\ UndoService(p) => Goes(p, to) \/ Turns(p, to, "none")
        /\ ~UndoService(p) => Goes(p, to)
  BY DEF UndoService, UndoInstance, UndoOwnership, UndoAllocation, UndoGeneration, NotesUndoing, Undoing, Turns
<1>t. /\ service \in [generation : Id, allocation : Id, up : BOOLEAN, adopted : BOOLEAN]
      /\ owner \in [generation : Id, pid : Id, allocation : Id]
      /\ instances \in [Process -> [pid : Id, running : BOOLEAN]]
      /\ generations \in [Process -> [phase : Phases, pid : Id]]
  BY <1>h DEF StartupTypes, WorldTypes
<1>1. CASE UndoService(p)
  <2>1. PICK s \in Resources : s = "service"
    BY DEF Resources
  <2>2. /\ service' = service \/ service' = [service EXCEPT !.up = FALSE]
        /\ UNCHANGED <<journal, generations, owner, plan, instances, dead>>
    BY <1>1 DEF UndoService, endpoints, records
  <2>3. service'.generation = service.generation
    BY <1>t, <2>2
  <2> QED
    BY <1>u, <1>1, <2>1, <2>2, <2>3, UndoneKeeps DEF UndoService, Phase
<1>2. CASE UndoInstance(p)
  <2>1. PICK s \in Resources : s = "instance"
    BY DEF Resources
  <2>2. UNCHANGED <<journal, generations, owner, service, plan, dead>>
    BY <1>2 DEF UndoInstance, registries, endpoints, history, undoings
  <2>3. \A g \in Process : instances'[g].running => instances[g].running
    BY <1>t, <1>2 DEF UndoInstance
  <2> QED
    BY <1>u, <1>2, <2>1, <2>2, <2>3, UndoneKeeps DEF UndoInstance, Phase
<1>3. CASE UndoOwnership(p)
  <2>1. PICK s \in Resources : s = "ownership"
    BY DEF Resources
  <2>2. owner' = [owner EXCEPT !.pid = "none"] /\ UNCHANGED <<journal, generations, service, plan, instances, dead>>
    BY <1>3 DEF UndoOwnership, endpoints, records, history, undoings
  <2>3. owner'.generation = owner.generation /\ owner'.pid = "none"
    BY <1>t, <2>2
  <2> QED
    BY <1>u, <1>3, <2>1, <2>2, <2>3, UndoneKeeps DEF UndoOwnership, Phase
<1>4. CASE UndoAllocation(p)
  <2>1. PICK s \in Resources : s = "allocation"
    BY DEF Resources
  <2>2. ~plan'.reserved /\ UNCHANGED <<journal, generations, owner, service, instances, dead>>
    BY <1>4 DEF UndoAllocation, Releases, registries, records, history, undoings
  <2> QED
    BY <1>u, <1>4, <2>1, <2>2, UndoneKeeps DEF UndoAllocation, Phase
<1>5. CASE UndoGeneration(p)
  <2>1. PICK s \in Resources : s = "generation"
    BY DEF Resources
  <2>2. generations' = [generations EXCEPT ![journal.generation].phase = "failed"]
    BY <1>h, <1>5 DEF UndoGeneration, Ended, Undone
  <2>3. journal.generation \in Process
    BY <1>h, <1>5 DEF UndoGeneration, Undoing, Placed, Journaling
  <2>4. UNCHANGED <<journal, owner, service, plan, instances, dead>>
    BY <1>5 DEF UndoGeneration, endpoints, records
  <2>5. Phase(journal.generation)' = "failed"
    BY <1>t, <2>2, <2>3, <2>4 DEF Phase
  <2>6. \A h \in Process \cup {"none"} : h # journal.generation => Phase(h)' = Phase(h)
    BY <1>t, <2>2, <2>3 DEF Phase
  <2> QED
    BY <1>u, <1>5, <2>1, <2>4, <2>5, <2>6, UndoneKeeps DEF UndoGeneration
<1> QED
  BY <1>1, <1>2, <1>3, <1>4, <1>5

(* What is undone is taken out of the journal. *)
LEMMA NotingUndoneKeeps ==
  ASSUME HoldInv, Starts, AllNoted, NEW p \in Process, NoteUndone(p)
  PROVE  Starts' /\ AllNoted'
<1> USE DEF NotYet, Looking, Resuming, Beginning, Reserving, Bound, InLoop, Later, Leaving, Unwinding
<1>0. Starting(p)
  BY DEF NoteUndone, At, Starting
<1>h. /\ StartupTypes /\ journal \in Journal /\ starts \in [Process -> Start] /\ starts[p] \in Start
      /\ Placed(starts[p]) /\ Copy(p) = journal /\ starts[p].copy = journal
      /\ WrittenBefore(p, starts[p]) /\ Unwound(starts[p])
      /\ \A q \in Process : Starting(q) => q = p
  BY <1>0, Stands
<1>i. /\ starts[p].generation \in Id /\ starts[p].allocation \in Id /\ Copy(p).allocation \in Id
      /\ starts[p].held \in SUBSET Resources /\ starts[p].todo \in SUBSET Resources
      /\ Copy(p).pending \in SUBSET Resources
  BY Here
<1>1. PICK s \in starts[p].todo, r \in Start :
         /\ IsNext(p, s) /\ Becomes(p, r) /\ r.copy = journal' /\ journal' \in Journal
         /\ journal' = [Copy(p) EXCEPT !.pending = @ \ {s}]
         /\ r.at = IF starts[p].at = "undoneLoop" THEN "undoLoop" ELSE "undo"
         /\ r.todo = starts[p].todo \ {s} /\ r.recovering = starts[p].recovering
         /\ SameGeneration(p, r) /\ SameHeld(p, r)
  BY <1>h, NoteUndoneTo
<1>2. /\ journal'.pending = journal.pending \ {s} /\ journal'.generation = journal.generation
      /\ journal'.status = journal.status /\ journal'.committed = journal.committed
      /\ journal'.done = journal.done /\ journal'.allocation = journal.allocation
  BY <1>h, <1>1 DEF Journal
<1>3. starts[p].at \in {"undone", "undoneLoop"} /\ UNCHANGED <<generations, owner, service, plan, instances, dead>>
  BY DEF NoteUndone, At, registries, endpoints, records, history, undoings
<1>4. First(starts[p].todo, s)
  BY <1>1 DEF IsNext, First
<1>5. /\ s = "ownership" => ~OwnerLives
      /\ s = "allocation" => ~plan.reserved /\ "ownership" \notin starts[p].todo
      /\ s = "generation" => Phase(journal.generation) \notin {"running", "stopping"}
  <2>1. s = "allocation" => "ownership" \notin starts[p].todo
    <3>1. ASSUME s = "allocation" PROVE "ownership" \notin starts[p].todo
      <4>1. PICK i \in 1..5 : Order[i] = s /\ s \in starts[p].todo /\ \A k \in 1..i-1 : Order[k] \notin starts[p].todo
        BY <1>4 DEF First
      <4>2. i = 4
        BY <3>1, <4>1 DEF Order
      <4>3. Order[3] = "ownership" /\ 3 \in 1..i-1
        BY <4>2 DEF Order
      <4> QED
        BY <4>1, <4>3
    <3> QED
      BY <3>1
  <2>2. s = "ownership" => ~OwnerLives
    BY <1>h, <1>3, <1>4 DEF Unwound
  <2>3. (s = "allocation" => ~plan.reserved)
        /\ (s = "generation" => Phase(journal.generation) \notin {"running", "stopping"})
    BY <1>h, <1>3, <1>4 DEF Unwound
  <2> QED
    BY <2>1, <2>2, <2>3
<1>6. OwnerLives' <=> OwnerLives
  BY <1>2, <1>3 DEF OwnerLives, Alive
<1>7. ~journal.committed /\ Interrupted
  BY <1>h, <1>3 DEF WrittenBefore
<1>8. OwnerLives => s # "ownership" /\ (s = "allocation" => "ownership" \in journal.pending)
  BY <1>h, <1>3, <1>4, <1>5 DEF Unwound, First
<1>9. WrittenBefore(p, r)'
  BY <1>1, <1>2, <1>7 DEF WrittenBefore, Interrupted
<1>10. Unwound(r)'
  <2>1. CASE starts[p].at = "undone"
    BY <1>h, <1>1, <1>2, <1>6, <1>8, <2>1 DEF Unwound
  <2>2. CASE starts[p].at = "undoneLoop"
    BY <1>h, <1>1, <1>2, <1>6, <1>8, <2>2 DEF Unwound
  <2> QED
    BY <1>3, <2>1, <2>2
<1>11. AllNoted'
  <2>1. Outcomes'
    BY <1>2, <1>3, <1>7 DEF AllNoted, Outcomes, Interrupted
  <2>2. OwnerNoted'
    BY <1>2, <1>3, <1>6, <1>7, <1>8 DEF AllNoted, OwnerNoted, Phase
  <2>3. GenerationNoted'
    BY <1>2, <1>3, <1>5 DEF AllNoted, GenerationNoted, Phase
  <2>4. PlanNoted'
    BY <1>2, <1>3, <1>5 DEF AllNoted, PlanNoted
  <2> QED
    BY <2>1, <2>2, <2>3, <2>4 DEF AllNoted
<1>12. Starts'
  <2>1. (Early(r) => Early(starts[p])) /\ r.at \notin {"running"} \cup Leaving
    BY <1>1 DEF Early
  <2> QED
    BY <1>h, <1>1, <1>2, <1>3, <1>9, <1>10, <2>1, StarterKeeps DEF SameGeneration, Phase
<1> QED
  BY <1>11, <1>12

(* settleStartupTransaction: what is not undone keeps the journal open. *)
LEMMA SettlingKeeps ==
  ASSUME HoldInv, Starts, AllNoted, NEW p \in Process, Settle(p)
  PROVE  Starts' /\ AllNoted'
<1> USE DEF NotYet, Looking, Resuming, Beginning, Reserving, Bound, InLoop, Later, Leaving, Unwinding
<1>0. Starting(p)
  BY DEF Settle, Undoing, Starting
<1>h. /\ StartupTypes /\ journal \in Journal /\ starts \in [Process -> Start] /\ starts[p] \in Start
      /\ Placed(starts[p]) /\ Copy(p) = journal /\ starts[p].copy = journal
      /\ WrittenBefore(p, starts[p]) /\ Unwound(starts[p])
      /\ \A q \in Process : Starting(q) => q = p
  BY <1>0, Stands
<1>i. /\ starts[p].generation \in Id /\ starts[p].allocation \in Id /\ Copy(p).allocation \in Id
      /\ starts[p].held \in SUBSET Resources /\ starts[p].todo \in SUBSET Resources
      /\ Copy(p).pending \in SUBSET Resources
  BY Here
<1>3. starts[p].at \in {"undo", "undoLoop"} /\ UNCHANGED <<generations, owner, service, plan, instances, dead>>
  BY DEF Settle, Undoing, registries, endpoints, records
<1>7. ~journal.committed /\ Interrupted
  BY <1>h, <1>3 DEF WrittenBefore
<1>1. CASE journal' = [Copy(p) EXCEPT !.status = Outcome(p)]
           /\ starts' = [starts EXCEPT ![p].copy = journal', ![p].recovering = FALSE,
                ![p].at = IF starts[p].recovering /\ journal'.status = "rolled_back" THEN "begin" ELSE "done"]
  <2>1. PICK r \in Start :
           /\ Becomes(p, r) /\ r.copy = journal' /\ journal' \in Journal /\ journal'.status = Outcome(p)
           /\ r.at \in {"begin", "done"} /\ (r.at = "begin" => starts[p].recovering) /\ ~r.recovering
           /\ SameGeneration(p, r) /\ SameHeld(p, r)
    BY <1>h, <1>1, SettleTo
  <2>2. /\ journal'.pending = journal.pending /\ journal'.generation = journal.generation
        /\ journal'.committed = journal.committed
        /\ journal'.done = journal.done /\ journal'.allocation = journal.allocation
    BY <1>h, <1>1 DEF Journal
  <2>3. journal'.status = "blocked" \/ (journal'.status = "rolled_back" /\ journal.pending = {})
    BY <1>h, <2>1 DEF Outcome
  <2>4. OwnerLives' <=> OwnerLives
    BY <1>3, <2>2 DEF OwnerLives, Alive
  <2>5. WrittenBefore(p, r)' /\ Unwound(r)'
    BY <2>1 DEF WrittenBefore, Unwound
  <2>6. AllNoted'
    <3>1. Outcomes'
      BY <1>3, <1>7, <2>2, <2>3 DEF AllNoted, Outcomes, Phase
    <3>2. OwnerNoted'
      BY <1>3, <2>2, <2>4 DEF AllNoted, OwnerNoted, Phase
    <3>3. GenerationNoted'
      BY <1>3, <1>7, <2>2 DEF AllNoted, GenerationNoted, Phase, Interrupted
    <3>4. PlanNoted'
      BY <1>3, <2>2 DEF AllNoted, PlanNoted
    <3> QED
      BY <3>1, <3>2, <3>3, <3>4 DEF AllNoted
  <2>7. Starts'
    <3>1. (Early(r) => Early(starts[p])) /\ r.at \notin {"running"} \cup Leaving
      BY <2>1 DEF Early
    <3> QED
      BY <1>h, <1>3, <2>1, <2>2, <2>5, <3>1, StarterKeeps DEF SameGeneration, Phase
  <2> QED
    BY <2>6, <2>7
<1>2. CASE Goes(p, "done") /\ journal' = journal
  <2>1. PICK r \in Start : /\ Becomes(p, r) /\ r.at = "done"
                           /\ SameCopy(p, r) /\ SameGeneration(p, r) /\ SameTodo(p, r) /\ SameHeld(p, r)
    BY <1>h, <1>2, GoesTo DEF Places
  <2>2. (Early(r) => Early(starts[p])) /\ r.at \notin {"running"} \cup Leaving
    BY <2>1 DEF Early, SameTodo
  <2> QED
    BY <1>0, <1>2, <1>3, <2>1, <2>2, SilentKeeps
<1> QED
  BY <1>1, <1>2 DEF Settle

-----------------------------------------------------------------------------
(* What a start notes in its journal *)

LEMMA NotesTo ==
  ASSUME HoldInv, Starts, AllNoted, NEW p \in Process, Starting(p), ~starts[p].recovering,
         NEW to \in Places, NEW j \in Journal, Writes(p, j, to),
         j.generation = journal.generation, j.committed = journal.committed, j.status \in {"active", "blocked"},
         journal.pending \subseteq j.pending, journal.done \subseteq j.done,
         j.allocation = journal.allocation \/ "allocation" \in j.pending, Interrupted \/ journal.committed,
         UNCHANGED <<generations, owner, service, plan, instances, dead>>,
         to \notin {"idle", "again", "begin", "running", "done"} \cup Unwinding \cup Leaving,
         to \in Looking => starts[p].at \in Looking
  PROVE  /\ journal' = j /\ (OwnerLives' <=> OwnerLives)
         /\ \E r \in Start : /\ r.at = to /\ SameGeneration(p, r) /\ SameHeld(p, r)
                             /\ WrittenBefore(p, r)' => Starts' /\ AllNoted'
<1>1. starts \in [Process -> Start]
  BY Stands
<1>2. PICK r \in Start : /\ Becomes(p, r) /\ r.at = to /\ r.copy = j
                         /\ SameGeneration(p, r) /\ SameTodo(p, r) /\ SameHeld(p, r)
  BY <1>1, WritesTo
<1>3. journal' = j
  BY DEF Writes
<1>4. Grows
  BY <1>3 DEF Grows
<1>5. Unwound(r)'
  BY <1>2 DEF Unwound, Unwinding
<1>6. Early(r) => Early(starts[p])
  BY <1>2 DEF Early, SameTodo
<1>7. r.at \notin {"idle", "running", "done"} \cup Leaving
  BY <1>2
<1>8. ASSUME WrittenBefore(p, r)' PROVE Starts' /\ AllNoted'
  BY <1>2, <1>3, <1>4, <1>5, <1>6, <1>7, <1>8, NotingKeeps
<1>9. OwnerLives' <=> OwnerLives
  BY <1>3 DEF OwnerLives, Alive
<1> QED
  BY <1>2, <1>3, <1>8, <1>9

LEMMA NotingMoves ==
  ASSUME HoldInv, Starts, AllNoted, NEW p \in Process,
         \/ Resume(p) \/ Cleanup(p) \/ Prepare(p) \/ NoteAdoption(p) \/ NoteGeneration(p) \/ NoteOwnership(p)
         \/ NoteInstance(p)
  PROVE  Starts' /\ AllNoted'
<1> USE DEF NotYet, Looking, Resuming, Beginning, Reserving, Bound, InLoop, Later, Leaving, Unwinding
<1>0. Starting(p)
  BY DEF Resume, Cleanup, Prepare, NoteAdoption, NoteGeneration, NoteOwnership, NoteInstance, At, Starting
<1>h. /\ StartupTypes /\ journal \in Journal /\ starts \in [Process -> Start] /\ starts[p] \in Start
      /\ Placed(starts[p]) /\ Copy(p) = journal /\ starts[p].copy = journal
      /\ WrittenBefore(p, starts[p]) /\ Unwound(starts[p])
      /\ \A q \in Process : Starting(q) => q = p
  BY <1>0, Stands
<1>i. /\ starts[p].generation \in Id /\ starts[p].allocation \in Id /\ Copy(p).allocation \in Id
      /\ starts[p].held \in SUBSET Resources /\ starts[p].todo \in SUBSET Resources
      /\ Copy(p).pending \in SUBSET Resources
  BY Here
<1>a. /\ Activated(p) \in Journal /\ Activated(p).generation = journal.generation
      /\ Activated(p).committed = journal.committed /\ Activated(p).status = "active"
      /\ journal.pending = Activated(p).pending /\ journal.done = Activated(p).done
      /\ Activated(p).allocation = journal.allocation
  BY <1>h DEF Activated, Journal
<1>r. starts[p].at \notin Unwinding => ~starts[p].recovering
  BY <1>0, <1>h DEF Placed, Starting
<1>1. CASE Resume(p)
  <2> DEFINE j == Activated(p)
  <2>1. PICK to \in {"prepare"} : Writes(p, j, to)
    BY <1>1 DEF Resume
  <2>2. /\ j \in Journal /\ j.generation = journal.generation /\ j.committed = journal.committed
        /\ j.status = "active" /\ journal.pending = j.pending /\ journal.done = j.done
        /\ j.allocation = journal.allocation
    BY <1>a
  <2> HIDE DEF j
  <2>3. starts[p].at = "resume" /\ UNCHANGED <<generations, owner, service, plan, instances, dead>>
    BY <1>1 DEF Resume, At, registries, endpoints, records, history, undoings
  <2>4. j.status \in {"active", "blocked"} /\ (Interrupted \/ journal.committed)
    BY <1>h, <2>2, <2>3 DEF WrittenBefore, Interrupted
  <2>5. /\ journal' = j /\ (OwnerLives' <=> OwnerLives)
        /\ \E r \in Start : /\ r.at = to /\ SameGeneration(p, r) /\ SameHeld(p, r)
                            /\ WrittenBefore(p, r)' => Starts' /\ AllNoted'
    <3>1. to \in Places \ ({"idle", "again", "begin", "running", "done"} \cup Unwinding \cup Leaving)
      BY DEF Places
    <3>2. to \in Looking => starts[p].at \in Looking
      BY <2>3
    <3>3. ~starts[p].recovering
      BY <1>r, <2>3
    <3> QED
      BY <1>0, <2>1, <2>2, <2>3, <2>4, <3>1, <3>2, <3>3, NotesTo
  <2>6. PICK r \in Start : /\ r.at = to /\ SameGeneration(p, r) /\ SameHeld(p, r)
                           /\ WrittenBefore(p, r)' => Starts' /\ AllNoted'
    BY <2>5
  <2>7. WrittenBefore(p, r)'
    BY <1>h, <2>2, <2>3, <2>4, <2>5, <2>6 DEF WrittenBefore, SameGeneration, SameHeld, Interrupted, Phase
  <2> QED
    BY <2>6, <2>7
<1>2. CASE Cleanup(p)
  <2> DEFINE j == Activated(p)
  <2>1. PICK to \in {"cleaning"} : Writes(p, j, to)
    BY <1>2 DEF Cleanup
  <2>2. /\ j \in Journal /\ j.generation = journal.generation /\ j.committed = journal.committed
        /\ j.status = "active" /\ journal.pending = j.pending /\ journal.done = j.done
        /\ j.allocation = journal.allocation
    BY <1>a
  <2> HIDE DEF j
  <2>3. starts[p].at = "cleanup" /\ UNCHANGED <<generations, owner, service, plan, instances, dead>>
    BY <1>2 DEF Cleanup, At, registries, endpoints, records, history, undoings
  <2>4. j.status \in {"active", "blocked"} /\ (Interrupted \/ journal.committed)
    BY <1>h, <2>2, <2>3 DEF WrittenBefore, Interrupted
  <2>5. /\ journal' = j /\ (OwnerLives' <=> OwnerLives)
        /\ \E r \in Start : /\ r.at = to /\ SameGeneration(p, r) /\ SameHeld(p, r)
                            /\ WrittenBefore(p, r)' => Starts' /\ AllNoted'
    <3>1. to \in Places \ ({"idle", "again", "begin", "running", "done"} \cup Unwinding \cup Leaving)
      BY DEF Places
    <3>2. to \in Looking => starts[p].at \in Looking
      BY <2>3
    <3>3. ~starts[p].recovering
      BY <1>r, <2>3
    <3> QED
      BY <1>0, <2>1, <2>2, <2>3, <2>4, <3>1, <3>2, <3>3, NotesTo
  <2>6. PICK r \in Start : /\ r.at = to /\ SameGeneration(p, r) /\ SameHeld(p, r)
                           /\ WrittenBefore(p, r)' => Starts' /\ AllNoted'
    BY <2>5
  <2>7. WrittenBefore(p, r)'
    BY <1>h, <2>2, <2>3, <2>4, <2>5, <2>6 DEF WrittenBefore, SameGeneration, SameHeld, Interrupted, Phase
  <2> QED
    BY <2>6, <2>7
<1>3. CASE Prepare(p)
  <2> DEFINE j == Noted(Copy(p), {}, {"generation"})
  <2>1. PICK to \in {"recover"} : Writes(p, j, to)
    BY <1>3 DEF Prepare
  <2>2. /\ j \in Journal /\ j.done = journal.done \cup {} /\ j.pending = journal.pending \cup {"generation"}
        /\ j.generation = journal.generation /\ j.status = journal.status /\ j.committed = journal.committed
        /\ j.allocation = journal.allocation
    BY <1>h DEF Noted, Journal, Resources
  <2> HIDE DEF j
  <2>3. starts[p].at = "prepare" /\ UNCHANGED <<generations, owner, service, plan, instances, dead>>
    BY <1>3 DEF Prepare, At, registries, endpoints, records, history, undoings
  <2>4. j.status \in {"active", "blocked"} /\ (Interrupted \/ journal.committed)
    BY <1>h, <2>2, <2>3 DEF WrittenBefore, Interrupted
  <2>5. /\ journal' = j /\ (OwnerLives' <=> OwnerLives)
        /\ \E r \in Start : /\ r.at = to /\ SameGeneration(p, r) /\ SameHeld(p, r)
                            /\ WrittenBefore(p, r)' => Starts' /\ AllNoted'
    <3>1. to \in Places \ ({"idle", "again", "begin", "running", "done"} \cup Unwinding \cup Leaving)
      BY DEF Places
    <3>2. to \in Looking => starts[p].at \in Looking
      BY <2>3
    <3>3. ~starts[p].recovering
      BY <1>r, <2>3
    <3> QED
      BY <1>0, <2>1, <2>2, <2>3, <2>4, <3>1, <3>2, <3>3, NotesTo
  <2>6. PICK r \in Start : /\ r.at = to /\ SameGeneration(p, r) /\ SameHeld(p, r)
                           /\ WrittenBefore(p, r)' => Starts' /\ AllNoted'
    BY <2>5
  <2>7. WrittenBefore(p, r)'
    BY <1>h, <2>2, <2>3, <2>4, <2>5, <2>6 DEF WrittenBefore, SameGeneration, SameHeld, Interrupted, Phase
  <2> QED
    BY <2>6, <2>7
<1>4. CASE NoteAdoption(p)
  <2> DEFINE j == Noted(Copy(p), {"adoption"}, {})
  <2>1. PICK to \in {"generate"} : Writes(p, j, to)
    BY <1>4 DEF NoteAdoption
  <2>2. /\ j \in Journal /\ j.done = journal.done \cup {"adoption"} /\ j.pending = journal.pending \cup {}
        /\ j.generation = journal.generation /\ j.status = journal.status /\ j.committed = journal.committed
        /\ j.allocation = journal.allocation
    BY <1>h DEF Noted, Journal, Resources
  <2> HIDE DEF j
  <2>3. starts[p].at = "noteAdoption" /\ UNCHANGED <<generations, owner, service, plan, instances, dead>>
    BY <1>4 DEF NoteAdoption, At, registries, endpoints, records, history, undoings
  <2>4. j.status \in {"active", "blocked"} /\ (Interrupted \/ journal.committed)
    BY <1>h, <2>2, <2>3 DEF WrittenBefore, Interrupted
  <2>5. /\ journal' = j /\ (OwnerLives' <=> OwnerLives)
        /\ \E r \in Start : /\ r.at = to /\ SameGeneration(p, r) /\ SameHeld(p, r)
                            /\ WrittenBefore(p, r)' => Starts' /\ AllNoted'
    <3>1. to \in Places \ ({"idle", "again", "begin", "running", "done"} \cup Unwinding \cup Leaving)
      BY DEF Places
    <3>2. to \in Looking => starts[p].at \in Looking
      BY <2>3
    <3>3. ~starts[p].recovering
      BY <1>r, <2>3
    <3> QED
      BY <1>0, <2>1, <2>2, <2>3, <2>4, <3>1, <3>2, <3>3, NotesTo
  <2>6. PICK r \in Start : /\ r.at = to /\ SameGeneration(p, r) /\ SameHeld(p, r)
                           /\ WrittenBefore(p, r)' => Starts' /\ AllNoted'
    BY <2>5
  <2>7. WrittenBefore(p, r)'
    BY <1>h, <2>2, <2>3, <2>4, <2>5, <2>6 DEF WrittenBefore, SameGeneration, SameHeld, Interrupted, Phase
  <2> QED
    BY <2>6, <2>7
<1>5. CASE NoteGeneration(p)
  <2> DEFINE j == Noted(Copy(p), {"generation"}, {"generation"})
  <2>1. PICK r \in Start :
          /\ Becomes(p, r) /\ r.copy = j /\ SameGeneration(p, r) /\ SameTodo(p, r) /\ SameHeld(p, r)
          /\ r.at = IF j.allocation # "none" THEN "claim" ELSE "reserve"
    BY <1>h, <1>5, NoteGenerationTo
  <2>2. /\ journal' = j /\ j.done = journal.done \cup {"generation"} /\ j.pending = journal.pending \cup {"generation"}
        /\ j.generation = journal.generation /\ j.status = journal.status /\ j.committed = journal.committed
        /\ j.allocation = journal.allocation
    BY <1>h, <1>5, NoteGenerationTo DEF Noted, Journal
  <2> HIDE DEF j
  <2>3. starts[p].at = "noteGeneration" /\ UNCHANGED <<generations, owner, service, plan, instances, dead>>
    BY <1>5 DEF NoteGeneration, At, registries, endpoints, records, history, undoings
  <2>4. Interrupted /\ ~journal.committed /\ ~OwnerLives
    BY <1>h, <2>3 DEF WrittenBefore
  <2>5. Grows /\ (OwnerLives' <=> OwnerLives)
    BY <2>2, <2>3, <2>4 DEF Grows, Interrupted, OwnerLives, Alive
  <2>6. WrittenBefore(p, r)'
    BY <1>h, <2>1, <2>2, <2>3, <2>4, <2>5 DEF WrittenBefore, SameGeneration, Interrupted, Phase
  <2>7. Unwound(r)' /\ ~Early(r) /\ r.at \notin {"idle", "running", "done"} \cup Leaving /\ r.copy = journal'
    BY <1>r, <2>1, <2>2, <2>3 DEF Unwound, Early, SameTodo
  <2> QED
    BY <1>0, <2>1, <2>3, <2>5, <2>6, <2>7, NotingKeeps
<1>6. CASE NoteOwnership(p)
  <2> DEFINE j == Noted(Copy(p), {}, {"ownership"})
  <2>1. PICK to \in {"rebind", "services"} : Writes(p, j, to)
    BY <1>6 DEF NoteOwnership
  <2>2. /\ j \in Journal /\ j.done = journal.done \cup {} /\ j.pending = journal.pending \cup {"ownership"}
        /\ j.generation = journal.generation /\ j.status = journal.status /\ j.committed = journal.committed
        /\ j.allocation = journal.allocation
    BY <1>h DEF Noted, Journal, Resources
  <2> HIDE DEF j
  <2>3. starts[p].at = "noteOwnership" /\ UNCHANGED <<generations, owner, service, plan, instances, dead>>
    BY <1>6 DEF NoteOwnership, At, registries, endpoints, records, history, undoings
  <2>4. j.status \in {"active", "blocked"} /\ (Interrupted \/ journal.committed)
    BY <1>h, <2>2, <2>3 DEF WrittenBefore, Interrupted
  <2>5. /\ journal' = j /\ (OwnerLives' <=> OwnerLives)
        /\ \E r \in Start : /\ r.at = to /\ SameGeneration(p, r) /\ SameHeld(p, r)
                            /\ WrittenBefore(p, r)' => Starts' /\ AllNoted'
    <3>1. to \in Places \ ({"idle", "again", "begin", "running", "done"} \cup Unwinding \cup Leaving)
      BY DEF Places
    <3>2. to \in Looking => starts[p].at \in Looking
      BY <2>3
    <3>3. ~starts[p].recovering
      BY <1>r, <2>3
    <3> QED
      BY <1>0, <2>1, <2>2, <2>3, <2>4, <3>1, <3>2, <3>3, NotesTo
  <2>6. PICK r \in Start : /\ r.at = to /\ SameGeneration(p, r) /\ SameHeld(p, r)
                           /\ WrittenBefore(p, r)' => Starts' /\ AllNoted'
    BY <2>5
  <2>7. WrittenBefore(p, r)'
    BY <1>h, <2>2, <2>3, <2>4, <2>5, <2>6 DEF WrittenBefore, SameGeneration, SameHeld, Interrupted, Phase
  <2> QED
    BY <2>6, <2>7
<1>7. CASE NoteInstance(p)
  <2> DEFINE j == Noted(Copy(p), {"instance"}, {"instance"})
  <2>1. PICK to \in {"publish"} : Writes(p, j, to)
    BY <1>7 DEF NoteInstance
  <2>2. /\ j \in Journal /\ j.done = journal.done \cup {"instance"} /\ j.pending = journal.pending \cup {"instance"}
        /\ j.generation = journal.generation /\ j.status = journal.status /\ j.committed = journal.committed
        /\ j.allocation = journal.allocation
    BY <1>h DEF Noted, Journal, Resources
  <2> HIDE DEF j
  <2>3. starts[p].at = "noteInstance" /\ UNCHANGED <<generations, owner, service, plan, instances, dead>>
    BY <1>7 DEF NoteInstance, At, registries, endpoints, records, history, undoings
  <2>4. j.status \in {"active", "blocked"} /\ (Interrupted \/ journal.committed)
    BY <1>h, <2>2, <2>3 DEF WrittenBefore, Interrupted
  <2>5. /\ journal' = j /\ (OwnerLives' <=> OwnerLives)
        /\ \E r \in Start : /\ r.at = to /\ SameGeneration(p, r) /\ SameHeld(p, r)
                            /\ WrittenBefore(p, r)' => Starts' /\ AllNoted'
    <3>1. to \in Places \ ({"idle", "again", "begin", "running", "done"} \cup Unwinding \cup Leaving)
      BY DEF Places
    <3>2. to \in Looking => starts[p].at \in Looking
      BY <2>3
    <3>3. ~starts[p].recovering
      BY <1>r, <2>3
    <3> QED
      BY <1>0, <2>1, <2>2, <2>3, <2>4, <3>1, <3>2, <3>3, NotesTo
  <2>6. PICK r \in Start : /\ r.at = to /\ SameGeneration(p, r) /\ SameHeld(p, r)
                           /\ WrittenBefore(p, r)' => Starts' /\ AllNoted'
    BY <2>5
  <2>7. WrittenBefore(p, r)'
    BY <1>h, <2>2, <2>3, <2>4, <2>5, <2>6 DEF WrittenBefore, SameGeneration, SameHeld, Interrupted, Phase
  <2> QED
    BY <2>6, <2>7
<1> QED
  BY <1>1, <1>2, <1>3, <1>4, <1>5, <1>6, <1>7

(* What is acquired or about to be launched is noted to be given back. *)
LEMMA NotingToGiveBack ==
  ASSUME HoldInv, Starts, AllNoted, NEW p \in Process, NoteAllocation(p) \/ Intend(p)
  PROVE  Starts' /\ AllNoted'
<1> USE DEF NotYet, Looking, Resuming, Beginning, Reserving, Bound, InLoop, Later, Leaving, Unwinding
<1>0. Starting(p)
  BY DEF NoteAllocation, Intend, At, Starting
<1>h. /\ StartupTypes /\ journal \in Journal /\ starts \in [Process -> Start] /\ starts[p] \in Start
      /\ Placed(starts[p]) /\ Copy(p) = journal /\ starts[p].copy = journal
      /\ WrittenBefore(p, starts[p]) /\ Unwound(starts[p])
      /\ \A q \in Process : Starting(q) => q = p
  BY <1>0, Stands
<1>i. /\ starts[p].generation \in Id /\ starts[p].allocation \in Id /\ Copy(p).allocation \in Id
      /\ starts[p].held \in SUBSET Resources /\ starts[p].todo \in SUBSET Resources
      /\ Copy(p).pending \in SUBSET Resources
  BY Here
<1>r. starts[p].at \notin Unwinding => ~starts[p].recovering
  BY <1>0, <1>h DEF Placed, Starting
<1>1. CASE NoteAllocation(p)
  <2> DEFINE j == [Noted(Copy(p), {}, {"allocation"}) EXCEPT !.allocation = starts[p].allocation]
  <2>1. PICK to \in {"own"} : Writes(p, j, to)
    BY <1>1 DEF NoteAllocation, Intended
  <2>2. /\ j \in Journal /\ j.done = journal.done
        /\ j.generation = journal.generation /\ j.status = journal.status /\ j.committed = journal.committed
        /\ j.pending = journal.pending \cup {"allocation"}
    BY <1>h, <1>i DEF Noted, Journal, Resources
  <2> HIDE DEF j
  <2>3. starts[p].at = "noteAllocation" /\ UNCHANGED <<generations, owner, service, plan, instances, dead>>
    BY <1>1 DEF NoteAllocation, At, registries, endpoints, records, history, undoings
  <2>4. Interrupted /\ j.status \in {"active", "blocked"}
    BY <1>h, <2>2, <2>3 DEF WrittenBefore, Interrupted
  <2>5. /\ journal' = j /\ (OwnerLives' <=> OwnerLives)
        /\ \E r \in Start : /\ r.at = to /\ SameGeneration(p, r) /\ SameHeld(p, r)
                            /\ WrittenBefore(p, r)' => Starts' /\ AllNoted'
    <3>1. to \in Places \ ({"idle", "again", "begin", "running", "done"} \cup Unwinding \cup Leaving)
      BY DEF Places
    <3>2. to \notin Looking
      BY <2>3
    <3>3. ~starts[p].recovering
      BY <1>r, <2>3
    <3> QED
      BY <1>0, <2>1, <2>2, <2>3, <2>4, <3>1, <3>2, <3>3, NotesTo
  <2>6. PICK r \in Start : /\ r.at = to /\ SameGeneration(p, r) /\ SameHeld(p, r)
                           /\ WrittenBefore(p, r)' => Starts' /\ AllNoted'
    BY <2>5
  <2>7. WrittenBefore(p, r)'
    BY <1>h, <2>2, <2>3, <2>4, <2>5, <2>6 DEF WrittenBefore, SameGeneration, SameHeld, Interrupted, Phase
  <2> QED
    BY <2>6, <2>7
<1>2. CASE Intend(p)
  <2> DEFINE j == [Noted(Copy(p), {}, {"service"}) EXCEPT !.started = TRUE]
  <2>1. PICK to \in {"launch"} : Writes(p, j, to)
    BY <1>2 DEF Intend, Intended
  <2>2. /\ j \in Journal /\ j.done = journal.done
        /\ j.generation = journal.generation /\ j.status = journal.status /\ j.committed = journal.committed
        /\ j.pending = journal.pending \cup {"service"} /\ j.allocation = journal.allocation
    BY <1>h, <1>i DEF Noted, Journal, Resources
  <2> HIDE DEF j
  <2>3. starts[p].at = "services" /\ UNCHANGED <<generations, owner, service, plan, instances, dead>>
    BY <1>2 DEF Intend, At, registries, endpoints, records, history, undoings
  <2>4. Interrupted /\ j.status \in {"active", "blocked"}
    BY <1>h, <2>2, <2>3 DEF WrittenBefore, Interrupted
  <2>5. /\ journal' = j /\ (OwnerLives' <=> OwnerLives)
        /\ \E r \in Start : /\ r.at = to /\ SameGeneration(p, r) /\ SameHeld(p, r)
                            /\ WrittenBefore(p, r)' => Starts' /\ AllNoted'
    <3>1. to \in Places \ ({"idle", "again", "begin", "running", "done"} \cup Unwinding \cup Leaving)
      BY DEF Places
    <3>2. to \notin Looking
      BY <2>3
    <3>3. ~starts[p].recovering
      BY <1>r, <2>3
    <3> QED
      BY <1>0, <2>1, <2>2, <2>3, <2>4, <3>1, <3>2, <3>3, NotesTo
  <2>6. PICK r \in Start : /\ r.at = to /\ SameGeneration(p, r) /\ SameHeld(p, r)
                           /\ WrittenBefore(p, r)' => Starts' /\ AllNoted'
    BY <2>5
  <2>7. WrittenBefore(p, r)'
    BY <1>h, <2>2, <2>3, <2>4, <2>5, <2>6 DEF WrittenBefore, SameGeneration, SameHeld, Interrupted, Phase
  <2> QED
    BY <2>6, <2>7
<1> QED
  BY <1>1, <1>2

(* rollbackInterruptedStartup begins with what the journal says is pending. *)
LEMMA RollingBackKeeps ==
  ASSUME HoldInv, Starts, AllNoted, NEW p \in Process, Rollback(p)
  PROVE  Starts' /\ AllNoted'
<1> USE DEF NotYet, Looking, Resuming, Beginning, Reserving, Bound, InLoop, Later, Leaving, Unwinding
<1>0. Starting(p)
  BY DEF Rollback, At, Starting
<1>h. /\ StartupTypes /\ journal \in Journal /\ starts \in [Process -> Start] /\ starts[p] \in Start
      /\ Placed(starts[p]) /\ Copy(p) = journal /\ starts[p].copy = journal
      /\ WrittenBefore(p, starts[p]) /\ Unwound(starts[p])
      /\ \A q \in Process : Starting(q) => q = p
  BY <1>0, Stands
<1>i. /\ starts[p].generation \in Id /\ starts[p].allocation \in Id /\ Copy(p).allocation \in Id
      /\ starts[p].held \in SUBSET Resources /\ starts[p].todo \in SUBSET Resources
      /\ Copy(p).pending \in SUBSET Resources
  BY Here
<1>1. PICK r \in Start :
        /\ Becomes(p, r) /\ r.at = "undo" /\ r.copy = Activated(p) /\ SameGeneration(p, r) /\ SameHeld(p, r)
  BY <1>h, RollbackTo
<1>2. journal' = Activated(p) /\ UNCHANGED <<generations, owner, service, plan, instances, dead>>
      /\ starts[p].at = "rollback"
  BY DEF Rollback, At, registries, endpoints, records, history, undoings
<1>3. /\ journal'.generation = journal.generation /\ journal'.committed = journal.committed
      /\ journal'.status = "active" /\ journal.pending = journal'.pending /\ journal.done = journal'.done
      /\ journal'.allocation = journal.allocation
  BY <1>h, <1>2 DEF Activated, Journal
<1>4. ~journal.committed /\ Interrupted /\ ~OwnerLives
  BY <1>h, <1>2 DEF WrittenBefore
<1>5. ~OwnerLives'
  BY <1>2, <1>3, <1>4 DEF OwnerLives, Alive
<1>6. WrittenBefore(p, r)' /\ Unwound(r)'
  BY <1>1, <1>3, <1>4, <1>5 DEF WrittenBefore, Unwound, Interrupted
<1>7. Early(starts[p])
  BY <1>2 DEF Early
<1>8. Grows
  BY <1>3, <1>4 DEF Grows
<1>9. r.at \notin {"idle", "running", "done"} \cup Leaving /\ r.copy = journal'
  BY <1>1, <1>2
<1> QED
  BY <1>0, <1>1, <1>2, <1>6, <1>7, <1>8, <1>9, NotingKeeps

(* The journal of a generation that is committed. *)
Closes ==
  /\ journal'.generation = journal.generation /\ journal'.committed /\ journal'.status # "rolled_back"
  /\ journal'.done = journal.done

LEMMA ClosingNotes ==
  ASSUME AllNoted, Closes, UNCHANGED <<generations, owner, service, plan, instances, dead>>,
         "generation" \in journal.done, Phase(journal.generation) \notin {"starting", "failed"}
  PROVE  AllNoted'
<1>1. Outcomes'
  BY DEF AllNoted, Closes, Outcomes, Phase
<1>2. OwnerNoted'
  BY DEF AllNoted, Closes, OwnerNoted, Phase
<1>3. GenerationNoted'
  BY DEF Closes, GenerationNoted
<1>4. PlanNoted'
  BY DEF AllNoted, Closes, PlanNoted
<1> QED
  BY <1>1, <1>2, <1>3, <1>4 DEF AllNoted

LEMMA ClosingKeeps ==
  ASSUME HoldInv, Starts, AllNoted, NEW p \in Process, NoteCommitted(p) \/ Seal(p) \/ SealFails(p) \/ Cleaned(p)
  PROVE  Starts' /\ AllNoted'
<1> USE DEF NotYet, Looking, Resuming, Beginning, Reserving, Bound, InLoop, Later, Leaving, Unwinding
<1>0. Starting(p)
  BY DEF NoteCommitted, Seal, SealFails, Cleaned, At, Starting
<1>h. /\ StartupTypes /\ journal \in Journal /\ starts \in [Process -> Start] /\ starts[p] \in Start
      /\ Placed(starts[p]) /\ Copy(p) = journal /\ starts[p].copy = journal
      /\ WrittenBefore(p, starts[p]) /\ Unwound(starts[p])
      /\ \A q \in Process : Starting(q) => q = p
  BY <1>0, Stands
<1>i. /\ starts[p].generation \in Id /\ starts[p].allocation \in Id /\ Copy(p).allocation \in Id
      /\ starts[p].held \in SUBSET Resources /\ starts[p].todo \in SUBSET Resources
      /\ Copy(p).pending \in SUBSET Resources
  BY Here
<1>r. starts[p].at \notin Unwinding => ~starts[p].recovering
  BY <1>0, <1>h DEF Placed, Starting
<1>1. /\ starts[p].at \in {"noteCommitted", "seal", "cleaning"}
      /\ UNCHANGED <<generations, owner, service, plan, instances, dead>>
  BY DEF NoteCommitted, Seal, SealFails, Cleaned, At, registries, endpoints, records, history, undoings
<1>2. "generation" \in journal.done /\ Phase(journal.generation) \notin {"starting", "failed"}
  BY <1>h, <1>1 DEF WrittenBefore, AllNoted, Outcomes
<1>3. PICK r \in Start :
        /\ Becomes(p, r) /\ r.copy = journal' /\ SameGeneration(p, r) /\ ~r.recovering
        /\ r.at \in {"seal", "running", "done", "again"}
        /\ r.at = "seal" => starts[p].at = "noteCommitted"
        /\ r.at = "again" => starts[p].at = "cleaning"
        /\ Closes
  <2>w. ASSUME NEW to \in Places, NEW j \in Journal, Writes(p, j, to)
        PROVE  journal' = j /\ \E r \in Start : /\ Becomes(p, r) /\ r.at = to /\ r.copy = journal'
                                                /\ SameGeneration(p, r) /\ r.recovering = starts[p].recovering
    <3>1. journal' = j
      BY <2>w DEF Writes
    <3> QED
      BY <1>h, <2>w, <3>1, WritesTo DEF SameTodo
  <2>1. CASE NoteCommitted(p)
    <3> DEFINE j == [Copy(p) EXCEPT !.committed = TRUE]
    <3>1. PICK to \in {"seal"} : Writes(p, j, to)
      BY <2>1 DEF NoteCommitted
    <3>2. j \in Journal /\ j.generation = journal.generation /\ j.committed /\ j.status = journal.status
          /\ j.done = journal.done
      BY <1>h DEF Journal
    <3> HIDE DEF j
    <3>3. starts[p].at = "noteCommitted" /\ journal.status # "rolled_back" /\ ~starts[p].recovering
      BY <1>h, <1>r, <2>1 DEF NoteCommitted, At, WrittenBefore, Interrupted
    <3>4. to \in Places
      BY DEF Places
    <3>5. Closes
      BY <2>w, <3>1, <3>2, <3>3, <3>4 DEF Closes
    <3> QED
      BY <2>w, <3>1, <3>2, <3>3, <3>4, <3>5
  <2>2. CASE Seal(p)
    <3> DEFINE j == [Copy(p) EXCEPT !.status = "committed", !.pending = {}]
    <3>1. PICK to \in {"running"} : Writes(p, j, to)
      BY <2>2 DEF Seal
    <3>2. j \in Journal /\ j.generation = journal.generation /\ j.committed = journal.committed
          /\ j.status = "committed" /\ j.done = journal.done
      BY <1>h DEF Journal
    <3> HIDE DEF j
    <3>3. journal.committed /\ ~starts[p].recovering
      BY <1>h, <1>r, <2>2 DEF Seal, At, WrittenBefore
    <3>4. to \in Places
      BY DEF Places
    <3>5. Closes
      BY <2>w, <3>1, <3>2, <3>3, <3>4 DEF Closes
    <3> QED
      BY <2>w, <3>1, <3>2, <3>3, <3>4, <3>5
  <2>3. CASE SealFails(p)
    <3> DEFINE j == [Copy(p) EXCEPT !.status = "blocked"]
    <3>1. PICK to \in {"running", "done"} : Writes(p, j, to)
      BY <2>3 DEF SealFails
    <3>2. j \in Journal /\ j.generation = journal.generation /\ j.committed = journal.committed
          /\ j.status = "blocked" /\ j.done = journal.done
      BY <1>h DEF Journal
    <3> HIDE DEF j
    <3>3. journal.committed /\ ~starts[p].recovering
      BY <1>h, <1>r, <2>3 DEF SealFails, At, WrittenBefore
    <3>4. to \in Places
      BY DEF Places
    <3>5. Closes
      BY <2>w, <3>1, <3>2, <3>3, <3>4 DEF Closes
    <3> QED
      BY <2>w, <3>1, <3>2, <3>3, <3>4, <3>5
  <2>4. CASE Cleaned(p)
    <3>1. PICK r \in Start :
             /\ Becomes(p, r) /\ r.at = "again" /\ r.copy = journal' /\ journal' \in Journal
             /\ journal' = [Copy(p) EXCEPT !.status = "committed", !.pending = {}]
             /\ SameGeneration(p, r) /\ SameTodo(p, r)
      BY <1>h, <2>4, CleanedTo
    <3>2. starts[p].at = "cleaning" /\ journal.committed /\ ~starts[p].recovering
      BY <1>h, <1>r, <2>4 DEF Cleaned, At, WrittenBefore
    <3>3. Closes
      BY <1>h, <3>1, <3>2 DEF Closes, Journal
    <3> QED
      BY <3>1, <3>2, <3>3 DEF SameTodo
  <2> QED
    BY <2>1, <2>2, <2>3, <2>4
<1>4. AllNoted'
  BY <1>1, <1>2, <1>3, ClosingNotes
<1>5. WrittenBefore(p, r)' /\ Unwound(r)'
  BY <1>h, <1>1, <1>3 DEF WrittenBefore, Unwound, Closes, SameGeneration, Phase
<1>6. (Early(r) => Early(starts[p])) /\ r.at \notin Leaving
  BY <1>3 DEF Early
<1>7. Starts'
  BY <1>h, <1>1, <1>3, <1>5, <1>6, StarterKeeps DEF Closes, SameGeneration, Phase
<1> QED
  BY <1>4, <1>7

-----------------------------------------------------------------------------
(* How a start begins *)

(* What is rolled back or resumed was never committed, and no process of its generation lives. *)
LEMMA ClassTells ==
  ASSUME HoldInv, AllNoted
  PROVE  /\ Class(journal) \in {"rollback", "resume"} => ~journal.committed /\ Interrupted /\ ~OwnerLives
         /\ Class(journal) = "cleanup" => journal.committed
<1>1. journal \in Journal /\ (Interrupted => journal.generation \in Process)
  BY Here DEF HoldInv, Names, StartupTypes, WorldTypes, Interrupted
<1>2. CommittedClass(journal) \in {"refused", "cleanup"}
  BY DEF CommittedClass
<1>3. UncommittedClass(journal) \in {"refused", "rollback", "resume"}
  BY DEF UncommittedClass, ServiceClass
<1>4. CASE ~Interrupted
  BY <1>1, <1>4, ClassIs DEF Interrupted
<1>5. CASE Interrupted /\ \E g \in Process \ {journal.generation} : HasService(g)
  BY <1>5 DEF Class, Interrupted
<1>6. CASE Interrupted /\ ~(\E g \in Process \ {journal.generation} : HasService(g))
  <2>1. CASE generations[journal.generation].phase = "none" /\ "generation" \notin journal.done
    <3>1. Class(journal) = "rollback" /\ ~journal.committed
      BY <1>6, <2>1 DEF Class, Interrupted, AllNoted, Outcomes
    <3>2. journal.generation # "none"
      BY <1>1, <1>6, ProcessAssumption
    <3>3. ~OwnerLives
      BY <2>1, <3>2 DEF AllNoted, OwnerNoted, OwnerLives, Phase
    <3> QED
      BY <1>6, <3>1, <3>3
  <2>2. CASE ~(generations[journal.generation].phase = "none" /\ "generation" \notin journal.done)
             /\ Unauthoritative(journal)
    BY <1>6, <2>2 DEF Class, Interrupted
  <2>3. CASE ~(generations[journal.generation].phase = "none" /\ "generation" \notin journal.done)
             /\ ~Unauthoritative(journal)
    <3>1. Class(journal) = IF journal.committed THEN CommittedClass(journal) ELSE UncommittedClass(journal)
      BY <1>6, <2>3 DEF Class, Interrupted
    <3>2. journal.generation # "none"
      BY <1>1, <1>6, ProcessAssumption
    <3>3. ~OwnerLives
      BY <2>3, <3>2 DEF Unauthoritative, OwnerLives
    <3> QED
      BY <1>2, <1>3, <1>6, <3>1, <3>3
  <2> QED
    BY <2>1, <2>2, <2>3
<1> QED
  BY <1>4, <1>5, <1>6

(* inspectStartupRecovery, by a process during whose start no other begins. *)
LEMMA InspectingKeeps ==
  ASSUME HoldInv, Starts, AllNoted, NEW p \in Process, Inspect(p), \A q \in Process \ {p} : ~Starting(q)
  PROVE  Starts' /\ AllNoted'
<1>1. PICK r \in Start :
         /\ Becomes(p, r) /\ r.copy = journal /\ SameGeneration(p, r) /\ SameTodo(p, r) /\ SameHeld(p, r)
         /\ \/ r.at \in {"done", "begin"}
            \/ r.at \in {"rollback", "cleanup", "resume"} /\ r.at = Class(journal)
            \/ r.at = "rollback" /\ Class(journal) = "resume"
  BY InspectTo DEF HoldInv
<1>2. \A q \in Process : Starting(q) => q = p
  OBVIOUS
<1>3. UNCHANGED <<journal, generations, owner, service, plan, instances, dead>> /\ starts[p].at \in {"idle", "again"}
  BY DEF Inspect, At, registries, endpoints, records
<1>4. AllNoted'
  BY <1>3, NotesStay
<1>5. WrittenBefore(p, r)
  BY <1>1, ClassTells DEF WrittenBefore, Looking, Resuming, Beginning, Reserving, Bound, InLoop, Later, Unwinding
<1>6. Unwound(r) /\ r.at \notin {"running"} \cup Leaving
  BY <1>1 DEF Unwound, Leaving
<1>7. WrittenBefore(p, r)' /\ Unwound(r)'
  BY <1>3, <1>5, <1>6 DEF WrittenBefore, Unwound, Interrupted, Phase, OwnerLives, Alive
<1>8. Early(starts[p])
  BY <1>3 DEF Early
<1> QED
  BY <1>1, <1>2, <1>3, <1>4, <1>6, <1>7, <1>8, StarterKeeps DEF SameGeneration, Phase

(* beginStartupTransaction: the journal of a generation that nothing tells of yet. *)
LEMMA BeginningKeeps ==
  ASSUME HoldInv, Starts, AllNoted, NEW p \in Process, Begin(p)
  PROVE  Starts' /\ AllNoted'
<1> USE DEF NotYet, Looking, Resuming, Beginning, Reserving, Bound, InLoop, Later, Leaving, Unwinding
<1>0. Starting(p)
  BY DEF Begin, At, Starting
<1>h. /\ StartupTypes /\ journal \in Journal /\ starts \in [Process -> Start] /\ starts[p] \in Start
      /\ Placed(starts[p]) /\ Copy(p) = journal /\ starts[p].copy = journal
      /\ WrittenBefore(p, starts[p]) /\ Unwound(starts[p])
      /\ \A q \in Process : Starting(q) => q = p
  BY <1>0, Stands
<1>i. /\ starts[p].generation \in Id /\ starts[p].allocation \in Id /\ Copy(p).allocation \in Id
      /\ starts[p].held \in SUBSET Resources /\ starts[p].todo \in SUBSET Resources
      /\ Copy(p).pending \in SUBSET Resources
  BY Here
<1>1. CASE Interrupted
  <2>1. Goes(p, "done") /\ journal' = journal
    BY <1>1 DEF Begin
  <2>2. PICK r \in Start : /\ Becomes(p, r) /\ r.at = "done"
                           /\ SameCopy(p, r) /\ SameGeneration(p, r) /\ SameTodo(p, r)
    BY <1>h, <2>1, GoesTo DEF Places
  <2>3. (Early(r) => Early(starts[p])) /\ r.at \notin {"running"} \cup Leaving
    BY <2>2 DEF Early, SameTodo
  <2>4. UNCHANGED <<generations, owner, service, plan, instances, dead>>
    BY DEF Begin, registries, endpoints, records, history, undoings
  <2> QED
    BY <1>0, <2>1, <2>2, <2>3, <2>4, SilentKeeps
<1>2. CASE ~Interrupted
  <2> DEFINE j == [NoJournal EXCEPT !.generation = p, !.status = "active"]
  <2>1. PICK to \in {"noteAdoption", "generate"} : Writes(p, j, to)
    BY <1>2 DEF Begin
  <2>2. /\ j \in Journal /\ j.generation = p /\ j.status = "active" /\ ~j.committed /\ j.allocation = "none"
    BY DEF NoJournal, Journal, Id
  <2> HIDE DEF j
  <2>3. journal' = j
    BY <2>1 DEF Writes
  <2>4. PICK r \in Start : /\ Becomes(p, r) /\ r.at = to /\ r.copy = j
                           /\ SameGeneration(p, r) /\ SameTodo(p, r) /\ SameHeld(p, r)
    BY <1>h, <2>1, <2>2, WritesTo DEF Places
  <2>5. /\ starts' \in [Process -> Start] /\ starts'[p] = r
        /\ \A q \in Process : q # p => starts'[q] = starts[q]
    BY <1>h, <2>4, OthersStay
  <2>6. UNCHANGED <<generations, owner, service, plan, instances, dead>> /\ starts[p].at = "begin"
    BY DEF Begin, At, registries, endpoints, records, history, undoings
  <2>7. Traceless(p) /\ ~starts[p].recovering
    BY <1>h, <2>6 DEF Starts, InPlace, Early, Placed
  <2>8. ~OwnerLives'
    BY <2>2, <2>3, <2>6, <2>7 DEF OwnerLives, Traceless
  <2>9. AllNoted'
    <3>1. Outcomes'
      BY <2>2, <2>3 DEF Outcomes
    <3>2. OwnerNoted'
      BY <2>6, <2>8 DEF AllNoted, OwnerNoted, Phase
    <3>3. GenerationNoted'
      BY <2>2, <2>3, <2>6, <2>7 DEF GenerationNoted, Traceless, Phase
    <3>4. PlanNoted'
      BY <2>2, <2>3, <2>6 DEF AllNoted, PlanNoted
    <3> QED
      BY <3>1, <3>2, <3>3, <3>4 DEF AllNoted
  <2>10. WrittenBefore(p, r)' /\ Unwound(r)'
    BY <2>2, <2>3, <2>4, <2>8 DEF WrittenBefore, Unwound, Interrupted
  <2>11. ASSUME NEW q \in Process, Starting(q)' PROVE q = p
    BY <1>h, <2>5, <2>6, <2>11 DEF Starting
  <2>12. OneStart'
    BY <2>3, <2>4, <2>5, <2>11 DEF OneStart, Copy
  <2>13. ASSUME NEW q \in Process PROVE InPlace(q)'
    <3>1. CASE q = p
      <4>1. ~Early(r) /\ r.at \notin {"running"} \cup Leaving
        BY <2>4, <2>7 DEF Early, SameTodo
      <4> QED
        BY <2>5, <2>10, <3>1, <4>1 DEF InPlace, Committed
    <3>2. CASE q # p
      <4>1. (~Starting(q))' /\ starts'[q] = starts[q]
        BY <2>5, <2>11, <3>2
      <4>2. (Early(starts[q]) => Traceless(q))'
        <5>1. ASSUME Early(starts'[q]) PROVE Traceless(q)'
          <6>1. Traceless(q)
            BY <4>1, <5>1 DEF Starts, InPlace
          <6>2. \A h \in Process : starts'[h].generation = starts[h].generation
            BY <2>4, <2>5 DEF SameGeneration
          <6> QED
            BY <2>2, <2>3, <2>6, <3>2, <6>1, <6>2 DEF Traceless, Phase
        <5> QED
          BY <5>1 DEF Early
      <4>3. Committed(q)'
        BY <2>2, <2>3, <2>6, <2>7, <4>1 DEF Committed, Traceless
      <4> QED
        BY <4>1, <4>2, <4>3 DEF InPlace
    <3> QED
      BY <3>1, <3>2
  <2> QED
    BY <2>9, <2>12, <2>13 DEF Starts
<1> QED
  BY <1>1, <1>2

-----------------------------------------------------------------------------
(* What a start acquires *)

(* beginRuntimeGeneration and recoverRuntimeGeneration *)
LEMMA TakingKeeps ==
  ASSUME HoldInv, Starts, AllNoted, NEW p \in Process, Recover(p) \/ Generate(p)
  PROVE  Starts' /\ AllNoted'
<1> USE DEF NotYet, Looking, Resuming, Beginning, Reserving, Bound, InLoop, Later, Leaving, Unwinding
<1>0. Starting(p)
  BY DEF Recover, Generate, At, Starting
<1>h. /\ StartupTypes /\ journal \in Journal /\ starts \in [Process -> Start] /\ starts[p] \in Start
      /\ Placed(starts[p]) /\ Copy(p) = journal /\ starts[p].copy = journal
      /\ WrittenBefore(p, starts[p]) /\ Unwound(starts[p])
      /\ \A q \in Process : Starting(q) => q = p
  BY <1>0, Stands
<1>i. /\ starts[p].generation \in Id /\ starts[p].allocation \in Id /\ Copy(p).allocation \in Id
      /\ starts[p].held \in SUBSET Resources /\ starts[p].todo \in SUBSET Resources
      /\ Copy(p).pending \in SUBSET Resources
  BY Here
<1>1. /\ starts[p].at \in {"recover", "generate"}
      /\ UNCHANGED <<journal, owner, service, plan, instances, dead>>
  BY DEF Recover, Generate, At, endpoints, records, history, undoings
<1>2. ~OwnerLives /\ ~journal.committed /\ Interrupted /\ ~starts[p].recovering
  BY <1>h, <1>1 DEF WrittenBefore, Placed
<1>3. CASE Fails(p) /\ generations' = generations
  <2>1. PICK todo \in SUBSET Resources : todo = {}
    OBVIOUS
  <2>2. PICK to \in Places : to = "undo"
    BY DEF Places
  <2>3. Undoes(p, to, todo)
    BY <1>3, <2>1, <2>2 DEF Undoes, Fails
  <2>4. PICK r \in Start : /\ Becomes(p, r) /\ r.at = to /\ r.recovering = starts[p].recovering
                           /\ SameCopy(p, r) /\ SameGeneration(p, r)
    BY <1>h, <2>3, UndoesTo
  <2> QED
    BY <1>0, <1>1, <1>2, <1>3, <2>2, <2>4, FailedKeeps
<1>4. CASE Taken(p, journal.generation, "noteGeneration")
  <2>1. PICK g \in Process : g = journal.generation
    BY <1>h, <1>1 DEF Placed, Journaling
  <2>2. PICK to \in Places : to = "noteGeneration"
    BY DEF Places
  <2>3. Taken(p, g, to)
    BY <1>4, <2>1, <2>2
  <2>4. PICK r \in Start : /\ Becomes(p, r) /\ r.at = to /\ r.generation = g
                           /\ SameCopy(p, r) /\ SameTodo(p, r) /\ SameHeld(p, r)
    BY <1>h, <2>3, TakenTo
  <2>5. /\ generations'[g].phase = "starting"
        /\ \A h \in Process : h # g => \/ generations'[h] = generations[h]
                                       \/ /\ generations[h].phase \in {"starting", "running", "stopping"}
                                          /\ generations'[h].phase = "superseded"
    BY <1>h, <2>3, TakenIs
  <2>6. /\ Phase(g)' = "starting"
        /\ \A h \in Process : h # g => \/ Phase(h)' = Phase(h)
                                       \/ Phase(h) # "none" /\ Phase(h)' = "superseded"
    BY <2>5 DEF Phase
  <2>7. /\ journal' = journal /\ owner' = owner /\ service' = service /\ plan' = plan /\ dead' = dead
        /\ instances' = instances
    BY <1>1
  <2>8. ~OwnerLives'
    BY <1>2, <2>7 DEF OwnerLives, Alive
  <2>9. AllNoted'
    <3>1. Outcomes'
      BY <1>2, <2>7 DEF AllNoted, Outcomes
    <3>2. OwnerNoted'
      <4>1. owner.generation \in Process \cup {"none"}
        BY <1>h DEF StartupTypes, WorldTypes, Id
      <4>2. owner.generation # "none" => Phase(owner.generation)' # "none"
        BY <2>6, <2>7, <4>1 DEF AllNoted, OwnerNoted
      <4> QED
        BY <2>7, <2>8, <4>2 DEF AllNoted, OwnerNoted
    <3>3. GenerationNoted'
      BY <2>1, <2>6, <2>7 DEF GenerationNoted
    <3>4. PlanNoted'
      BY <2>7 DEF AllNoted, PlanNoted
    <3> QED
      BY <3>1, <3>2, <3>3, <3>4 DEF AllNoted
  <2>10. WrittenBefore(p, r)' /\ Unwound(r)'
    <3>1. Phase(journal.generation)' # "none"
      BY <2>1, <2>6, <2>7
    <3> QED
      BY <1>2, <2>1, <2>2, <2>4, <2>7, <2>8, <3>1 DEF WrittenBefore, Unwound, Interrupted
  <2>11. ~Early(r) /\ r.at \notin {"running"} \cup Leaving /\ r.copy = journal'
    BY <1>h, <1>2, <2>2, <2>4, <2>7 DEF Early, SameTodo, SameCopy
  <2>12. \A h \in Process : Phase(h)' # "none" => Phase(h) # "none" \/ h = journal.generation
    BY <2>1, <2>6
  <2>13. Starts'
    BY <1>h, <2>1, <2>4, <2>7, <2>10, <2>11, <2>12, StarterKeeps
  <2> QED
    BY <2>9, <2>13
<1>5. CASE Recover(p)
  <2>1. CASE /\ active = journal.generation
             /\ ~Alive(generations[journal.generation].pid)
             /\ owner.pid # "none" => owner.generation = journal.generation /\ ~Alive(owner.pid)
    BY <1>h, <1>4, <1>5, <2>1 DEF Recover
  <2>2. CASE ~(/\ active = journal.generation
               /\ ~Alive(generations[journal.generation].pid)
               /\ owner.pid # "none" => owner.generation = journal.generation /\ ~Alive(owner.pid))
    BY <1>h, <1>3, <1>5, <2>2 DEF Recover
  <2> QED
    BY <2>1, <2>2
<1>6. CASE Generate(p)
  <2>1. journal.generation = p
    BY <1>h, <1>6 DEF Generate, At, WrittenBefore
  <2> QED
    BY <1>3, <1>4, <1>6, <2>1 DEF Generate
<1> QED
  BY <1>5, <1>6

(* planAndReserveRuntimeEndpoints, its second half. *)
LEMMA ReservingKeeps ==
  ASSUME HoldInv, Starts, AllNoted, NEW p \in Process, ReservePlan(p)
  PROVE  Starts' /\ AllNoted'
<1> USE DEF NotYet, Looking, Resuming, Beginning, Reserving, Bound, InLoop, Later, Leaving, Unwinding
<1>0. Starting(p)
  BY DEF ReservePlan, At, Starting
<1>h. /\ StartupTypes /\ journal \in Journal /\ starts \in [Process -> Start] /\ starts[p] \in Start
      /\ Placed(starts[p]) /\ Copy(p) = journal /\ starts[p].copy = journal
      /\ WrittenBefore(p, starts[p]) /\ Unwound(starts[p])
      /\ \A q \in Process : Starting(q) => q = p
  BY <1>0, Stands
<1>i. /\ starts[p].generation \in Id /\ starts[p].allocation \in Id /\ Copy(p).allocation \in Id
      /\ starts[p].held \in SUBSET Resources /\ starts[p].todo \in SUBSET Resources
      /\ Copy(p).pending \in SUBSET Resources
  BY Here
<1>1. StartupTypes /\ p \in Id /\ Holds(p, p)
  BY <1>h DEF ReservePlan, Holds, Id
<1>2. PICK r \in Start : Held(p, r)
  BY <1>1, HoldsTo
<1>3. /\ Becomes(p, r) /\ r.at = "noteAllocation"
      /\ SameCopy(p, r) /\ SameGeneration(p, r) /\ SameTodo(p, r)
  BY <1>2 DEF Held
<1>4. /\ starts[p].at = "reservePlan" /\ plan'.allocation = p
      /\ journal' = journal /\ generations' = generations /\ owner' = owner /\ service' = service
      /\ instances' = instances /\ dead' = dead
  BY DEF ReservePlan, At, registries, records, history, undoings
<1>5. AllNoted'
  <2>1. Outcomes'
    BY <1>4 DEF AllNoted, Outcomes, Phase
  <2>2. OwnerNoted'
    BY <1>4 DEF AllNoted, OwnerNoted, Phase, OwnerLives, Alive
  <2>3. GenerationNoted'
    BY <1>4 DEF AllNoted, GenerationNoted, Phase
  <2>4. PlanNoted'
    BY <1>h, <1>4, ProcessAssumption DEF PlanNoted, WrittenBefore
  <2> QED
    BY <2>1, <2>2, <2>3, <2>4 DEF AllNoted
<1>6. WrittenBefore(p, r)' /\ Unwound(r)'
  <2>1. OwnerLives' <=> OwnerLives
    BY <1>4 DEF OwnerLives, Alive
  <2> QED
    BY <1>h, <1>1, <1>3, <1>4, <2>1 DEF WrittenBefore, Unwound, Interrupted, Phase, SameGeneration
<1>7. ~Early(r) /\ r.at \notin {"running"} \cup Leaving /\ r.copy = journal'
  BY <1>h, <1>1, <1>3, <1>4 DEF Early, SameTodo, SameCopy, Placed
<1> QED
  BY <1>h, <1>3, <1>4, <1>5, <1>6, <1>7, StarterKeeps DEF SameGeneration, Phase

(* claimRuntimeEndpointAllocation *)
LEMMA ClaimingKeeps ==
  ASSUME HoldInv, Starts, AllNoted, NEW p \in Process, Claim(p)
  PROVE  Starts' /\ AllNoted'
<1> USE DEF NotYet, Looking, Resuming, Beginning, Reserving, Bound, InLoop, Later, Leaving, Unwinding
<1>0. Starting(p)
  BY DEF Claim, At, Starting
<1>h. /\ StartupTypes /\ journal \in Journal /\ starts \in [Process -> Start] /\ starts[p] \in Start
      /\ Placed(starts[p]) /\ Copy(p) = journal /\ starts[p].copy = journal
      /\ WrittenBefore(p, starts[p]) /\ Unwound(starts[p])
      /\ \A q \in Process : Starting(q) => q = p
  BY <1>0, Stands
<1>i. /\ starts[p].generation \in Id /\ starts[p].allocation \in Id /\ Copy(p).allocation \in Id
      /\ starts[p].held \in SUBSET Resources /\ starts[p].todo \in SUBSET Resources
      /\ Copy(p).pending \in SUBSET Resources
  BY Here
<1>1. starts[p].at = "claim" /\ UNCHANGED <<journal, generations, owner, service, plan, instances, dead>>
  BY DEF Claim, At, registries, records, history, undoings
<1>2. CASE starts' = [starts EXCEPT ![p].at = "noteAllocation", ![p].allocation = Copy(p).allocation,
                                    ![p].held = {"allocation"}]
  <2>1. StartupTypes /\ Copy(p).allocation \in Id /\ Holds(p, Copy(p).allocation)
    BY <1>h, <1>i, <1>2 DEF Holds
  <2>2. PICK r \in Start : Held(p, r)
    BY <2>1, HoldsTo
  <2>3. /\ Becomes(p, r) /\ r.at = "noteAllocation"
        /\ SameCopy(p, r) /\ SameGeneration(p, r) /\ SameTodo(p, r)
    BY <2>2 DEF Held
  <2>4. WrittenBefore(p, r) /\ Unwound(r)
    BY <1>h, <1>1, <2>1, <2>3 DEF WrittenBefore, Unwound, SameGeneration
  <2>5. ~Early(r) /\ r.at \notin {"running"} \cup Leaving
    BY <1>h, <1>1, <2>1, <2>3 DEF Early, SameTodo, Placed
  <2> QED
    BY <1>0, <1>1, <2>3, <2>4, <2>5, SilentKeeps
<1>3. CASE starts' = [starts EXCEPT ![p].at = "undo", ![p].todo = {"generation"}]
  <2>1. PICK to \in Places, todo \in SUBSET Resources : to = "undo" /\ todo = {"generation"}
    BY DEF Places, Resources
  <2>2. Undoes(p, to, todo)
    BY <1>3, <2>1 DEF Undoes
  <2>3. PICK r \in Start :
          /\ Becomes(p, r) /\ r.at = to /\ r.recovering = starts[p].recovering
          /\ SameCopy(p, r) /\ SameGeneration(p, r)
    BY <1>h, <2>2, UndoesTo
  <2>4. ~OwnerLives
    BY <1>h, <1>1 DEF WrittenBefore
  <2> QED
    BY <1>0, <1>1, <2>1, <2>3, <2>4, FailedKeeps
<1> QED
  BY <1>2, <1>3 DEF Claim

(* The runtime's row is written, and written again when the generation comes to run. *)
LEMMA OwningKeeps ==
  ASSUME HoldInv, Starts, AllNoted, NEW p \in Process, Own(p) \/ (Publish(p) /\ ~Unready(p))
  PROVE  Starts' /\ AllNoted'
<1> USE DEF NotYet, Looking, Resuming, Beginning, Reserving, Bound, InLoop, Later, Leaving, Unwinding
<1>0. Starting(p)
  BY DEF Own, Publish, At, Starting
<1>h. /\ StartupTypes /\ journal \in Journal /\ starts \in [Process -> Start] /\ starts[p] \in Start
      /\ Placed(starts[p]) /\ Copy(p) = journal /\ starts[p].copy = journal
      /\ WrittenBefore(p, starts[p]) /\ Unwound(starts[p])
      /\ \A q \in Process : Starting(q) => q = p
  BY <1>0, Stands
<1>i. /\ starts[p].generation \in Id /\ starts[p].allocation \in Id /\ Copy(p).allocation \in Id
      /\ starts[p].held \in SUBSET Resources /\ starts[p].todo \in SUBSET Resources
      /\ Copy(p).pending \in SUBSET Resources
  BY Here
<1>1. /\ starts[p].at \in {"own", "publish"} /\ owner' = RowOf(p)
      /\ journal' = journal /\ service' = service /\ plan' = plan /\ instances' = instances /\ dead' = dead
  BY DEF Own, Publish, At, endpoints, records, history, undoings
<1>2. PICK g \in Process : g = journal.generation /\ g = starts[p].generation
  BY <1>h, <1>1, ProcessAssumption DEF WrittenBefore, Placed, Holding
<1>3. /\ owner'.generation = g /\ ~journal.committed /\ Interrupted /\ g # "none" /\ Phase(g) # "none"
      /\ "generation" \in journal.pending /\ journal.pending \cap {"ownership", "allocation"} # {}
  BY <1>h, <1>1, <1>2, ProcessAssumption DEF RowOf, WrittenBefore
<1>4. /\ \A h \in Process : h # g => Phase(h)' = Phase(h)
      /\ Own(p) => Phase(g)' = Phase(g)
      /\ Publish(p) => Phase(g)' = "running"
  <2>1. generations \in [Process -> [phase : Phases, pid : Id]]
    BY <1>h DEF StartupTypes, WorldTypes
  <2>2. CASE Own(p)
    <3>1. ~Publish(p)
      BY <2>2 DEF Own, Publish, At
    <3> QED
      BY <2>2, <3>1 DEF Own, Phase
  <2>3. CASE Publish(p)
    <3>1. ~Own(p)
      BY <2>3 DEF Own, Publish, At
    <3>2. generations' = [generations EXCEPT ![g].phase = "running"]
      BY <1>2, <2>3, <3>1 DEF Publish
    <3> QED
      BY <2>1, <3>1, <3>2 DEF Phase
  <2> QED
    BY <2>2, <2>3
<1>5. PICK r \in Start :
        /\ Becomes(p, r) /\ SameCopy(p, r) /\ SameGeneration(p, r) /\ SameTodo(p, r)
        /\ \/ Own(p) /\ r.at = "noteOwnership" /\ "ownership" \in r.held /\ starts[p].at = "own"
           \/ Publish(p) /\ r.at = "noteCommitted" /\ starts[p].at = "publish"
  <2>1. CASE Own(p)
    BY <1>h, <2>1, OwnTo DEF Own, At
  <2>2. CASE Publish(p)
    <3>1. Goes(p, "noteCommitted")
      BY <2>2 DEF Own, Publish, At
    <3> QED
      BY <1>h, <2>2, <3>1, GoesTo DEF Publish, At, Places
  <2> QED
    BY <2>1, <2>2
<1>6. Phase(g)' # "none" /\ (Phase(g)' = Phase(g) \/ Phase(g)' = "running")
  BY <1>3, <1>4
<1>7. AllNoted'
  <2>1. Outcomes'
    BY <1>1, <1>3 DEF AllNoted, Outcomes, Interrupted
  <2>2. OwnerNoted'
    BY <1>1, <1>3, <1>6 DEF AllNoted, OwnerNoted
  <2>3. GenerationNoted'
    BY <1>1, <1>3 DEF GenerationNoted
  <2>4. PlanNoted'
    BY <1>1 DEF AllNoted, PlanNoted
  <2> QED
    BY <2>1, <2>2, <2>3, <2>4 DEF AllNoted
<1>8. WrittenBefore(p, r)' /\ Unwound(r)'
  <2>1. Phase(journal.generation)' = Phase(g)'
    BY <1>1, <1>2
  <2> QED
    BY <1>h, <1>1, <1>2, <1>3, <1>4, <1>5, <1>6, <2>1 DEF WrittenBefore, Unwound, Interrupted, SameGeneration
<1>9. ~Early(r) /\ r.at \notin {"running"} \cup Leaving /\ r.copy = journal'
  BY <1>h, <1>1, <1>5 DEF Early, SameTodo, SameCopy, Placed
<1>10. \A h \in Process : Phase(h)' # "none" => Phase(h) # "none" \/ h = journal.generation
  BY <1>2, <1>4
<1> QED
  BY <1>h, <1>1, <1>2, <1>3, <1>5, <1>7, <1>8, <1>9, <1>10, StarterKeeps DEF SameGeneration

(* The runtime's row is written again, and the service is not known to run. *)
LEMMA UnreadyKeeps ==
  ASSUME HoldInv, Starts, AllNoted, NEW p \in Process, Publish(p), Unready(p)
  PROVE  Starts' /\ AllNoted'
<1> USE DEF NotYet, Looking, Resuming, Beginning, Reserving, Bound, InLoop, Later, Leaving, Unwinding
<1>0. Starting(p)
  BY DEF Publish, At, Starting
<1>h. /\ StartupTypes /\ journal \in Journal /\ starts \in [Process -> Start] /\ starts[p] \in Start
      /\ Placed(starts[p]) /\ Copy(p) = journal /\ starts[p].copy = journal
      /\ WrittenBefore(p, starts[p]) /\ Unwound(starts[p])
      /\ \A q \in Process : Starting(q) => q = p
  BY <1>0, Stands
<1>i. /\ starts[p].generation \in Id /\ starts[p].allocation \in Id /\ Copy(p).allocation \in Id
      /\ starts[p].held \in SUBSET Resources /\ starts[p].todo \in SUBSET Resources
      /\ Copy(p).pending \in SUBSET Resources
  BY Here
<1>1. /\ starts[p].at = "publish" /\ owner' = RowOf(p)
      /\ journal' = journal /\ service' = service /\ plan' = plan /\ instances' = instances /\ dead' = dead
  BY DEF Publish, At, endpoints, records, history, undoings
<1>2. PICK r \in Start : /\ Becomes(p, r) /\ r.at = "undo" /\ r.recovering = starts[p].recovering
                        /\ SameCopy(p, r) /\ SameGeneration(p, r)
  BY <1>h, <1>i, UndoesTo DEF Unready, Undoes, Places
<1>3. starts'[p].at = "undo"
  BY <1>h, <1>2, OthersStay
<1>4. generations' = generations
  <2>1. ~Goes(p, "noteCommitted")
    BY <1>h, <1>3, GoesTo, OthersStay DEF Places
  <2> QED
    BY <2>1 DEF Publish
<1>5. /\ owner'.generation = journal.generation /\ ~journal.committed /\ Interrupted
      /\ Phase(journal.generation) # "none" /\ "ownership" \in journal.pending /\ ~starts[p].recovering
      /\ journal.generation # "none"
  BY <1>h, <1>1, ProcessAssumption DEF RowOf, WrittenBefore, Placed, Journaling
<1>6. AllNoted'
  <2>1. Outcomes'
    BY <1>1, <1>4 DEF AllNoted, Outcomes, Phase
  <2>2. OwnerNoted'
    BY <1>1, <1>4, <1>5 DEF AllNoted, OwnerNoted, Phase
  <2>3. GenerationNoted'
    BY <1>1, <1>4 DEF AllNoted, GenerationNoted, Phase
  <2>4. PlanNoted'
    BY <1>1 DEF AllNoted, PlanNoted
  <2> QED
    BY <2>1, <2>2, <2>3, <2>4 DEF AllNoted
<1>7. WrittenBefore(p, r)' /\ Unwound(r)'
  BY <1>1, <1>2, <1>5 DEF WrittenBefore, Unwound, Interrupted
<1>8. ~Early(r) /\ r.copy = journal'
  BY <1>h, <1>1, <1>2, <1>5 DEF Early, SameCopy
<1> QED
  BY <1>h, <1>1, <1>2, <1>4, <1>5, <1>6, <1>7, <1>8, StarterKeeps DEF SameGeneration, Phase

(* The service is launched, or one that runs is taken over. *)
LEMMA LaunchingKeeps ==
  ASSUME HoldInv, Starts, AllNoted, NEW p \in Process, Rediscover(p) \/ Enrol(p) \/ Rebind(p)
  PROVE  Starts' /\ AllNoted'
<1> USE DEF NotYet, Looking, Resuming, Beginning, Reserving, Bound, InLoop, Later, Leaving, Unwinding
<1>0. Starting(p)
  BY DEF Rediscover, Enrol, Rebind, At, Starting
<1>h. /\ StartupTypes /\ journal \in Journal /\ starts \in [Process -> Start] /\ starts[p] \in Start
      /\ Placed(starts[p]) /\ Copy(p) = journal /\ starts[p].copy = journal
      /\ WrittenBefore(p, starts[p]) /\ Unwound(starts[p])
      /\ \A q \in Process : Starting(q) => q = p
  BY <1>0, Stands
<1>i. /\ starts[p].generation \in Id /\ starts[p].allocation \in Id /\ Copy(p).allocation \in Id
      /\ starts[p].held \in SUBSET Resources /\ starts[p].todo \in SUBSET Resources
      /\ Copy(p).pending \in SUBSET Resources
  BY Here
<1>1. /\ starts[p].at \in {"launch", "enrol", "rebind"}
      /\ journal' = journal /\ generations' = generations /\ owner' = owner /\ plan' = plan
      /\ instances' = instances /\ dead' = dead
  BY DEF Rediscover, Enrol, Rebind, At, endpoints, records, history, undoings
<1>2. PICK g \in Process : g = journal.generation /\ g = starts[p].generation
  BY <1>h, <1>1 DEF WrittenBefore, Placed, Holding
<1>3. ~journal.committed /\ Interrupted /\ "ownership" \in journal.pending /\ ~starts[p].recovering
  BY <1>h, <1>1 DEF WrittenBefore, Placed
<1>4. ASSUME NEW to \in {"register", "store", "services"}, Turns(p, to, "own"),
             service'.generation \in {service.generation, g}
      PROVE  Starts' /\ AllNoted'
  <2>1. to \in Places
    BY DEF Places
  <2>2. PICK r \in Start : /\ Becomes(p, r) /\ r.at = to
                           /\ SameCopy(p, r) /\ SameGeneration(p, r) /\ SameTodo(p, r) /\ SameHeld(p, r)
    BY <1>h, <1>4, <2>1, TurnsTo
  <2>3. AllNoted'
    <3>1. Outcomes'
      BY <1>1 DEF AllNoted, Outcomes, Phase
    <3>2. OwnerNoted'
      BY <1>1 DEF AllNoted, OwnerNoted, Phase, OwnerLives, Alive
    <3>3. GenerationNoted'
      BY <1>1 DEF AllNoted, GenerationNoted, Phase
    <3>4. PlanNoted'
      BY <1>1 DEF AllNoted, PlanNoted
    <3> QED
      BY <3>1, <3>2, <3>3, <3>4 DEF AllNoted
  <2>4. WrittenBefore(p, r)' /\ Unwound(r)'
    BY <1>h, <1>1, <2>1, <2>2 DEF WrittenBefore, Unwound, Interrupted, Phase, SameGeneration
  <2>5. ~Early(r) /\ r.at \notin {"running"} \cup Leaving /\ r.copy = journal'
    BY <1>h, <1>1, <1>3, <2>1, <2>2 DEF Early, SameTodo, SameCopy
  <2>6. Starts'
    BY <1>h, <1>1, <1>2, <1>4, <2>2, <2>4, <2>5, StarterKeeps DEF SameGeneration, Phase
  <2> QED
    BY <2>3, <2>6
<1>5. CASE Rediscover(p)
  <2>1. service'.generation = service.generation
    BY <1>h, <1>5 DEF Rediscover, StartupTypes, WorldTypes
  <2> QED
    BY <1>4, <1>5, <2>1 DEF Rediscover, Turns
<1>6. CASE Enrol(p)
  BY <1>2, <1>4, <1>6 DEF Enrol, Turns
<1>7. CASE Rebind(p) /\ service.up /\ starts[p].runs # "none"
  BY <1>2, <1>4, <1>7 DEF Rebind, Turns
<1>8. CASE Rebind(p) /\ ~(service.up /\ starts[p].runs # "none")
  <2>1. PICK to \in Places : to = "undo"
    BY DEF Places
  <2>2. Undoes(p, to, Copy(p).pending) /\ service' = service
    BY <1>8, <2>1 DEF Undoes, Unready, Rebind
  <2>3. PICK r \in Start :
          /\ Becomes(p, r) /\ r.at = to /\ r.recovering = starts[p].recovering
          /\ SameCopy(p, r) /\ SameGeneration(p, r)
    BY <1>h, <1>i, <2>2, UndoesTo
  <2> QED
    BY <1>0, <1>1, <1>3, <2>1, <2>2, <2>3, FailedKeeps
<1> QED
  BY <1>5, <1>6, <1>7, <1>8

-----------------------------------------------------------------------------
(* A runtime that runs or stops, and a process that dies *)

(* What a process that is not at its start does to the records of its own generation. *)
LEMMA LeavingKeeps ==
  ASSUME HoldInv, Starts, AllNoted, NEW p \in Process,
         \/ StopBegins(p) \/ StopServices(p) \/ StopInstance(p) \/ Disown(p) \/ Stopped(p) \/ Release(p)
  PROVE  Starts' /\ AllNoted'
<1> USE DEF Leaving
<1>h. /\ StartupTypes /\ starts \in [Process -> Start] /\ starts[p] \in Start /\ Placed(starts[p])
      /\ service \in [generation : Id, allocation : Id, up : BOOLEAN, adopted : BOOLEAN]
      /\ owner \in [generation : Id, pid : Id, allocation : Id]
      /\ instances \in [Process -> [pid : Id, running : BOOLEAN]]
      /\ generations \in [Process -> [phase : Phases, pid : Id]]
  BY Here DEF HoldInv, StartupTypes, WorldTypes
<1>1. PICK to \in Leaving \cup {"done"} :
        /\ p \notin dead /\ starts[p].at \in {"running"} \cup Leaving
        /\ Goes(p, to) \/ Turns(p, to, "none")
  BY DEF StopBegins, StopServices, StopInstance, Disown, Stopped, Release, Stopping, At, Turns
<1>2. p \notin dead /\ starts[p].at \in {"running"} \cup Leaving /\ to \in Places
  BY <1>1 DEF Places
<1>3. PICK r \in Start : /\ Becomes(p, r) /\ r.at = to
                         /\ SameCopy(p, r) /\ SameGeneration(p, r) /\ SameTodo(p, r) /\ SameHeld(p, r)
  BY <1>h, <1>1, <1>2, GoesTo, TurnsTo
<1>4. PICK g \in Process : g = starts[p].generation
  BY <1>h, <1>2 DEF Placed, Holding
<1>5. journal' = journal /\ dead' = dead
  BY DEF StopBegins, StopServices, StopInstance, Disown, Stopped, Release, history, undoings
<1>6. service'.generation = service.generation
  <2>1. service' = service \/ service' = [service EXCEPT !.up = FALSE]
    BY DEF StopBegins, StopServices, StopInstance, Disown, Stopped, Release, registries
  <2> QED
    BY <1>h, <2>1
<1>7. owner'.generation = owner.generation /\ (owner' = owner \/ owner'.pid = "none")
  <2>1. owner' = owner \/ owner' = [owner EXCEPT !.pid = "none"]
    BY DEF StopBegins, StopServices, StopInstance, Disown, Stopped, Release, registries
  <2> QED
    BY <1>h, <2>1
<1>8. plan' = plan \/ ~plan'.reserved
  BY DEF StopBegins, StopServices, StopInstance, Disown, Stopped, Release, Releases, endpoints
<1>9. \A h \in Process : instances'[h].running => instances[h].running
  <2>1. instances' = instances \/ instances' = [instances EXCEPT ![instance].running = FALSE]
    BY DEF StopBegins, StopServices, StopInstance, Disown, Stopped, Release, records
  <2>2. instances \in [Process -> [pid : Id, running : BOOLEAN]]
    BY <1>h
  <2>3. ASSUME NEW h \in Process, instances' = [instances EXCEPT ![instance].running = FALSE]
        PROVE  instances'[h].running => instances[h].running
    BY <2>2, <2>3
  <2> QED
    BY <2>1, <2>3
<1>10. /\ \A h \in Process \cup {"none"} : h # g => Phase(h)' = Phase(h)
       /\ Phase(g)' \in {Phase(g), "stopping", "stopped"}
  <2>1. \/ generations' = generations
        \/ generations' = [generations EXCEPT ![g].phase = "stopping"]
        \/ generations' = [generations EXCEPT ![g].phase = "stopped"]
    BY <1>4 DEF StopBegins, StopServices, StopInstance, Disown, Stopped, Release, Ended, registries
  <2>2. CASE generations' = generations
    BY <2>2 DEF Phase
  <2>3. ASSUME NEW phase \in {"stopping", "stopped"}, generations' = [generations EXCEPT ![g].phase = phase]
        PROVE  /\ \A h \in Process \cup {"none"} : h # g => Phase(h)' = Phase(h)
               /\ Phase(g)' = phase
    BY <1>h, <2>3 DEF Phase
  <2> QED
    BY <2>1, <2>2, <2>3
<1>11. OwnerLives' => OwnerLives
  BY <1>5, <1>7 DEF OwnerLives, Alive
<1>12. g = journal.generation => journal.committed
  BY <1>2, <1>4 DEF Starts, InPlace, Committed
<1>13. /\ starts' \in [Process -> Start] /\ starts'[p] = r
       /\ \A q \in Process : q # p => starts'[q] = starts[q]
  BY <1>h, <1>3, OthersStay
<1>14. \A h \in Process \cup {"none"} : /\ Phase(h)' = "none" => Phase(h) = "none"
                                        /\ Phase(h) = "none" => h = g \/ Phase(h)' = "none"
                                        /\ Phase(h)' \in {"starting", "failed"} => Phase(h)' = Phase(h)
  BY <1>10
<1>15. \A q \in Process : Starting(q)' <=> Starting(q)
  BY <1>2, <1>3, <1>5, <1>13 DEF Starting
<1>16. ~Starting(p)
  BY <1>2 DEF Starting
<1>17. OneStart'
  BY <1>5, <1>13, <1>15, <1>16 DEF Starts, OneStart, Copy
<1>18. AllNoted'
  <2>1. Outcomes'
    <3>1. journal.generation \in Process \cup {"none"}
      BY Here DEF Journal, Id
    <3>2. Phase(journal.generation)' = generations'[journal.generation].phase
      BY <1>5 DEF Phase
    <3>3. generations'[journal.generation].phase \in {"starting", "failed"}
             => Phase(journal.generation) \in {"starting", "failed"}
      BY <1>14, <3>1 DEF Phase
    <3> QED
      BY <1>5, <3>2, <3>3 DEF AllNoted, Outcomes
  <2>2. OwnerNoted'
    <3>1. owner.generation \in Process \cup {"none"}
      BY <1>h DEF Id
    <3>2. owner.generation # "none" => generations'[owner.generation].phase # "none"
      BY <1>14, <3>1 DEF AllNoted, OwnerNoted, Phase
    <3> QED
      BY <1>5, <1>7, <1>9, <1>11, <3>2 DEF AllNoted, OwnerNoted, Phase
  <2>3. GenerationNoted'
    <3>1. journal.generation \in Process \cup {"none"}
      BY Here DEF Journal, Id
    <3>2. ~journal.committed => generations'[journal.generation].phase = Phase(journal.generation)
      BY <1>10, <1>12, <3>1 DEF Phase
    <3> QED
      BY <1>5, <3>2 DEF AllNoted, GenerationNoted, Phase
  <2>4. PlanNoted'
    BY <1>5, <1>8 DEF AllNoted, PlanNoted
  <2> QED
    BY <2>1, <2>2, <2>3, <2>4 DEF AllNoted
<1>19. ASSUME NEW q \in Process PROVE InPlace(q)'
  <2>1. ASSUME Starting(q)' PROVE (WrittenBefore(q, starts[q]) /\ Unwound(starts[q]))'
    <3>1. Starting(q) /\ q # p /\ starts'[q] = starts[q]
      BY <1>13, <1>15, <1>16, <2>1
    <3>2. WrittenBefore(q, starts[q]) /\ Unwound(starts[q])
      BY <3>1 DEF Starts, InPlace
    <3>3. journal.generation \in Process \cup {"none"}
      BY Here DEF Journal, Id
    <3>4. /\ Phase(journal.generation) # "none" => generations'[journal.generation].phase # "none"
          /\ generations'[journal.generation].phase \in {"starting", "failed"}
               => Phase(journal.generation) \in {"starting", "failed"}
      BY <1>14, <3>3 DEF Phase
    <3>5. WrittenBefore(q, starts[q])'
      BY <1>5, <1>7, <1>11, <3>1, <3>2, <3>4 DEF WrittenBefore, Interrupted, Phase
    <3>6. ~journal.committed => generations'[journal.generation].phase = Phase(journal.generation)
      BY <1>10, <1>12, <3>3 DEF Phase
    <3>7. starts[q].at \in Unwinding => ~journal.committed
      BY <3>2 DEF WrittenBefore
    <3>8. Unwound(starts[q])'
      BY <1>5, <1>6, <1>8, <1>11, <3>1, <3>2, <3>6, <3>7 DEF Unwound, Phase, Unwinding, First
    <3> QED
      BY <3>5, <3>8
  <2>2. ASSUME Early(starts'[q]) PROVE Traceless(q)'
    <3>1. q # p
      BY <1>h, <1>2, <1>3, <1>13, <2>2 DEF Early, Looking, SameTodo, Placed
    <3>2. Traceless(q)
      BY <1>13, <2>2, <3>1 DEF Starts, InPlace
    <3>3. q # g
      BY <1>4, <3>2 DEF Traceless
    <3>4. generations'[q].phase = "none"
      BY <1>14, <3>2, <3>3 DEF Traceless, Phase
    <3>5. \A h \in Process : starts'[h].generation = starts[h].generation
      BY <1>3, <1>13 DEF SameGeneration
    <3> QED
      BY <1>5, <1>6, <1>7, <3>2, <3>4, <3>5 DEF Traceless, Phase
  <2>3. Committed(q)'
    BY <1>2, <1>3, <1>5, <1>13 DEF Starts, InPlace, Committed, SameGeneration
  <2> QED
    BY <2>1, <2>2, <2>3 DEF InPlace, Early
<1> QED
  BY <1>17, <1>18, <1>19 DEF Starts

LEMMA DyingKeeps ==
  ASSUME HoldInv, Starts, AllNoted, NEW p \in Process, Crash(p)
  PROVE  Starts' /\ AllNoted'
<1>1. /\ journal' = journal /\ generations' = generations /\ owner' = owner /\ plan' = plan
      /\ instances' = instances /\ starts' = starts /\ dead' = dead \cup {p}
  BY DEF Crash, endpoints, records
<1>2. service'.generation = service.generation
  BY DEF HoldInv, StartupTypes, WorldTypes, Crash
<1>3. OwnerLives' => OwnerLives
  BY <1>1 DEF OwnerLives, Alive
<1>4. \A q \in Process : Starting(q)' => Starting(q)
  BY <1>1 DEF Starting
<1>5. AllNoted'
  <2>1. Outcomes'
    BY <1>1 DEF AllNoted, Outcomes, Phase
  <2>2. OwnerNoted'
    BY <1>1, <1>3 DEF AllNoted, OwnerNoted, Phase
  <2>3. GenerationNoted'
    BY <1>1 DEF AllNoted, GenerationNoted, Phase
  <2>4. PlanNoted'
    BY <1>1 DEF AllNoted, PlanNoted
  <2> QED
    BY <2>1, <2>2, <2>3, <2>4 DEF AllNoted
<1>6. OneStart'
  BY <1>1, <1>4 DEF Starts, OneStart, Copy
<1>7. ASSUME NEW q \in Process PROVE InPlace(q)'
  <2>1. ASSUME Starting(q)' PROVE (WrittenBefore(q, starts[q]) /\ Unwound(starts[q]))'
    <3>1. WrittenBefore(q, starts[q]) /\ Unwound(starts[q])
      BY <1>4, <2>1 DEF Starts, InPlace
    <3>2. WrittenBefore(q, starts[q])'
      BY <1>1, <1>3, <3>1 DEF WrittenBefore, Interrupted, Phase
    <3>3. Unwound(starts[q])'
      BY <1>1, <1>2, <1>3, <3>1 DEF Unwound, Phase, First
    <3> QED
      BY <3>2, <3>3
  <2>2. (Early(starts[q]) => Traceless(q))'
    BY <1>1, <1>2 DEF Starts, InPlace, Early, Traceless, Phase
  <2>3. Committed(q)'
    BY <1>1 DEF Starts, InPlace, Committed
  <2> QED
    BY <2>1, <2>2, <2>3 DEF InPlace
<1> QED
  BY <1>5, <1>6, <1>7 DEF Starts

-----------------------------------------------------------------------------
(* What is known of the service *)

LEMMA StarterKnows ==
  ASSUME StartupTypes, ServiceInv, NEW p \in Process, dead' = dead,
         \A q \in Process \ {p} : starts'[q] = starts[q] /\ ~Starting(q),
         strays' \ {p} \subseteq strays, p \in strays' => starts'[p].at = "enrol",
         \A g \in Process : Unstopped(g)' => StopNoted(g)',
         Starting(p)' => Knows(starts[p])', "service" \notin starts'[p].held,
         "service" \in journal'.pending => journal'.started /\ "adoption" \notin journal'.done,
         abandoned' \subseteq evicted', overlooked' \subseteq dead'
  PROVE  ServiceInv'
<1>1. StraysWait'
  <2>1. strays \subseteq Process
    BY DEF StartupTypes, WorldTypes
  <2> QED
    BY <2>1 DEF ServiceInv, StraysWait
<1>2. \A q \in Process \ {p} : ~Starting(q)'
  BY DEF Starting
<1>3. \A q \in Process : Starting(q)' => Knows(starts[q])'
  BY <1>2
<1>4. \A q \in Process : "service" \notin starts'[q].held
  BY DEF ServiceInv
<1> QED
  BY <1>1, <1>3, <1>4 DEF ServiceInv

(* No process that a generation launched appears. *)
LEMMA NoneLaunched ==
  ASSUME StartupTypes, NEW p \in Process, \A q \in Process \ {p} : starts'[q] = starts[q],
         strays' \subseteq strays \ {p}, overlooked \subseteq overlooked', abandoned \subseteq abandoned',
         NEW g, Served(g)' => Served(g)
  PROVE  Unstopped(g)' => Unstopped(g)
<1>1. strays' \subseteq Process \ {p}
  BY DEF StartupTypes, WorldTypes
<1>2. StraysOf(g)' \subseteq StraysOf(g)
  BY <1>1 DEF StraysOf
<1> QED
  BY <1>2 DEF Unstopped

(* A step after which the process knows what it knew, and its journal says what it said. *)
KnowsOn(p) ==
  LET r == starts[p]
      s == starts'[p]
  IN /\ r.at # "again" /\ s.at \notin {"launch", "enrol", "noteAdoption"}
     /\ s.at \in Unwinding /\ "service" \in s.todo => "service" \in journal'.pending
     /\ s.at \in {"undone", "undoneLoop"} => ~First(s.todo, "service")
     /\ s.at = "services" /\ s.adopts => s.runs # "none"
     /\ r.adopts => s.adopts
     /\ r.runs # "none" => s.runs # "none"
     /\ "service" \in s.held => "service" \in r.held

NotedOn(p) ==
  /\ journal'.generation = journal.generation /\ (journal.committed => journal'.committed) /\ (Undecided' => Undecided)
  /\ "service" \in journal'.pending => "service" \in journal.pending
  /\ "service" \in journal.pending /\ ~journal'.committed
       => "service" \in journal'.pending \/ ~Unstopped(journal.generation)
  /\ journal.started => journal'.started
  /\ "adoption" \in journal'.done => "adoption" \in journal.done \/ starts[p].at = "noteAdoption"

LEMMA KnowingKeeps ==
  ASSUME HoldInv, Starts, ServiceInv, NEW p \in Process, Starting(p), dead' = dead,
         \A q \in Process \ {p} : starts'[q] = starts[q], KnowsOn(p), NotedOn(p),
         strays' \subseteq strays \ {p}, \A g : Served(g)' => Served(g),
         UNCHANGED <<evicted, abandoned, overlooked>>,
         \A g \in Process : Unstopped(g) /\ Phase(g)' \in {"starting", "failed"}
                              => g = journal.generation /\ Undecided'
  PROVE  ServiceInv'
<1>1. StartupTypes /\ Knows(starts[p]) /\ \A q \in Process \ {p} : ~Starting(q)
  BY Stands DEF HoldInv, ServiceInv
<1>2. \A g : Unstopped(g)' => Unstopped(g)
  BY <1>1, NoneLaunched
<1>3. ASSUME NEW g \in Process, Unstopped(g)' PROVE StopNoted(g)'
  <2>1. Unstopped(g) /\ StopNoted(g)
    BY <1>2, <1>3 DEF ServiceInv
  <2> QED
    BY <2>1 DEF StopNoted, NotedOn, Phase
<1>4. Known' => Known
  BY DEF Known, NotedOn
<1>5. ASSUME Starting(p)' PROVE Knows(starts[p])'
  BY <1>1, <1>2, <1>4 DEF Knows, KnowsOn, NotedOn
<1>6. "service" \in journal'.pending => journal'.started /\ "adoption" \notin journal'.done
  BY <1>1 DEF ServiceInv, NotedOn, Knows
<1>7. "service" \notin starts'[p].held
  BY DEF KnowsOn, ServiceInv
<1>8. abandoned' \subseteq evicted' /\ overlooked' \subseteq dead'
  BY DEF ServiceInv
<1> QED
  BY <1>1, <1>3, <1>5, <1>6, <1>7, <1>8, StarterKnows

(* Only a process at its enrolment has launched one that has no row yet. *)
LEMMA Waits ==
  ASSUME ServiceInv, NEW p \in Process, starts[p].at # "enrol"
  PROVE  strays \subseteq strays \ {p}
BY DEF ServiceInv, StraysWait

LEMMA PhasesStay ==
  ASSUME ServiceInv, UNCHANGED generations, Undecided => Undecided'
  PROVE  \A g \in Process : Unstopped(g) /\ Phase(g)' \in {"starting", "failed"}
                              => g = journal.generation /\ Undecided'
BY DEF ServiceInv, StopNoted, Phase

(* A step of a start that writes neither its journal nor the generations. *)
LEMMA MovingKeeps ==
  ASSUME HoldInv, Starts, ServiceInv, NEW p \in Process, Starting(p), \A q \in Process \ {p} : starts'[q] = starts[q],
         UNCHANGED <<journal, generations, dead, evicted, abandoned, overlooked>>, KnowsOn(p),
         strays' \subseteq strays \ {p}, \A g : Served(g)' => Served(g)
  PROVE  ServiceInv'
<1>1. NotedOn(p)
  BY DEF NotedOn, Undecided, Interrupted
<1>2. Undecided => Undecided'
  BY DEF Undecided, Interrupted
<1> QED
  BY <1>1, <1>2, PhasesStay, KnowingKeeps

LEMMA MovesKeepService ==
  ASSUME HoldInv, Starts, ServiceInv, NEW p \in Process,
         \/ Reserve(p) \/ ReservePlan(p) \/ Claim(p) \/ Own(p) \/ NothingToLaunch(p) \/ Rediscover(p)
         \/ Store(p) \/ Register(p) \/ RegisterHost(p)
  PROVE  ServiceInv'
<1>h. starts \in [Process -> Start] /\ starts[p] \in Start
  BY Here DEF HoldInv
<1>1. Starting(p) /\ starts[p].at \notin {"enrol", "again"}
  BY DEF Reserve, ReservePlan, Claim, Own, NothingToLaunch, Rediscover, Store, Register, RegisterHost, At, Starting,
         Leaving
<1>2. /\ UNCHANGED <<journal, generations, dead, strays, evicted, abandoned, overlooked>>
      /\ \A g : Served(g)' => Served(g)
  <2>1. CASE Rediscover(p)
    <3>1. service' = [service EXCEPT !.adopted = TRUE] /\ service'.adopted
      BY <2>1 DEF Rediscover, HoldInv, StartupTypes, WorldTypes
    <3> QED
      BY <2>1, <3>1 DEF Rediscover, endpoints, records, history, undoings, Served
  <2>2. CASE ~Rediscover(p)
    BY <2>2 DEF Reserve, ReservePlan, Claim, Own, NothingToLaunch, Store, Register, RegisterHost, registries, endpoints,
         records, history, undoings, Served
  <2> QED
    BY <2>1, <2>2
<1>3. (\A q \in Process \ {p} : starts'[q] = starts[q]) /\ KnowsOn(p)
  <2>1. CASE Reserve(p)
    BY <1>h, <1>1, <2>1 DEF Reserve, Goes, KnowsOn, Unwinding, Start
  <2>2. CASE ReservePlan(p)
    BY <1>h, <1>1, <2>2 DEF ReservePlan, KnowsOn, Unwinding, Start
  <2>3. CASE Claim(p)
    BY <1>h, <1>1, <2>3 DEF Claim, KnowsOn, Unwinding, Start
  <2>4. CASE Own(p)
    BY <1>h, <1>1, <2>4 DEF Own, KnowsOn, Unwinding, Start
  <2>5. CASE NothingToLaunch(p)
    BY <1>h, <1>1, <2>5 DEF NothingToLaunch, Goes, KnowsOn, Unwinding, Start
  <2>6. CASE Rediscover(p)
    BY <1>h, <1>1, <2>6 DEF Rediscover, KnowsOn, Unwinding, Start
  <2>7. CASE Store(p)
    BY <1>h, <1>1, <2>7 DEF Store, Goes, KnowsOn, Unwinding, Start
  <2>8. CASE Register(p)
    BY <1>h, <1>1, <2>8 DEF Register, Goes, KnowsOn, Unwinding, Start
  <2>9. CASE RegisterHost(p)
    BY <1>h, <1>1, <2>9 DEF RegisterHost, Goes, KnowsOn, Unwinding, Start
  <2> QED
    BY <2>1, <2>2, <2>3, <2>4, <2>5, <2>6, <2>7, <2>8, <2>9
<1> QED
  BY <1>1, <1>2, <1>3, Waits, MovingKeeps

(* A step that fails; the journal says what is to be undone. *)
LEMMA FailuresKeepService ==
  ASSUME HoldInv, Starts, ServiceInv, NEW p \in Process, Fail(p) \/ UndoFails(p)
  PROVE  ServiceInv'
<1>h. starts \in [Process -> Start] /\ starts[p] \in Start
  BY Here DEF HoldInv
<1>1. Starting(p) /\ starts[p].at # "again"
  BY DEF Fail, UndoFails, Undoing, Starting, Leaving, InLoop, Later
<1>2. Copy(p) = journal /\ Knows(starts[p]) /\ "service" \notin starts[p].held
  BY <1>1, Stands DEF ServiceInv
<1>3. /\ UNCHANGED <<journal, generations, dead, service, evicted, abandoned, overlooked>>
      /\ strays' = strays \/ strays' = strays \ {p}
  BY DEF Fail, UndoFails, registries, endpoints, records, undoings
<1>4. CASE Fail(p)
  <2>1. starts' = [starts EXCEPT ![p].todo = ToUndo(p),
                                 ![p].at = IF @ \in InLoop THEN "undoLoop" ELSE "undo"]
    BY <1>4 DEF Fail
  <2>2. /\ starts'[p].at \in {"undo", "undoLoop"} /\ starts'[p].todo = ToUndo(p)
        /\ starts'[p].adopts = starts[p].adopts /\ starts'[p].runs = starts[p].runs
        /\ starts'[p].held = starts[p].held /\ \A q \in Process \ {p} : starts'[q] = starts[q]
    <3>1. PICK to \in {"undo", "undoLoop"} : starts' = [starts EXCEPT ![p].todo = ToUndo(p), ![p].at = to]
      BY <1>h, <2>1
    <3> HIDE DEF ToUndo
    <3> QED
      BY <1>h, <3>1 DEF Start
  <2>3. "service" \in ToUndo(p) => "service" \in journal.pending
    BY <1>2 DEF ToUndo
  <2>4. KnowsOn(p)
    BY <1>1, <1>3, <2>2, <2>3 DEF KnowsOn
  <2>5. strays' = strays \ {p}
    BY <1>4 DEF Fail
  <2> QED
    BY <1>1, <1>3, <2>2, <2>4, <2>5, MovingKeeps DEF Served
<1>5. CASE UndoFails(p)
  <2>1. starts[p].at \in {"undo", "undoLoop"} /\ strays' = strays
    BY <1>5 DEF UndoFails, Undoing, registries
  <2>2. PICK todo \in SUBSET starts[p].todo : starts' = [starts EXCEPT ![p].todo = todo]
    <3>1. PICK s \in starts[p].todo :
            starts' = [starts EXCEPT ![p].todo =
                         IF starts[p].at = "undoLoop" THEN (@ \cap {"generation"}) \ {s} ELSE @ \ {s}]
      BY <1>5 DEF UndoFails
    <3> DEFINE todo == IF starts[p].at = "undoLoop" THEN (starts[p].todo \cap {"generation"}) \ {s}
                       ELSE starts[p].todo \ {s}
    <3>2. todo \in SUBSET starts[p].todo /\ starts' = [starts EXCEPT ![p].todo = todo]
      BY <1>h, <3>1
    <3> HIDE DEF todo
    <3> QED
      BY <3>2
  <2>3. KnowsOn(p) /\ \A q \in Process \ {p} : starts'[q] = starts[q]
    BY <1>h, <1>2, <1>3, <2>1, <2>2 DEF KnowsOn, Knows, Unwinding, Start
  <2> QED
    BY <1>1, <1>3, <2>1, <2>3, Waits, MovingKeeps DEF Served
<1> QED
  BY <1>4, <1>5

(* Resources other than the service are undone. *)
LEMMA UndoingKeepsService ==
  ASSUME HoldInv, Starts, ServiceInv, NEW p \in Process,
         UndoInstance(p) \/ UndoOwnership(p) \/ UndoAllocation(p) \/ UndoGeneration(p)
  PROVE  ServiceInv'
<1>h. starts \in [Process -> Start] /\ starts[p] \in Start /\ starts[p].todo \in SUBSET Resources
  BY Here DEF HoldInv
<1>1. Undoing(p) /\ NotesUndoing(p) /\ Starting(p) /\ starts[p].at \in {"undo", "undoLoop"}
  BY DEF UndoInstance, UndoOwnership, UndoAllocation, UndoGeneration, Undoing, Starting, Leaving
<1>2. Copy(p) = journal /\ Knows(starts[p]) /\ Undecided /\ Placed(starts[p])
  BY <1>1, Stands DEF ServiceInv, WrittenBefore, Unwinding, Undecided
<1>3. PICK s \in Resources \ {"service"} : First(starts[p].todo, s)
  BY DEF UndoInstance, UndoOwnership, UndoAllocation, UndoGeneration, IsNext, First, Resources
<1>4. ~First(starts[p].todo, "service")
  BY <1>h, <1>3, FirstIs
<1>5. UNCHANGED <<journal, dead, service, strays, evicted, abandoned, overlooked>>
  BY DEF UndoInstance, UndoOwnership, UndoAllocation, UndoGeneration, registries, endpoints, records, history, undoings
<1>6. KnowsOn(p) /\ \A q \in Process \ {p} : starts'[q] = starts[q]
  <2>1. PICK to \in {"undone", "undoneLoop"} : Goes(p, to)
    BY <1>1 DEF NotesUndoing
  <2> QED
    BY <1>h, <1>1, <1>2, <1>4, <1>5, <2>1 DEF Goes, KnowsOn, Knows, Unwinding, Start
<1>7. NotedOn(p) /\ Undecided'
  BY <1>2, <1>5 DEF NotedOn, Undecided, Interrupted
<1>8. ASSUME NEW g \in Process, Unstopped(g), Phase(g)' \in {"starting", "failed"}
      PROVE  g = journal.generation
  <2>1. CASE UndoGeneration(p) /\ g # journal.generation
    <3>1. generations' = [generations EXCEPT ![journal.generation].phase = "failed"]
      BY <1>2, <2>1 DEF UndoGeneration, Ended, Undone
    <3>2. Phase(g)' = Phase(g)
      BY <2>1, <3>1 DEF Phase, HoldInv, StartupTypes, WorldTypes
    <3> QED
      BY <1>8, <3>2 DEF ServiceInv, StopNoted
  <2>2. CASE ~UndoGeneration(p)
    <3>1. generations' = generations
      BY <2>2 DEF UndoInstance, UndoOwnership, UndoAllocation, registries
    <3> QED
      BY <1>8, <3>1 DEF ServiceInv, StopNoted, Phase
  <2> QED
    BY <2>1, <2>2
<1> QED
  BY <1>1, <1>5, <1>6, <1>7, <1>8, Waits, KnowingKeeps DEF Served

(* A service is taken over, and a service that is not known to run ends the start. *)
LEMMA RebindingKeepsService ==
  ASSUME HoldInv, Starts, ServiceInv, NEW p \in Process, Rebind(p) \/ (Publish(p) /\ Unready(p))
  PROVE  ServiceInv'
<1>h. starts \in [Process -> Start] /\ starts[p] \in Start
  BY Here DEF HoldInv
<1>1. Starting(p) /\ starts[p].at \in {"rebind", "publish"}
  BY DEF Rebind, Publish, At, Starting, Leaving
<1>2. Copy(p) = journal
  BY <1>1, Stands
<1>3. UNCHANGED <<journal, dead, strays, evicted, abandoned, overlooked>>
  BY DEF Rebind, Publish, endpoints, records, history, undoings
<1>4. CASE Unready(p)
  <2>1. KnowsOn(p) /\ starts'[p].at = "undo" /\ \A q \in Process \ {p} : starts'[q] = starts[q]
    BY <1>h, <1>1, <1>2, <1>3, <1>4 DEF Unready, KnowsOn, Start
  <2>2. generations' = generations /\ service' = service
    BY <1>h, <2>1 DEF Rebind, Publish, Goes, Start
  <2> QED
    BY <1>1, <1>3, <2>1, <2>2, Waits, MovingKeeps DEF Served
<1>5. CASE ~Unready(p)
  <2>1. /\ service' = [generation |-> starts[p].generation, allocation |-> starts[p].allocation,
                       up |-> TRUE, adopted |-> TRUE]
        /\ starts' = [starts EXCEPT ![p].at = "services", ![p].runs = "own"]
        /\ generations' = generations
    BY <1>5 DEF Rebind
  <2>2. KnowsOn(p) /\ \A q \in Process \ {p} : starts'[q] = starts[q]
    BY <1>h, <1>1, <2>1 DEF KnowsOn, Unwinding, Start
  <2>3. \A g : ~Served(g)'
    BY <2>1 DEF Served
  <2> QED
    BY <1>1, <1>3, <2>1, <2>2, <2>3, Waits, MovingKeeps
<1> QED
  BY <1>4, <1>5

(* The generation of the start begins, begins again or comes to run. *)
LEMMA TakingKeepsService ==
  ASSUME HoldInv, Starts, ServiceInv, NEW p \in Process,
         Recover(p) \/ Generate(p) \/ (Publish(p) /\ ~Unready(p))
  PROVE  ServiceInv'
<1>h. starts \in [Process -> Start] /\ starts[p] \in Start /\ StartupTypes
  BY Here DEF HoldInv
<1>1. Starting(p) /\ starts[p].at \in {"recover", "generate", "publish"}
  BY DEF Recover, Generate, Publish, At, Starting, Leaving
<1>2. /\ Copy(p) = journal /\ Undecided /\ journal.generation \in Process
      /\ starts[p].at = "generate" => journal.generation = p
      /\ starts[p].at = "publish" => starts[p].generation = journal.generation
  BY <1>1, Stands DEF WrittenBefore, Resuming, Beginning, Bound, Later, Undecided, Placed, Journaling
<1>3. UNCHANGED <<journal, dead, service, strays, evicted, abandoned, overlooked>>
  BY DEF Recover, Generate, Publish, endpoints, records, history, undoings
<1>4. NotedOn(p) /\ Undecided'
  BY <1>2, <1>3 DEF NotedOn, Undecided, Interrupted
<1>5. CASE Fails(p)
  <2>1. KnowsOn(p) /\ starts'[p].at = "undo" /\ \A q \in Process \ {p} : starts'[q] = starts[q]
    BY <1>h, <1>1, <1>5 DEF Fails, KnowsOn, Start
  <2>2. generations' = generations
    BY <1>h, <2>1 DEF Recover, Generate, Publish, Taken, Goes, Unready, Start
  <2> QED
    BY <1>1, <1>3, <2>1, <2>2, Waits, MovingKeeps DEF Served
<1>6. CASE Taken(p, journal.generation, "noteGeneration")
  <2>1. KnowsOn(p) /\ \A q \in Process \ {p} : starts'[q] = starts[q]
    BY <1>h, <1>1, <1>6 DEF Taken, KnowsOn, Unwinding, Start
  <2>2. ASSUME NEW g \in Process, Unstopped(g), Phase(g)' \in {"starting", "failed"}
        PROVE  g = journal.generation
    <3>1. PICK to \in Places : to = "noteGeneration"
      BY DEF Places, Bound
    <3>2. Taken(p, journal.generation, to)
      BY <1>6, <3>1
    <3>3. g # journal.generation => generations'[g] = generations[g] \/ generations'[g].phase = "superseded"
      BY <1>2, <1>h, <3>2, TakenIs
    <3> QED
      BY <2>2, <3>3 DEF ServiceInv, StopNoted, Phase
  <2> QED
    BY <1>1, <1>3, <1>4, <2>1, <2>2, Waits, KnowingKeeps DEF Served
<1>7. CASE Publish(p) /\ ~Unready(p)
  <2>1. /\ Goes(p, "noteCommitted")
        /\ generations' = [generations EXCEPT ![journal.generation].phase = "running"]
    BY <1>2, <1>7 DEF Publish, At
  <2>2. KnowsOn(p) /\ \A q \in Process \ {p} : starts'[q] = starts[q]
    BY <1>h, <1>1, <2>1 DEF Goes, KnowsOn, Unwinding, Start
  <2>3. ASSUME NEW g \in Process, Unstopped(g), Phase(g)' \in {"starting", "failed"}
        PROVE  g = journal.generation
    <3>1. g # journal.generation => Phase(g)' = Phase(g)
      BY <1>h, <2>1 DEF StartupTypes, WorldTypes, Phase
    <3> QED
      BY <2>3, <3>1 DEF ServiceInv, StopNoted
  <2> QED
    BY <1>1, <1>3, <1>4, <2>2, <2>3, Waits, KnowingKeeps DEF Served
<1> QED
  BY <1>1, <1>2, <1>5, <1>6, <1>7 DEF Recover, Generate, At

(* What a start writes into its journal, but for the service. *)
LEMMA NotingKeepsService ==
  ASSUME HoldInv, Starts, ServiceInv, NEW p \in Process, Starting(p), starts[p].at \notin {"again", "enrol"},
         NEW to \in Places, NEW j \in Journal, Writes(p, j, to),
         to \notin {"launch", "enrol", "noteAdoption"} \cup Unwinding,
         to = "services" => ~starts[p].adopts,
         j.generation = journal.generation, j.status \in {"active", "blocked"}, j.committed = journal.committed,
         Interrupted \/ journal.committed, j.started = journal.started,
         "service" \in j.pending <=> "service" \in journal.pending,
         "adoption" \in j.done => "adoption" \in journal.done \/ starts[p].at = "noteAdoption",
         UNCHANGED <<registries, history>>
  PROVE  ServiceInv'
<1>h. starts \in [Process -> Start] /\ starts[p] \in Start /\ Copy(p) = journal
  BY Stands
<1>1. /\ journal' = j
      /\ starts'[p].at = to /\ starts'[p].adopts = starts[p].adopts /\ starts'[p].runs = starts[p].runs
      /\ starts'[p].held = starts[p].held /\ \A q \in Process \ {p} : starts'[q] = starts[q]
  BY <1>h DEF Writes, Start
<1>2. KnowsOn(p)
  BY <1>1 DEF KnowsOn, Unwinding
<1>3. NotedOn(p) /\ (Undecided => Undecided')
  BY <1>1 DEF NotedOn, Undecided, Interrupted
<1>4. UNCHANGED <<generations, service, strays, dead, evicted, abandoned, overlooked>>
  BY DEF registries, history, undoings
<1> QED
  BY <1>1, <1>2, <1>3, <1>4, PhasesStay, Waits, KnowingKeeps DEF Served

LEMMA NotesKeepService ==
  ASSUME HoldInv, Starts, ServiceInv, NEW p \in Process,
         \/ Resume(p) \/ Cleanup(p) \/ Prepare(p) \/ NoteAdoption(p) \/ NoteAllocation(p) \/ NoteOwnership(p)
         \/ NoteInstance(p)
  PROVE  ServiceInv'
<1>0. Starting(p) /\ starts[p].at \notin {"again", "enrol"}
  BY DEF Resume, Cleanup, Prepare, NoteAdoption, NoteAllocation, NoteOwnership, NoteInstance, At, Starting, Leaving
<1>h. /\ journal \in Journal /\ Copy(p) = journal /\ WrittenBefore(p, starts[p])
      /\ starts[p].allocation \in Id
  BY <1>0, Stands, Here
<1>1. Interrupted \/ journal.committed
  BY <1>h DEF Resume, Cleanup, Prepare, NoteAdoption, NoteAllocation, NoteOwnership, NoteInstance, At, WrittenBefore,
              Resuming, Beginning, Bound, InLoop, Later
<1>2. PICK to \in Places, j \in Journal :
        /\ Writes(p, j, to)
        /\ to \notin {"launch", "enrol", "noteAdoption"} \cup Unwinding /\ (to = "services" => ~starts[p].adopts)
        /\ j.generation = journal.generation /\ j.committed = journal.committed /\ j.started = journal.started
        /\ j.status = IF starts[p].at \in {"resume", "cleanup"} THEN "active" ELSE journal.status
        /\ "service" \in j.pending <=> "service" \in journal.pending
        /\ "adoption" \in j.done => "adoption" \in journal.done \/ starts[p].at = "noteAdoption"
  <2> USE DEF Places, Looking, Resuming, Beginning, Bound, InLoop, Later, Unwinding
  <2>1. CASE Resume(p) \/ Cleanup(p)
    <3>1. Activated(p) \in Journal
      BY <1>h DEF Activated, Journal
    <3> QED
      BY <1>h, <2>1, <3>1 DEF Resume, Cleanup, At, Activated, Journal
  <2>2. CASE Prepare(p)
    <3> DEFINE j == Noted(Copy(p), {}, {"generation"})
    <3>1. j \in Journal /\ j.done = journal.done \cup {} /\ j.pending = journal.pending \cup {"generation"}
          /\ j.generation = journal.generation /\ j.committed = journal.committed
          /\ j.started = journal.started /\ j.status = journal.status
      BY <1>h DEF Noted, Journal, Resources
    <3>2. Writes(p, j, "recover") /\ starts[p].at = "prepare"
      BY <2>2 DEF Prepare, At
    <3> HIDE DEF j
    <3> QED
      BY <3>1, <3>2
  <2>3. CASE NoteAdoption(p)
    <3> DEFINE j == Noted(Copy(p), {"adoption"}, {})
    <3>1. j \in Journal /\ j.pending = journal.pending \cup {}
          /\ j.generation = journal.generation /\ j.committed = journal.committed
          /\ j.started = journal.started /\ j.status = journal.status
      BY <1>h DEF Noted, Journal, Resources
    <3>2. Writes(p, j, "generate") /\ starts[p].at = "noteAdoption"
      BY <2>3 DEF NoteAdoption, At
    <3> HIDE DEF j
    <3> QED
      BY <3>1, <3>2
  <2>4. CASE NoteAllocation(p)
    <3> DEFINE j == [Noted(Copy(p), {}, {"allocation"}) EXCEPT !.allocation = starts[p].allocation]
    <3>1. j \in Journal /\ j.done = journal.done /\ j.pending = journal.pending \cup {"allocation"}
          /\ j.generation = journal.generation /\ j.committed = journal.committed
          /\ j.started = journal.started /\ j.status = journal.status
      BY <1>h DEF Noted, Journal, Resources
    <3>2. Writes(p, j, "own") /\ starts[p].at = "noteAllocation"
      BY <2>4 DEF NoteAllocation, At
    <3> HIDE DEF j
    <3> QED
      BY <3>1, <3>2
  <2>5. CASE NoteOwnership(p)
    <3> DEFINE j == Noted(Copy(p), {}, {"ownership"})
    <3>1. j \in Journal /\ j.done = journal.done \cup {} /\ j.pending = journal.pending \cup {"ownership"}
          /\ j.generation = journal.generation /\ j.committed = journal.committed
          /\ j.started = journal.started /\ j.status = journal.status
      BY <1>h DEF Noted, Journal, Resources
    <3>2. PICK to \in {"rebind", "services"} : Writes(p, j, to) /\ (to = "services" => ~starts[p].adopts)
      BY <2>5 DEF NoteOwnership
    <3>3. starts[p].at = "noteOwnership"
      BY <2>5 DEF NoteOwnership, At
    <3> HIDE DEF j
    <3> QED
      BY <3>1, <3>2, <3>3
  <2>6. CASE NoteInstance(p)
    <3> DEFINE j == Noted(Copy(p), {"instance"}, {"instance"})
    <3>1. j \in Journal /\ j.done = journal.done \cup {"instance"} /\ j.pending = journal.pending \cup {"instance"}
          /\ j.generation = journal.generation /\ j.committed = journal.committed
          /\ j.started = journal.started /\ j.status = journal.status
      BY <1>h DEF Noted, Journal, Resources
    <3>2. Writes(p, j, "publish") /\ starts[p].at = "noteInstance"
      BY <2>6 DEF NoteInstance, At
    <3> HIDE DEF j
    <3> QED
      BY <3>1, <3>2
  <2> QED
    BY <2>1, <2>2, <2>3, <2>4, <2>5, <2>6
<1>3. j.status \in {"active", "blocked"}
  BY <1>2, <1>h DEF Resume, Cleanup, Prepare, NoteAdoption, NoteAllocation, NoteOwnership, NoteInstance, At,
     WrittenBefore, Resuming, Beginning, Bound, InLoop, Later, Interrupted
<1>4. UNCHANGED <<registries, history>>
  BY DEF Resume, Cleanup, Prepare, NoteAdoption, NoteAllocation, NoteOwnership, NoteInstance
<1> QED
  BY <1>0, <1>1, <1>2, <1>3, <1>4, NotingKeepsService

LEMMA NotingGenerationKeepsService ==
  ASSUME HoldInv, Starts, ServiceInv, NEW p \in Process, NoteGeneration(p) \/ Rollback(p)
  PROVE  ServiceInv'
<1>0. Starting(p) /\ starts[p].at \in {"noteGeneration", "rollback"}
  BY DEF NoteGeneration, Rollback, At, Starting, Leaving
<1>h. /\ starts \in [Process -> Start] /\ starts[p] \in Start /\ journal \in Journal
      /\ Copy(p) = journal /\ WrittenBefore(p, starts[p])
  BY <1>0, Stands
<1>1. Undecided
  BY <1>0, <1>h DEF WrittenBefore, Bound, Undecided
<1>2. /\ journal'.generation = journal.generation /\ journal'.committed = journal.committed
      /\ journal'.status \in {"active", journal.status} /\ journal'.started = journal.started
      /\ "service" \in journal'.pending <=> "service" \in journal.pending
      /\ "adoption" \in journal'.done <=> "adoption" \in journal.done
  <2>1. CASE NoteGeneration(p)
    BY <1>h, <2>1 DEF NoteGeneration, Noted, Journal
  <2>2. CASE Rollback(p)
    BY <1>h, <2>2 DEF Rollback, Activated, Journal
  <2> QED
    BY <2>1, <2>2
<1>3. NotedOn(p) /\ Undecided'
  BY <1>1, <1>2 DEF NotedOn, Undecided, Interrupted
<1>4. UNCHANGED <<generations, service, strays, dead, evicted, abandoned, overlooked>>
  BY DEF NoteGeneration, Rollback, registries, history, undoings
<1>5. KnowsOn(p) /\ \A q \in Process \ {p} : starts'[q] = starts[q]
  <2>1. CASE NoteGeneration(p)
    <3> DEFINE at == IF journal'.allocation # "none" THEN "claim" ELSE "reserve"
               runs == IF starts[p].runs # "none" \/ starts[p].adopts \/ journal'.generation # p THEN starts[p].runs
                       ELSE Adopted(p)
    <3>1. starts' = [starts EXCEPT ![p].copy = journal', ![p].at = at, ![p].runs = runs]
      BY <1>h, <2>1 DEF NoteGeneration
    <3>2. at \in {"claim", "reserve"} /\ (starts[p].runs # "none" => runs # "none")
      OBVIOUS
    <3> HIDE DEF at, runs
    <3> QED
      BY <1>0, <1>h, <3>1, <3>2 DEF KnowsOn, Unwinding, Start
  <2>2. CASE Rollback(p)
    BY <1>0, <1>h, <1>2, <2>2 DEF Rollback, KnowsOn, Start
  <2> QED
    BY <2>1, <2>2
<1> QED
  BY <1>0, <1>3, <1>4, <1>5, PhasesStay, Waits, KnowingKeeps DEF Served

(* The generation is committed. *)
LEMMA ClosingKeepsService ==
  ASSUME HoldInv, Starts, AllNoted, ServiceInv, NEW p \in Process,
         NoteCommitted(p) \/ Seal(p) \/ SealFails(p) \/ Cleaned(p)
  PROVE  ServiceInv'
<1>0. Starting(p) /\ starts[p].at \in {"noteCommitted", "seal", "cleaning"}
  BY DEF NoteCommitted, Seal, SealFails, Cleaned, At, Starting, Leaving
<1>h. /\ starts \in [Process -> Start] /\ starts[p] \in Start /\ journal \in Journal
      /\ Copy(p) = journal /\ WrittenBefore(p, starts[p])
  BY <1>0, Stands
<1>1. Phase(journal.generation) \notin {"starting", "failed"}
  BY <1>0, <1>h DEF WrittenBefore, AllNoted, Outcomes
<1>2. /\ journal'.generation = journal.generation /\ journal'.committed
      /\ journal'.pending \subseteq journal.pending /\ journal'.started = journal.started
      /\ journal'.done = journal.done
  BY <1>0, <1>h DEF NoteCommitted, Seal, SealFails, Cleaned, Writes, At, WrittenBefore, Journal
<1>3. NotedOn(p)
  BY <1>2 DEF NotedOn, Undecided
<1>4. UNCHANGED <<generations, service, strays, dead, evicted, abandoned, overlooked>>
  BY DEF NoteCommitted, Seal, SealFails, Cleaned, registries, history, undoings
<1>5. KnowsOn(p) /\ \A q \in Process \ {p} : starts'[q] = starts[q]
  <2>1. CASE Cleaned(p)
    <3> DEFINE adopts == starts[p].adopts \/ (journal'.started /\ service.up /\ service.generation = journal'.generation)
               runs == IF journal'.started /\ service.up THEN "other" ELSE starts[p].runs
    <3>1. starts' = [starts EXCEPT ![p].at = "again", ![p].copy = journal', ![p].adopts = adopts, ![p].runs = runs]
      BY <1>h, <2>1 DEF Cleaned
    <3>2. (starts[p].adopts => adopts) /\ (starts[p].runs # "none" => runs # "none")
      OBVIOUS
    <3> HIDE DEF adopts, runs
    <3> QED
      BY <1>0, <1>h, <3>1, <3>2 DEF KnowsOn, Unwinding, Start
  <2>2. CASE NoteCommitted(p) \/ Seal(p) \/ SealFails(p)
    <3>1. PICK to \in {"seal", "running", "done"} : Writes(p, journal', to)
      BY <2>2 DEF NoteCommitted, Seal, SealFails, Writes
    <3> QED
      BY <1>0, <1>h, <3>1 DEF Writes, KnowsOn, Unwinding, Start
  <2> QED
    BY <2>1, <2>2
<1>6. \A g \in Process : ~(Unstopped(g) /\ Phase(g)' \in {"starting", "failed"})
  BY <1>1, <1>4 DEF ServiceInv, StopNoted, Phase
<1> QED
  BY <1>0, <1>3, <1>4, <1>5, <1>6, Waits, KnowingKeeps DEF Served

(* What is undone is taken out of the journal, and the journal is settled. *)
LEMMA SettlingKeepsService ==
  ASSUME HoldInv, Starts, ServiceInv, NEW p \in Process, NoteUndone(p) \/ Settle(p)
  PROVE  ServiceInv'
<1>0. Starting(p) /\ starts[p].at \in Unwinding
  BY DEF NoteUndone, Settle, Undoing, At, Starting, Leaving, Unwinding
<1>h. /\ starts \in [Process -> Start] /\ starts[p] \in Start /\ journal \in Journal
      /\ Copy(p) = journal /\ WrittenBefore(p, starts[p]) /\ Knows(starts[p])
  BY <1>0, Stands DEF ServiceInv
<1>1. Undecided
  BY <1>0, <1>h DEF WrittenBefore, Undecided
<1>2. UNCHANGED <<generations, service, strays, dead, evicted, abandoned, overlooked>>
  BY DEF NoteUndone, Settle, registries, history, undoings
<1>3. CASE NoteUndone(p)
  <2>1. PICK s \in starts[p].todo, to \in {"undo", "undoLoop"} :
          /\ IsNext(p, s) /\ starts[p].at \in {"undone", "undoneLoop"}
          /\ journal' = [journal EXCEPT !.pending = @ \ {s}]
          /\ starts' = [starts EXCEPT ![p].copy = journal', ![p].todo = @ \ {s}, ![p].at = to]
    <3>1. PICK s \in starts[p].todo :
            /\ IsNext(p, s) /\ starts[p].at \in {"undone", "undoneLoop"}
            /\ journal' = [journal EXCEPT !.pending = @ \ {s}]
            /\ starts' = [starts EXCEPT ![p].copy = journal', ![p].todo = @ \ {s},
                            ![p].at = IF @ = "undoneLoop" THEN "undoLoop" ELSE "undo"]
      BY <1>h, <1>3 DEF NoteUndone, At
    <3>2. PICK to \in {"undo", "undoLoop"} :
            starts' = [starts EXCEPT ![p].copy = journal', ![p].todo = @ \ {s}, ![p].at = to]
      BY <1>h, <3>1
    <3> QED
      BY <3>1, <3>2
  <2>2. /\ journal'.generation = journal.generation /\ journal'.committed = journal.committed
        /\ journal'.status = journal.status /\ journal'.started = journal.started
        /\ journal'.pending = journal.pending \ {s} /\ journal'.done = journal.done
    BY <1>h, <2>1 DEF Journal
  <2>3. s = "service" => ~Unstopped(journal.generation)
    BY <1>h, <2>1 DEF Knows, IsNext, First
  <2>4. NotedOn(p) /\ Undecided'
    BY <1>1, <2>2, <2>3 DEF NotedOn, Undecided, Interrupted
  <2>5. KnowsOn(p) /\ \A q \in Process \ {p} : starts'[q] = starts[q]
    BY <1>0, <1>h, <2>1, <2>2 DEF KnowsOn, Knows, Unwinding, Start
  <2> QED
    BY <1>0, <1>2, <2>1, <2>4, <2>5, PhasesStay, Waits, KnowingKeeps DEF Served
<1>4. CASE Settle(p)
  <2>1. /\ journal'.generation = journal.generation /\ journal'.committed = journal.committed
        /\ journal'.started = journal.started /\ journal'.pending = journal.pending /\ journal'.done = journal.done
        /\ journal'.status \in {journal.status, "blocked"} \/ journal.pending = {}
    BY <1>h, <1>4 DEF Settle, Outcome, Journal
  <2>2. (Undecided' => Undecided) /\ (Undecided' \/ journal.pending = {})
    BY <1>1, <2>1 DEF Undecided, Interrupted
  <2>3. NotedOn(p)
    BY <2>1, <2>2 DEF NotedOn
  <2>4. PICK to \in {"begin", "done"} :
          \/ starts' = [starts EXCEPT ![p].copy = journal', ![p].recovering = FALSE, ![p].at = to]
          \/ Goes(p, to)
    BY <1>h, <1>4 DEF Settle
  <2>5. KnowsOn(p) /\ \A q \in Process \ {p} : starts'[q] = starts[q]
    BY <1>0, <1>h, <2>4 DEF KnowsOn, Goes, Unwinding, Start
  <2>6. \A g \in Process : Unstopped(g) /\ Phase(g)' \in {"starting", "failed"} => g = journal.generation /\ Undecided'
    BY <1>2, <2>2 DEF ServiceInv, StopNoted, Phase, Undecided
  <2> QED
    BY <1>0, <1>2, <2>3, <2>5, <2>6, Waits, KnowingKeeps DEF Served, Unwinding
<1> QED
  BY <1>3, <1>4

(* A new journal, for a generation that has left no trace. *)
LEMMA BeginningKeepsService ==
  ASSUME HoldInv, Starts, ServiceInv, NEW p \in Process, Begin(p)
  PROVE  ServiceInv'
<1>0. Starting(p) /\ starts[p].at = "begin"
  BY DEF Begin, At, Starting, Leaving
<1>h. /\ StartupTypes /\ starts \in [Process -> Start] /\ starts[p] \in Start
      /\ Knows(starts[p]) /\ Copy(p) = journal /\ \A q \in Process : Starting(q) => q = p
  BY <1>0, Stands DEF ServiceInv
<1>1. UNCHANGED <<generations, service, strays, dead, evicted, abandoned, overlooked>>
  BY DEF Begin, registries, history, undoings
<1>2. CASE Interrupted
  <2>1. Goes(p, "done") /\ journal' = journal
    BY <1>2 DEF Begin
  <2>2. KnowsOn(p) /\ \A q \in Process \ {p} : starts'[q] = starts[q]
    BY <1>0, <1>h, <2>1 DEF Goes, KnowsOn, Unwinding, Start
  <2> QED
    BY <1>0, <1>1, <2>1, <2>2, Waits, MovingKeeps DEF Served
<1>3. CASE ~Interrupted
  <2> DEFINE j == [NoJournal EXCEPT !.generation = p, !.status = "active"]
  <2>1. PICK to \in {"noteAdoption", "generate"} : Writes(p, j, to) /\ (to = "noteAdoption" => starts[p].adopts)
    BY <1>3 DEF Begin
  <2>2. j.generation = p /\ j.pending = {} /\ j.done = {}
    BY DEF NoJournal
  <2> HIDE DEF j
  <2>3. /\ journal' = j /\ starts'[p].at = to /\ starts'[p].adopts = starts[p].adopts
        /\ starts'[p].held = starts[p].held /\ \A q \in Process \ {p} : starts'[q] = starts[q]
    BY <1>h, <2>1 DEF Writes, Start
  <2>4. ~Unstopped(p)
    <3>1. Traceless(p)
      BY <1>0 DEF Starts, InPlace, Early
    <3>2. strays \subseteq Process
      BY <1>h DEF StartupTypes, WorldTypes
    <3> QED
      BY <3>1, <3>2 DEF Traceless, Unstopped, Served, StraysOf
  <2>5. ASSUME NEW g \in Process, Unstopped(g)' PROVE StopNoted(g)'
    <3>1. Unstopped(g)
      BY <1>0, <1>1, <1>h, <2>3, <2>5, Waits, NoneLaunched DEF Served
    <3>2. g # p /\ Phase(g) \notin {"starting", "failed"}
      BY <1>3, <2>4, <3>1 DEF ServiceInv, StopNoted, Undecided
    <3> QED
      BY <1>1, <2>2, <2>3, <3>2 DEF StopNoted, Phase
  <2>6. Knows(starts[p])'
    BY <2>1, <2>2, <2>3 DEF Knows, Known, Unwinding
  <2>7. /\ p \notin strays' /\ strays' \ {p} \subseteq strays /\ "service" \notin starts'[p].held
        /\ "service" \notin journal'.pending /\ abandoned' \subseteq evicted' /\ overlooked' \subseteq dead'
    BY <1>0, <1>1, <2>2, <2>3, Waits DEF ServiceInv
  <2> QED
    BY <1>1, <1>h, <2>3, <2>5, <2>6, <2>7, StarterKnows
<1> QED
  BY <1>2, <1>3

(* A start that comes to launch a service knows of none that its generation left. *)
LEMMA IntendingKeepsService ==
  ASSUME HoldInv, Starts, ServiceInv, NEW p \in Process, Intend(p)
  PROVE  ServiceInv'
<1>0. Starting(p) /\ starts[p].at = "services" /\ starts[p].runs = "none"
  BY DEF Intend, At, Starting, Leaving
<1>h. /\ StartupTypes /\ starts \in [Process -> Start] /\ starts[p] \in Start /\ journal \in Journal
      /\ WrittenBefore(p, starts[p]) /\ Placed(starts[p])
      /\ Knows(starts[p]) /\ Copy(p) = journal /\ \A q \in Process : Starting(q) => q = p
  BY <1>0, Stands DEF ServiceInv
<1>1. UNCHANGED <<generations, service, strays, dead, evicted, abandoned, overlooked>>
  BY DEF Intend, registries, history, undoings
<1>2. Undecided /\ journal.generation \in Process /\ "adoption" \notin journal.done /\ ~Known
  BY <1>0, <1>h DEF WrittenBefore, Placed, Knows, Bound, Later, Holding, Undecided
<1> DEFINE j == [Noted(Copy(p), {}, {"service"}) EXCEPT !.started = TRUE]
<1>3. /\ j.generation = journal.generation /\ j.committed = journal.committed /\ j.status = journal.status
      /\ j.done = journal.done /\ j.pending = journal.pending \cup {"service"} /\ j.started
  BY <1>h DEF Noted, Journal
<1>4. Writes(p, j, "launch")
  BY DEF Intend, Intended
<1> HIDE DEF j
<1>5. /\ journal' = j /\ starts'[p].at = "launch" /\ starts'[p].adopts = starts[p].adopts
      /\ starts'[p].runs = "none" /\ starts'[p].held = starts[p].held
      /\ \A q \in Process \ {p} : starts'[q] = starts[q]
  BY <1>0, <1>h, <1>4 DEF Writes, Start
<1>6. Undecided'
  BY <1>2, <1>3, <1>5 DEF Undecided, Interrupted
<1>7. ASSUME NEW g \in Process, Unstopped(g)' PROVE StopNoted(g)'
  <2>1. Unstopped(g)
    BY <1>0, <1>1, <1>h, <1>5, <1>7, Waits, NoneLaunched DEF Served
  <2> QED
    BY <1>1, <1>3, <1>5, <1>6, <2>1 DEF ServiceInv, StopNoted, Phase
<1>8. ~Known'
  <2>1. SUFFICES ASSUME Known' PROVE FALSE
    OBVIOUS
  <2>2. Served(journal.generation) /\ journal.generation \notin evicted
    BY <1>1, <1>3, <1>5, <2>1 DEF Known, Served
  <2>3. Unstopped(journal.generation)
    BY <2>2 DEF Unstopped, ServiceInv
  <2>4. "service" \in journal.pending
    BY <1>2, <2>3 DEF ServiceInv, StopNoted, Undecided
  <2> QED
    BY <1>2, <2>2, <2>4 DEF Known
<1>9. Knows(starts[p])'
  BY <1>2, <1>3, <1>5, <1>8 DEF Knows, Unwinding
<1>10. /\ p \notin strays' /\ strays' \ {p} \subseteq strays /\ "service" \notin starts'[p].held
       /\ journal'.started /\ "adoption" \notin journal'.done
       /\ abandoned' \subseteq evicted' /\ overlooked' \subseteq dead'
  BY <1>0, <1>1, <1>2, <1>3, <1>5, Waits DEF ServiceInv
<1> QED
  BY <1>1, <1>h, <1>5, <1>7, <1>9, <1>10, StarterKnows

(* A process is launched, and its row is written. *)
LEMMA SpawningKeepsService ==
  ASSUME HoldInv, Starts, ServiceInv, NEW p \in Process, Spawn(p) \/ Enrol(p)
  PROVE  ServiceInv'
<1>0. Starting(p) /\ starts[p].at \in {"launch", "enrol"}
  BY DEF Spawn, Enrol, At, Starting, Leaving
<1>h. /\ StartupTypes /\ starts \in [Process -> Start] /\ starts[p] \in Start
      /\ WrittenBefore(p, starts[p]) /\ strays \subseteq Process
      /\ Knows(starts[p]) /\ Copy(p) = journal /\ \A q \in Process : Starting(q) => q = p
  BY <1>0, Stands DEF ServiceInv, StartupTypes, WorldTypes
<1>1. Undecided /\ starts[p].generation = journal.generation /\ "service" \in journal.pending
  BY <1>0, <1>h DEF WrittenBefore, Knows, Bound, Later, Undecided
<1>2. UNCHANGED <<journal, generations, dead, evicted, abandoned, overlooked>>
  BY DEF Spawn, Enrol, history, undoings
<1>3. /\ starts'[p].adopts = starts[p].adopts /\ starts'[p].held = starts[p].held
      /\ starts'[p].generation = starts[p].generation /\ \A q \in Process \ {p} : starts'[q] = starts[q]
      /\ starts'[p].runs # "none" \/ (starts'[p].runs = starts[p].runs /\ service' = service)
      /\ starts'[p].at = IF Spawn(p) THEN "enrol" ELSE "store"
  <2>1. CASE Spawn(p)
    BY <1>h, <2>1 DEF Spawn, Goes, Start
  <2>2. CASE Enrol(p) /\ ~Spawn(p)
    BY <1>h, <2>2 DEF Enrol, Start
  <2> QED
    BY <2>1, <2>2
<1>4. strays' = IF Spawn(p) THEN strays \cup {p} ELSE strays \ {p}
  BY DEF Spawn, Enrol
<1>5. ASSUME NEW g \in Process, g # journal.generation, Unstopped(g)' PROVE Unstopped(g)
  <2>1. Served(g)' => Served(g)
    BY <1>1, <1>5 DEF Spawn, Enrol, Served
  <2>2. StraysOf(g)' \subseteq StraysOf(g)
    BY <1>1, <1>3, <1>4, <1>5, <1>h DEF StraysOf
  <2> QED
    BY <1>2, <1>5, <2>1, <2>2 DEF Unstopped
<1>6. ASSUME NEW g \in Process, Unstopped(g)' PROVE StopNoted(g)'
  <2>1. Undecided'
    BY <1>1, <1>2 DEF Undecided, Interrupted
  <2> QED
    BY <1>1, <1>2, <1>5, <1>6, <2>1 DEF ServiceInv, StopNoted, Phase
<1>7. Knows(starts[p])'
  BY <1>1, <1>2, <1>3, <1>h, <1>0 DEF Knows, Known, Served, Undecided, Interrupted, Unwinding
<1>8. /\ p \in strays' => starts'[p].at = "enrol"
      /\ strays' \ {p} \subseteq strays /\ "service" \notin starts'[p].held
      /\ "service" \in journal'.pending => journal'.started /\ "adoption" \notin journal'.done
      /\ abandoned' \subseteq evicted' /\ overlooked' \subseteq dead'
  BY <1>2, <1>3, <1>4 DEF ServiceInv
<1> QED
  BY <1>2, <1>h, <1>3, <1>6, <1>7, <1>8, StarterKnows

(* inspectStartupRecovery finds the service that the journal says must be stopped. *)
LEMMA InspectingKeepsService ==
  ASSUME HoldInv, Starts, AllNoted, ServiceInv, NEW p \in Process, Inspect(p), \A q \in Process \ {p} : ~Starting(q)
  PROVE  ServiceInv'
<1>0. starts[p].at \in {"idle", "again"}
  BY DEF Inspect, At
<1>h. StartupTypes /\ starts \in [Process -> Start] /\ starts[p] \in Start /\ journal \in Journal
  BY Here DEF HoldInv
<1>1. UNCHANGED <<journal, generations, service, strays, dead, abandoned, overlooked>> /\ evicted \subseteq evicted'
  BY DEF Inspect, registries
<1>2. PICK to \in {Class(journal)} \cup (IF Class(journal) = "resume" THEN {"rollback"} ELSE {}) :
        starts' = [starts EXCEPT ![p].at = IF to = "refused" THEN "done" ELSE to,
                                 ![p].copy = journal,
                                 ![p].adopts = @ \/ "adoption" \in journal.done,
                                 ![p].runs = IF /\ @ = "none" /\ to \in {"rollback", "resume"}
                                                /\ Evident(journal)
                                                /\ to = "resume" => "adoption" \notin journal.done
                                             THEN Adopted(journal.generation) ELSE @]
  BY DEF Inspect
<1>3. /\ to \in {"begin", "refused", "rollback", "cleanup", "resume"}
      /\ to = "cleanup" => journal.committed
      /\ to = "begin" => ~Interrupted
  <2>1. Class(journal) \in {"begin", "refused", "rollback", "cleanup", "resume"}
        /\ (Class(journal) = "cleanup" => journal.committed)
    BY <1>h, ClassIs, ClassTells
  <2>2. Interrupted => Class(journal) # "begin"
    <3>1. CommittedClass(journal) # "begin" /\ UncommittedClass(journal) # "begin"
      BY DEF CommittedClass, UncommittedClass, ServiceClass
    <3> QED
      BY <3>1 DEF Class, Interrupted
  <2> QED
    BY <1>2, <2>1, <2>2
<1> DEFINE at == IF to = "refused" THEN "done" ELSE to
           runs == IF /\ starts[p].runs = "none" /\ to \in {"rollback", "resume"}
                      /\ Evident(journal)
                      /\ to = "resume" => "adoption" \notin journal.done
                   THEN Adopted(journal.generation) ELSE starts[p].runs
<1>4. /\ starts'[p].at = at /\ starts'[p].runs = runs /\ starts'[p].held = starts[p].held
      /\ starts'[p].adopts = (starts[p].adopts \/ "adoption" \in journal.done)
      /\ \A q \in Process \ {p} : starts'[q] = starts[q]
  BY <1>2, <1>h DEF Start
<1>5. at \in {"begin", "done", "rollback", "cleanup", "resume"} /\ (at = "done" \/ at = to)
  BY <1>3
<1>6. Known' /\ at # "done" => runs # "none"
  <2> SUFFICES ASSUME Known', at # "done", starts[p].runs = "none" PROVE runs # "none"
    OBVIOUS
  <2>1. Undecided /\ "service" \in journal.pending /\ Served(journal.generation) /\ journal.generation \notin evicted'
    BY <1>1 DEF Known, Undecided, Interrupted, Served
  <2>2. ~Bereft(journal)
    BY <2>1 DEF Inspect, Undecided
  <2>3. Evident(journal) /\ "adoption" \notin journal.done
    BY <2>1, <2>2 DEF Evident, ServiceInv, Served
  <2>4. to \in {"rollback", "resume"}
    BY <1>3, <1>5, <2>1 DEF Undecided
  <2> QED
    BY <2>1, <2>3, <2>4 DEF Adopted, Served
<1> HIDE DEF at, runs
<1>7. Starting(p)' => Knows(starts[p])'
  BY <1>1, <1>4, <1>5, <1>6 DEF Knows, Starting, Unwinding
<1>8. ASSUME NEW g \in Process, Unstopped(g)' PROVE StopNoted(g)'
  <2>1. Unstopped(g)
    BY <1>0, <1>1, <1>h, <1>4, <1>8, Waits, NoneLaunched DEF Served
  <2> QED
    BY <1>1, <2>1 DEF ServiceInv, StopNoted, Phase, Undecided, Interrupted
<1>9. /\ p \notin strays' /\ strays' \ {p} \subseteq strays /\ "service" \notin starts'[p].held
      /\ "service" \in journal'.pending => journal'.started /\ "adoption" \notin journal'.done
      /\ abandoned' \subseteq evicted' /\ overlooked' \subseteq dead'
  BY <1>0, <1>1, <1>4, Waits DEF ServiceInv
<1> QED
  BY <1>1, <1>h, <1>4, <1>7, <1>8, <1>9, StarterKnows

(* compensateTransactionStartedServices: what it does not stop had lost its allocation, or has no row. *)
LEMMA StoppingKeepsService ==
  ASSUME HoldInv, Starts, ServiceInv, NEW p \in Process, UndoService(p)
  PROVE  ServiceInv'
<1>0. Starting(p) /\ starts[p].at \in {"undo", "undoLoop"} /\ IsNext(p, "service")
  BY DEF UndoService, Undoing, Starting, Leaving
<1>h. /\ StartupTypes /\ starts \in [Process -> Start] /\ starts[p] \in Start
      /\ WrittenBefore(p, starts[p]) /\ Placed(starts[p]) /\ strays \subseteq Process
      /\ Knows(starts[p]) /\ Copy(p) = journal /\ \A q \in Process : Starting(q) => q = p
  BY <1>0, Stands DEF ServiceInv, StartupTypes, WorldTypes
<1>1. Undecided /\ "service" \in journal.pending /\ "service" \in starts[p].todo /\ Undone(p) = journal.generation
  BY <1>0, <1>h DEF WrittenBefore, Knows, IsNext, Unwinding, Undecided, Undone
<1>2. /\ UNCHANGED <<journal, generations, strays, dead, evicted>>
      /\ overlooked' = overlooked \cup StraysOf(journal.generation)
  BY <1>1 DEF UndoService
<1>3. PICK to \in {"undone", "undoneLoop"} :
        \/ /\ starts[p].runs = "none" /\ Goes(p, to) /\ service' = service
           /\ abandoned' = IF Served(journal.generation) THEN abandoned \cup {journal.generation} ELSE abandoned
        \/ /\ service.generation = journal.generation /\ service' = [service EXCEPT !.up = FALSE]
           /\ starts' = [starts EXCEPT ![p].at = to, ![p].runs = "none"] /\ abandoned' = abandoned
  <2> DEFINE to == IF starts[p].at = "undoLoop" THEN "undoneLoop" ELSE "undone"
  <2>1. to \in {"undone", "undoneLoop"}
    OBVIOUS
  <2>2. \/ /\ starts[p].runs = "none" /\ Goes(p, to) /\ service' = service
           /\ abandoned' = IF Served(journal.generation) THEN abandoned \cup {journal.generation} ELSE abandoned
        \/ /\ service.generation = journal.generation /\ service' = [service EXCEPT !.up = FALSE]
           /\ starts' = [starts EXCEPT ![p].at = to, ![p].runs = "none"] /\ abandoned' = abandoned
    BY <1>1 DEF UndoService, NotesUndoing
  <2> HIDE DEF to
  <2> QED
    BY <2>1, <2>2
<1>4. /\ starts'[p].at = to /\ starts'[p].runs = "none" /\ starts'[p].adopts = starts[p].adopts
      /\ starts'[p].held = starts[p].held /\ starts'[p].todo = starts[p].todo
      /\ starts'[p].generation = starts[p].generation
      /\ \A q \in Process \ {p} : starts'[q] = starts[q]
  BY <1>3, <1>h DEF Goes, Start
<1>5. /\ \A g : Served(g)' => Served(g)
      /\ Served(journal.generation)' => journal.generation \in abandoned' \cap evicted
      /\ abandoned \subseteq abandoned' /\ abandoned' \subseteq evicted
  <2>1. CASE starts[p].runs = "none" /\ service' = service
             /\ abandoned' = IF Served(journal.generation) THEN abandoned \cup {journal.generation} ELSE abandoned
    <3>1. Served(journal.generation) => journal.generation \in evicted
      BY <1>1, <1>h, <2>1 DEF Knows, Known
    <3>2. \A g : Served(g)' <=> Served(g)
      BY <2>1 DEF Served
    <3>3. abandoned \subseteq evicted
      BY DEF ServiceInv
    <3>4. CASE Served(journal.generation)
      BY <2>1, <3>1, <3>2, <3>3, <3>4
    <3>5. CASE ~Served(journal.generation)
      BY <1>2, <2>1, <3>2, <3>3, <3>5
    <3> QED
      BY <3>4, <3>5
  <2>2. CASE service' = [service EXCEPT !.up = FALSE] /\ abandoned' = abandoned
    BY <1>h, <2>2 DEF Served, ServiceInv, StartupTypes, WorldTypes
  <2> QED
    BY <1>3, <2>1, <2>2
<1>6. overlooked' \subseteq dead
  <2>1. ASSUME NEW q \in strays PROVE q \in dead
    <3>1. starts[q].at = "enrol" /\ q \in Process
      BY <1>h DEF ServiceInv, StraysWait
    <3>2. ~Starting(q)
      BY <1>0, <1>h, <3>1
    <3> QED
      BY <3>1, <3>2 DEF Starting, Leaving
  <2> QED
    BY <1>2, <2>1 DEF ServiceInv, StraysOf
<1>7. ~Unstopped(journal.generation)'
  <2>1. StraysOf(journal.generation)' \subseteq overlooked'
    BY <1>2, <1>4, <1>h DEF StraysOf
  <2> QED
    BY <1>2, <1>5, <2>1 DEF Unstopped
<1>8. ASSUME NEW g \in Process, Unstopped(g)' PROVE StopNoted(g)'
  <2>1. Unstopped(g)
    BY <1>0, <1>2, <1>h, <1>4, <1>5, <1>8, Waits, NoneLaunched
  <2> QED
    BY <1>2, <2>1 DEF ServiceInv, StopNoted, Phase, Undecided, Interrupted
<1>9. Knows(starts[p])'
  <2>1. ~Known'
    BY <1>2, <1>5 DEF Known
  <2> QED
    BY <1>0, <1>1, <1>2, <1>4, <1>7, <1>h, <2>1 DEF Knows, Undecided, Interrupted
<1>10. /\ p \notin strays' /\ strays' \ {p} \subseteq strays /\ "service" \notin starts'[p].held
       /\ "service" \in journal'.pending => journal'.started /\ "adoption" \notin journal'.done
       /\ abandoned' \subseteq evicted' /\ overlooked' \subseteq dead'
  BY <1>0, <1>2, <1>4, <1>5, <1>6, Waits DEF ServiceInv
<1> QED
  BY <1>2, <1>h, <1>4, <1>8, <1>9, <1>10, StarterKnows

(* A step of a process that is not at its start any more, or dies. *)
LEMMA RestingKeeps ==
  ASSUME StartupTypes, ServiceInv, UNCHANGED <<journal, evicted, abandoned, overlooked>>, dead \subseteq dead',
         strays' \subseteq strays, \A q \in strays : starts'[q] = starts[q],
         \A q \in Process : starts'[q].held = starts[q].held,
         \A q \in Process : Starting(q)' => Starting(q) /\ starts'[q] = starts[q],
         \A g : Served(g)' => Served(g),
         \A g \in Process : Phase(g)' \in {"starting", "failed"} => Phase(g)' = Phase(g)
  PROVE  ServiceInv'
<1>1. \A g : Unstopped(g)' => Unstopped(g)
  BY DEF Unstopped, StraysOf
<1>2. StraysWait'
  BY DEF ServiceInv, StraysWait
<1>3. (Undecided' <=> Undecided) /\ (Known' => Known)
  BY DEF Undecided, Known, Interrupted
<1>4. ASSUME NEW g \in Process, Unstopped(g)' PROVE StopNoted(g)'
  BY <1>1, <1>3, <1>4 DEF ServiceInv, StopNoted
<1>5. ASSUME NEW q \in Process, Starting(q)' PROVE Knows(starts[q])'
  <2>1. Knows(starts[q]) /\ starts'[q] = starts[q]
    BY <1>5 DEF ServiceInv
  <2> QED
    BY <1>1, <1>3, <2>1 DEF Knows, First
<1>6. \A q \in Process : "service" \notin starts'[q].held
  BY DEF ServiceInv
<1> QED
  BY <1>2, <1>4, <1>5, <1>6 DEF ServiceInv

LEMMA LeavingKeepsService ==
  ASSUME HoldInv, ServiceInv, NEW p \in Process,
         \/ StopBegins(p) \/ StopServices(p) \/ StopInstance(p) \/ Disown(p) \/ Stopped(p) \/ Release(p) \/ Crash(p)
  PROVE  ServiceInv'
<1>h. /\ StartupTypes /\ starts \in [Process -> Start] /\ Placed(starts[p]) /\ strays \subseteq Process
      /\ service \in [generation : Id, allocation : Id, up : BOOLEAN, adopted : BOOLEAN]
      /\ generations \in [Process -> [phase : Phases, pid : Id]]
  BY Here DEF HoldInv, StartupTypes, WorldTypes
<1>1. /\ UNCHANGED <<journal, evicted, abandoned, overlooked>> /\ dead \subseteq dead' /\ strays' \subseteq strays
  BY DEF StopBegins, StopServices, StopInstance, Disown, Stopped, Release, Crash, registries, history, undoings
<1>2. \A g : Served(g)' => Served(g)
  <2>1. service' = service \/ \E up \in {FALSE, service.up} : service' = [service EXCEPT !.up = up]
    BY DEF StopBegins, StopServices, StopInstance, Disown, Stopped, Release, Crash, registries
  <2> QED
    BY <1>h, <2>1 DEF Served
<1>3. ASSUME NEW g \in Process, Phase(g)' \in {"starting", "failed"} PROVE Phase(g)' = Phase(g)
  <2> DEFINE h == starts[p].generation
  <2>1. \/ generations' = generations
        \/ \E phase \in {"stopping", "stopped"} : generations' = [generations EXCEPT ![h].phase = phase]
    BY DEF StopBegins, StopServices, StopInstance, Disown, Stopped, Release, Crash, Ended, registries
  <2> HIDE DEF h
  <2> QED
    BY <1>h, <1>3, <2>1 DEF Phase
<1>4. /\ \A q \in strays : starts'[q] = starts[q]
      /\ \A q \in Process : starts'[q].held = starts[q].held
      /\ \A q \in Process : Starting(q)' => Starting(q) /\ starts'[q] = starts[q]
  <2>1. CASE Crash(p)
    BY <1>1, <2>1 DEF Crash, Starting
  <2>2. CASE ~Crash(p)
    <3>1. PICK to \in Leaving \cup {"done"} :
            /\ p \notin dead /\ starts[p].at \in {"running"} \cup Leaving
            /\ Goes(p, to) \/ Turns(p, to, "none")
      BY <2>2 DEF StopBegins, StopServices, StopInstance, Disown, Stopped, Release, Stopping, At, Turns, Leaving
    <3>2. /\ \A q \in Process \ {p} : starts'[q] = starts[q]
          /\ starts'[p].at = to /\ starts'[p].held = starts[p].held
      BY <1>h, <3>1 DEF Goes, Turns, Start
    <3>3. p \notin strays
      BY <3>1 DEF ServiceInv, StraysWait, Leaving
    <3>4. \A q \in Process : Starting(q)' => q # p /\ Starting(q)
      BY <1>1, <3>1, <3>2 DEF Starting
    <3> QED
      BY <1>h, <3>2, <3>3, <3>4
  <2> QED
    BY <2>1, <2>2
<1> QED
  BY <1>1, <1>2, <1>3, <1>4, <1>h, RestingKeeps

-----------------------------------------------------------------------------
(* What a start leaves *)

LEMMA RollbackInit == StartupInit => RollbackInv
<1> SUFFICES ASSUME StartupInit PROVE RollbackInv
  OBVIOUS
<1>1. HoldInv
  BY InitHolds
<1>2. /\ \A p \in Process : /\ starts[p].at = "idle" /\ starts[p].generation = "none"
                            /\ ~starts[p].recovering /\ generations[p].phase = "none"
                            /\ ~instances[p].running
      /\ journal.generation = "none" /\ journal.status = "none" /\ ~journal.committed
      /\ owner.generation = "none" /\ owner.pid = "none" /\ service.generation = "none" /\ ~service.up
      /\ ~plan.reserved
      /\ strays = {} /\ abandoned = {} /\ overlooked = {}
      /\ journal.pending = {} /\ \A p \in Process : starts[p].held = {}
  BY DEF StartupInit, NoStart, NoJournal, NoInstance
<1>3. Starts
  BY <1>2, ProcessAssumption DEF Starts, OneStart, InPlace, Starting, Early, Traceless, Committed, Phase, Leaving
<1>4. AllNoted
  BY <1>2 DEF AllNoted, Outcomes, OwnerNoted, GenerationNoted, PlanNoted, OwnerLives, Alive
<1>5. ServiceInv
  <2>1. \A g \in Process : ~Unstopped(g)
    BY <1>2 DEF Unstopped, Served, StraysOf
  <2>2. \A p \in Process : ~Starting(p)
    BY <1>2 DEF Starting
  <2> QED
    BY <1>2, <2>1, <2>2 DEF ServiceInv, StraysWait
<1> QED
  BY <1>1, <1>3, <1>4, <1>5 DEF RollbackInv

LEMMA OverlapsCount ==
  ASSUME StartupTypes, NEW p \in Process, Inspect(p), spent'.overlaps = 0
  PROVE  spent.overlaps = 0 /\ \A q \in Process \ {p} : ~Starting(q)
<1>1. spent \in [crashes : Nat, faults : Nat, overlaps : Nat]
  BY DEF StartupTypes, WorldTypes
<1>2. CASE \E q \in Process \ {p} : Starting(q)
  <2>1. spent' = [spent EXCEPT !.overlaps = @ + 1]
    BY <1>2 DEF Inspect
  <2> QED
    BY <1>1, <2>1
<1>3. CASE ~(\E q \in Process \ {p} : Starting(q))
  BY <1>1, <1>3 DEF Inspect
<1> QED
  BY <1>2, <1>3

LEMMA RollbackStep == RollbackInv /\ [StartupNext]_startupVars => RollbackInv'
<1> SUFFICES ASSUME RollbackInv, [StartupNext]_startupVars, spent'.overlaps = 0 PROVE Starts' /\ AllNoted' /\ ServiceInv'
  BY StepHolds DEF RollbackInv
<1>h. HoldInv
  BY DEF RollbackInv
<1>1. CASE UNCHANGED startupVars
  <2>1. Starts /\ AllNoted /\ ServiceInv
    BY <1>1 DEF startupVars, RollbackInv
  <2>2. AllNoted'
    BY <1>1, <2>1 DEF startupVars, AllNoted, Outcomes, OwnerNoted, GenerationNoted, PlanNoted,
         OwnerLives, Alive, Phase, Interrupted
  <2>3. Starts'
    BY <1>1, <2>1 DEF startupVars, Starts, OneStart, InPlace, Starting, Copy, WrittenBefore, Unwound, First, Early,
         Traceless, Committed, OwnerLives, Alive, Phase, Interrupted
  <2>4. ServiceInv'
    <3>1. \A g : (Unstopped(g)' <=> Unstopped(g)) /\ (StopNoted(g)' <=> StopNoted(g))
      BY <1>1 DEF startupVars, Unstopped, Served, StraysOf, StopNoted, Phase, Undecided, Interrupted
    <3>2. \A q \in Process : Starting(q)' /\ Knows(starts[q]) => Starting(q) /\ Knows(starts[q])'
      BY <1>1, <3>1 DEF startupVars, Starting, Knows, Known, Undecided, Interrupted, Served, First
    <3>3. \A q \in Process : Starting(q)' => Starting(q)
      BY <1>1 DEF startupVars, Starting
    <3> QED
      BY <1>1, <2>1, <3>1, <3>2, <3>3 DEF startupVars, ServiceInv, StraysWait
  <2> QED
    BY <2>2, <2>3, <2>4
<1>2. ASSUME NEW p \in Process, Inspect(p) PROVE Starts' /\ AllNoted' /\ ServiceInv'
  <2>1. spent.overlaps = 0 /\ \A q \in Process \ {p} : ~Starting(q)
    BY <1>h, <1>2, OverlapsCount DEF HoldInv
  <2> QED
    BY <1>h, <1>2, <2>1, InspectingKeeps, InspectingKeepsService DEF RollbackInv
<1>3. ASSUME NEW p \in Process,
             \/ Rollback(p) \/ Cleanup(p) \/ Cleaned(p) \/ Resume(p) \/ Prepare(p) \/ Recover(p)
             \/ Begin(p) \/ NoteAdoption(p) \/ Generate(p) \/ NoteGeneration(p) \/ Reserve(p) \/ ReservePlan(p)
             \/ Claim(p) \/ NoteAllocation(p) \/ Own(p) \/ NoteOwnership(p) \/ Rebind(p) \/ Intend(p)
             \/ NothingToLaunch(p) \/ Rediscover(p) \/ Spawn(p) \/ Enrol(p) \/ Store(p) \/ Register(p)
             \/ RegisterHost(p) \/ NoteInstance(p)
             \/ Publish(p) \/ NoteCommitted(p) \/ Seal(p) \/ Fail(p) \/ SealFails(p)
             \/ UndoService(p) \/ UndoInstance(p) \/ UndoOwnership(p) \/ UndoAllocation(p) \/ UndoGeneration(p)
             \/ NoteUndone(p) \/ UndoFails(p) \/ Settle(p)
             \/ StopBegins(p) \/ StopServices(p) \/ StopInstance(p) \/ Disown(p) \/ Stopped(p) \/ Release(p)
             \/ Crash(p)
      PROVE  Starts' /\ AllNoted' /\ ServiceInv'
  <2>1. spent.overlaps = 0
    <3>1. spent \in [crashes : Nat, faults : Nat, overlaps : Nat]
      BY <1>h DEF HoldInv, StartupTypes, WorldTypes
    <3>2. Faults => spent'.overlaps = spent.overlaps
      BY <3>1, FaultsCount
    <3>3. CASE Crash(p)
      BY <3>1, <3>3 DEF Crash
    <3>4. CASE Fail(p) \/ SealFails(p) \/ UndoFails(p) \/ Settle(p)
      BY <3>2, <3>4 DEF Fail, SealFails, UndoFails, Settle
    <3>5. CASE ~(Crash(p) \/ Fail(p) \/ SealFails(p) \/ UndoFails(p) \/ Settle(p))
      <4>1. spent' = spent
        BY <1>3, <3>5 DEF Rollback, Cleanup, Cleaned, Resume, Prepare, Recover, Begin, NoteAdoption, Generate,
             NoteGeneration, Reserve, ReservePlan, Claim, NoteAllocation, Own, NoteOwnership, Rebind, Intend,
             NothingToLaunch, Rediscover, Spawn, Enrol, Store, Register, RegisterHost, NoteInstance, Publish, NoteCommitted, Seal,
             UndoService, UndoInstance, UndoOwnership, UndoAllocation, UndoGeneration, NoteUndone,
             StopBegins, StopServices, StopInstance, Disown, Stopped, Release, history, undoings
      <4> QED
        BY <4>1
    <3> QED
      BY <3>3, <3>4, <3>5
  <2>2. Starts /\ AllNoted /\ ServiceInv
    BY <2>1 DEF RollbackInv
  <2>3. Starts' /\ AllNoted'
    BY <1>h, <1>3, <2>2, SilentMoves, FailingKeeps, UndoFailingKeeps, UndoingKeeps, NotingUndoneKeeps, SettlingKeeps,
       NotingMoves, NotingToGiveBack, RollingBackKeeps, ClosingKeeps, BeginningKeeps, TakingKeeps, ReservingKeeps,
       ClaimingKeeps, OwningKeeps, UnreadyKeeps, LaunchingKeeps, LeavingKeeps, DyingKeeps
  <2>4. ServiceInv'
    BY <1>h, <1>3, <2>2, MovesKeepService, FailuresKeepService, UndoingKeepsService, RebindingKeepsService,
       TakingKeepsService, NotesKeepService, NotingGenerationKeepsService, ClosingKeepsService, SettlingKeepsService,
       BeginningKeepsService, IntendingKeepsService, SpawningKeepsService, StoppingKeepsService, LeavingKeepsService
  <2> QED
    BY <2>3, <2>4
<1> QED
  BY <1>1, <1>2, <1>3 DEF StartupNext

(* The inductive invariant of what a start writes before what it does, for any processes and
   troubles, until a start begins during another's. *)
THEOREM RollbackIsInvariant == StartupSpec => []RollbackInv
<1>1. StartupInit => RollbackInv
  BY RollbackInit
<1>2. RollbackInv /\ [StartupNext]_startupVars => RollbackInv'
  BY RollbackStep
<1> QED
  BY <1>1, <1>2, PTL DEF StartupSpec

(* From its spawn on, a process that a generation which never ran launched lives only while the
   journal of that generation is open and says that it must be stopped: the intent is on disk before
   the spawn, and leaves it only once the process is down, or once a rollback did not know of it
   (startApiServerGeneration, compensateTransactionStartedServices). *)
THEOREM LaunchesAreRecorded == StartupSpec => []LaunchedIsRecorded
<1>1. RollbackInv => LaunchedIsRecorded
  <2> SUFFICES ASSUME RollbackInv, spent.overlaps = 0, NEW g \in Process, Unstopped(g),
                      generations[g].phase \in {"starting", "failed"}
               PROVE  "service" \in journal.pending /\ journal.generation = g /\ Interrupted
    BY DEF LaunchedIsRecorded
  <2>1. StopNoted(g)
    BY DEF RollbackInv, ServiceInv
  <2> QED
    BY <2>1 DEF StopNoted, Phase, Undecided
<1> QED
  BY <1>1, RollbackIsInvariant, PTL

(* A journal that says the start was rolled back tells the truth, wherever its processes failed or
   died: no owner that lives, no generation that runs, no instance and no reserved allocation of it is
   left, and no process of a service but one whose runtime died before it wrote the row, or whose
   generation had lost its allocation (settleStartupTransaction, inspectStartupRecovery). *)
THEOREM RollbacksLeaveNothing == StartupSpec => []RolledBackLeavesNothing
<1>1. RollbackInv => RolledBackLeavesNothing
  <2>1. ASSUME RollbackInv, spent.overlaps = 0 PROVE abandoned \subseteq evicted /\ overlooked \subseteq dead
    BY <2>1 DEF RollbackInv, ServiceInv
  <2>2. ASSUME RollbackInv, spent.overlaps = 0, journal.status = "rolled_back"
        PROVE  LET g == journal.generation IN
               /\ Served(g) => g \in abandoned
               /\ StraysOf(g) \subseteq overlooked
               /\ owner.generation = g => ~Alive(owner.pid)
               /\ generations[g].phase \notin {"running", "stopping"}
               /\ ~HasService(g)
               /\ plan.allocation = journal.allocation => ~plan.reserved
    <3>1. AllNoted /\ ~journal.committed /\ journal.pending = {} /\ journal.generation \in Process
      BY <2>2 DEF RollbackInv, AllNoted, Outcomes, HoldInv, Names
    <3>2. ~Unstopped(journal.generation)
      BY <2>2, <3>1 DEF RollbackInv, ServiceInv, StopNoted
    <3>3. ~OwnerLives
      BY <3>1 DEF AllNoted, OwnerNoted
    <3>4. generations[journal.generation].phase \notin {"running", "stopping"}
      BY <2>2, <3>1 DEF AllNoted, GenerationNoted, Phase
    <3>5. ~HasService(journal.generation)
      BY <3>1, <3>3 DEF HasService, AllNoted, OwnerNoted, OwnerLives
    <3>6. plan.allocation = journal.allocation => ~plan.reserved
      BY <3>1 DEF AllNoted, PlanNoted
    <3> QED
      BY <3>2, <3>3, <3>4, <3>5, <3>6 DEF OwnerLives, Unstopped
  <2> QED
    BY <2>1, <2>2 DEF RolledBackLeavesNothing
<1> QED
  BY <1>1, RollbackIsInvariant, PTL

-----------------------------------------------------------------------------
(* The workspace lock *)

LockPlaces == {"idle", "trying", "opened", "holding", "judging", "stealing", "unlinking", "dead"}

Troubled == used.crashes + used.pauses > 0

(* Nothing looks stale, and nothing is stolen, before something has gone wrong. *)
StaleHasCause ==
  /\ \A p \in Proc : Dead(p) => used.crashes > 0
  /\ file.old => used.pauses > 0
  /\ \A p \in Proc : pc[p] = "stealing" => Troubled
  /\ robbed => Troubled

(* While no lock was robbed, whoever has opened the file and not left is the one in it: what makes
   the unlink of a holder harmless, and two holders the same. *)
FileNamesHolder ==
  ~robbed => \A p \in Proc : pc[p] \in {"opened", "holding", "unlinking"} => file.owner = p

LockInv == LockTypeOK /\ StaleHasCause /\ FileNamesHolder

-----------------------------------------------------------------------------

(* What a step may put in a process's place. *)
LEMMA MovesIsTyped ==
  ASSUME NEW p \in Proc, NEW to \in LockPlaces, pc \in [Proc -> LockPlaces], Moves(p, to)
  PROVE  /\ pc' \in [Proc -> LockPlaces]
         /\ pc'[p] = to
         /\ \A q \in Proc : q # p => pc'[q] = pc[q]
BY DEF Moves

(* The type of the state, in the form the steps use. *)
LEMMA TypeFacts ==
  ASSUME LockTypeOK
  PROVE  /\ pc \in [Proc -> LockPlaces]
         /\ used.crashes \in Nat /\ used.pauses \in Nat
         /\ file # NoFile => file \in [owner : Proc, written : BOOLEAN, old : BOOLEAN]
         /\ file = NoFile => file.owner \notin Proc /\ ~file.old /\ ~file.written
BY LockAssumption DEF LockTypeOK, NoFile, LockPlaces

LEMMA InitIsSound == LockInit => LockInv
<1> SUFFICES ASSUME LockInit PROVE LockInv
  OBVIOUS
<1>1. used \in [crashes : 0..MaxCrashes, pauses : 0..MaxPauses]
  BY LockAssumption DEF LockInit
<1>2. LockTypeOK
  BY <1>1 DEF LockInit, LockTypeOK
<1>3. StaleHasCause
  BY DEF LockInit, StaleHasCause, NoFile, Dead
<1>4. FileNamesHolder
  BY DEF LockInit, FileNamesHolder
<1> QED
  BY <1>2, <1>3, <1>4 DEF LockInv

(* A step that moves a process and leaves the file, the history and the bounds as they are, into a
   place that gives it neither the file nor the wish to steal. *)
LEMMA QuietStep ==
  ASSUME LockInv, NEW p \in Proc, NEW to \in {"idle", "trying", "judging"}, Moves(p, to),
         UNCHANGED <<scheme, file, robbed, used>>
  PROVE  LockInv'
<1>1. /\ pc' \in [Proc -> LockPlaces] /\ pc'[p] = to
      /\ \A q \in Proc : q # p => pc'[q] = pc[q]
  BY TypeFacts, MovesIsTyped DEF LockInv, LockPlaces
<1>2. LockTypeOK'
  BY <1>1 DEF LockInv, LockTypeOK, LockPlaces
<1>3. StaleHasCause'
  BY <1>1 DEF LockInv, StaleHasCause, Dead, Troubled
<1>4. FileNamesHolder'
  BY <1>1 DEF LockInv, FileNamesHolder
<1> QED
  BY <1>2, <1>3, <1>4 DEF LockInv

LEMMA OpenIsSound ==
  ASSUME LockInv, NEW p \in Proc, Open(p)
  PROVE  LockInv'
<1>1. CASE Free
  <2>1. /\ file' = [owner |-> p, written |-> FALSE, old |-> FALSE]
        /\ Moves(p, "opened") /\ UNCHANGED <<scheme, robbed, used>>
    BY <1>1 DEF Open
  <2>2. /\ pc' \in [Proc -> LockPlaces] /\ pc'[p] = "opened"
        /\ \A q \in Proc : q # p => pc'[q] = pc[q]
    BY <2>1, TypeFacts, MovesIsTyped DEF LockInv, LockPlaces
  <2>3. LockTypeOK'
    BY <2>1, <2>2 DEF LockInv, LockTypeOK, LockPlaces
  <2>4. StaleHasCause'
    BY <2>1, <2>2 DEF LockInv, StaleHasCause, Dead, Troubled
  <2>5. FileNamesHolder'
    BY <1>1, <2>1, <2>2, TypeFacts DEF LockInv, FileNamesHolder, Free
  <2> QED
    BY <2>3, <2>4, <2>5 DEF LockInv
<1>2. CASE ~Free
  BY <1>2, QuietStep DEF Open
<1> QED
  BY <1>1, <1>2

LEMMA WriteIsSound ==
  ASSUME LockInv, NEW p \in Proc, Write(p)
  PROVE  LockInv'
<1>1. Moves(p, "holding") /\ UNCHANGED <<scheme, robbed, used>> /\ pc[p] = "opened"
  BY DEF Write
<1>2. /\ pc' \in [Proc -> LockPlaces] /\ pc'[p] = "holding"
      /\ \A q \in Proc : q # p => pc'[q] = pc[q]
  BY <1>1, TypeFacts, MovesIsTyped DEF LockInv, LockPlaces
<1>3. /\ file'.owner = file.owner
      /\ file'.old => file.old
      /\ file' \in {NoFile} \cup [owner : Proc, written : BOOLEAN, old : BOOLEAN]
  <2>1. CASE file.owner = p
    <3>1. file \in [owner : Proc, written : BOOLEAN, old : BOOLEAN]
      BY <2>1, TypeFacts DEF LockInv
    <3>2. file' = [file EXCEPT !.written = TRUE, !.old = FALSE]
      BY <2>1 DEF Write, WritesIdentity
    <3> QED
      BY <3>1, <3>2
  <2>2. CASE file.owner # p
    BY <2>2 DEF Write, WritesIdentity, LockInv, LockTypeOK
  <2> QED
    BY <2>1, <2>2
<1>4. LockTypeOK'
  BY <1>1, <1>2, <1>3 DEF LockInv, LockTypeOK, LockPlaces
<1>5. StaleHasCause'
  BY <1>1, <1>2, <1>3 DEF LockInv, StaleHasCause, Dead, Troubled
<1>6. FileNamesHolder'
  BY <1>1, <1>2, <1>3 DEF LockInv, FileNamesHolder
<1> QED
  BY <1>4, <1>5, <1>6 DEF LockInv

(* Whoever finds a lock stale has a death or a pause to show for it. *)
LEMMA JudgeIsSound ==
  ASSUME LockInv, NEW p \in Proc, Judge(p)
  PROVE  LockInv'
<1>1. CASE file # NoFile /\ JudgedStale
  <2>1. Moves(p, "stealing") /\ UNCHANGED <<scheme, file, robbed, used>>
    BY <1>1 DEF Judge
  <2>2. /\ pc' \in [Proc -> LockPlaces] /\ pc'[p] = "stealing"
        /\ \A q \in Proc : q # p => pc'[q] = pc[q]
    BY <2>1, TypeFacts, MovesIsTyped DEF LockInv, LockPlaces
  <2>3. used.crashes \in Nat /\ used.pauses \in Nat /\ file.owner \in Proc
    BY <1>1, TypeFacts DEF LockInv
  <2>4. used.crashes > 0 \/ used.pauses > 0
    BY <1>1, <2>3 DEF JudgedStale, LockInv, StaleHasCause
  <2>5. Troubled'
    BY <2>1, <2>3, <2>4 DEF Troubled
  <2>6. LockTypeOK'
    BY <2>1, <2>2 DEF LockInv, LockTypeOK, LockPlaces
  <2>7. StaleHasCause'
    BY <2>1, <2>2, <2>5 DEF LockInv, StaleHasCause, Dead
  <2>8. FileNamesHolder'
    BY <2>1, <2>2 DEF LockInv, FileNamesHolder
  <2> QED
    BY <2>6, <2>7, <2>8 DEF LockInv
<1>2. CASE ~(file # NoFile /\ JudgedStale)
  <2>1. \/ Moves(p, "trying") /\ UNCHANGED <<scheme, file, robbed, used>>
        \/ Moves(p, "idle") /\ UNCHANGED <<scheme, file, robbed, used>>
    BY <1>2 DEF Judge
  <2> QED
    BY <2>1, QuietStep
<1> QED
  BY <1>1, <1>2

(* Taking the file away: from oneself, from the dead, or after something has gone wrong. *)
LEMMA RemovalIsSound ==
  ASSUME LockInv, NEW p \in Proc, NEW to \in {"idle", "trying"}, Removes(p), Moves(p, to),
         UNCHANGED <<scheme, used>>,
         Troubled \/ (~robbed => file.owner = p)
  PROVE  LockInv'
<1>1. /\ pc' \in [Proc -> LockPlaces] /\ pc'[p] = to
      /\ \A q \in Proc : q # p => pc'[q] = pc[q]
  BY TypeFacts, MovesIsTyped DEF LockInv, LockPlaces
<1>2. /\ file' = NoFile
      /\ robbed' = (robbed \/ (file # NoFile /\ file.owner # p /\ ~Dead(file.owner)))
      /\ robbed \in BOOLEAN
  BY DEF Removes, LockInv, LockTypeOK
<1>3. LockTypeOK'
  BY <1>1, <1>2 DEF LockInv, LockTypeOK, LockPlaces
<1>4. robbed' => Troubled'
  BY <1>2 DEF LockInv, StaleHasCause, Troubled
<1>5. StaleHasCause'
  BY <1>1, <1>2, <1>4 DEF LockInv, StaleHasCause, Dead, Troubled, NoFile
<1>6. FileNamesHolder'
  <2> SUFFICES ASSUME ~robbed', NEW q \in Proc,
                      pc'[q] \in {"opened", "holding", "unlinking"}
               PROVE  FALSE
    BY DEF FileNamesHolder
  <2>1. q # p /\ pc[q] \in {"opened", "holding", "unlinking"}
    BY <1>1
  <2>2. file.owner = q
    BY <1>2, <2>1 DEF LockInv, FileNamesHolder
  <2>3. file # NoFile
    BY <2>2, TypeFacts DEF LockInv
  <2>4. ~Dead(q)
    BY <2>1 DEF Dead
  <2> QED
    BY <1>2, <2>1, <2>2, <2>3, <2>4
<1> QED
  BY <1>3, <1>5, <1>6 DEF LockInv

LEMMA StealIsSound ==
  ASSUME LockInv, NEW p \in Proc, Steal(p)
  PROVE  LockInv'
<1>1. Troubled
  BY DEF Steal, LockInv, StaleHasCause
<1> QED
  BY <1>1, RemovalIsSound DEF Steal

LEMMA LeaveIsSound ==
  ASSUME LockInv, NEW p \in Proc, Leave(p)
  PROVE  LockInv'
<1>1. CASE IsMine(p)
  <2>1. Moves(p, "unlinking") /\ UNCHANGED <<scheme, file, robbed, used>> /\ file.owner = p
    BY <1>1 DEF Leave, IsMine
  <2>2. /\ pc' \in [Proc -> LockPlaces] /\ pc'[p] = "unlinking"
        /\ \A q \in Proc : q # p => pc'[q] = pc[q]
    BY <2>1, TypeFacts, MovesIsTyped DEF LockInv, LockPlaces
  <2>3. LockTypeOK'
    BY <2>1, <2>2 DEF LockInv, LockTypeOK, LockPlaces
  <2>4. StaleHasCause'
    BY <2>1, <2>2 DEF LockInv, StaleHasCause, Dead, Troubled
  <2>5. FileNamesHolder'
    BY <2>1, <2>2 DEF LockInv, FileNamesHolder
  <2> QED
    BY <2>3, <2>4, <2>5 DEF LockInv
<1>2. CASE ~IsMine(p)
  BY <1>2, QuietStep DEF Leave
<1> QED
  BY <1>1, <1>2

LEMMA UnlinkIsSound ==
  ASSUME LockInv, NEW p \in Proc, Unlink(p)
  PROVE  LockInv'
<1>1. ~robbed => file.owner = p
  BY DEF Unlink, LockInv, FileNamesHolder
<1> QED
  BY <1>1, RemovalIsSound DEF Unlink

LEMMA DieIsSound ==
  ASSUME LockInv, NEW p \in Proc, Die(p)
  PROVE  LockInv'
<1>1. /\ Moves(p, "dead") /\ UNCHANGED <<scheme, file, robbed>>
      /\ used.crashes < MaxCrashes
      /\ used' = [used EXCEPT !.crashes = @ + 1]
  BY DEF Die
<1>2. /\ pc' \in [Proc -> LockPlaces] /\ pc'[p] = "dead"
      /\ \A q \in Proc : q # p => pc'[q] = pc[q]
  BY <1>1, TypeFacts, MovesIsTyped DEF LockInv, LockPlaces
<1>3. used \in [crashes : 0..MaxCrashes, pauses : 0..MaxPauses]
  BY DEF LockInv, LockTypeOK
<1>4. /\ used' = [crashes |-> used.crashes + 1, pauses |-> used.pauses]
      /\ used.crashes \in 0..MaxCrashes /\ used.pauses \in 0..MaxPauses
  BY <1>1, <1>3
<1>5. used' \in [crashes : 0..MaxCrashes, pauses : 0..MaxPauses]
  <2>1. used.crashes + 1 \in 0..MaxCrashes
    BY <1>1, <1>4, LockAssumption
  <2> QED
    BY <1>4, <2>1
<1>6. used'.crashes > 0 /\ used'.pauses = used.pauses /\ Troubled'
  BY <1>4, LockAssumption DEF Troubled
<1>7. LockTypeOK'
  BY <1>1, <1>2, <1>5 DEF LockInv, LockTypeOK, LockPlaces
<1>8. StaleHasCause'
  BY <1>1, <1>6 DEF LockInv, StaleHasCause, Dead
<1>9. FileNamesHolder'
  BY <1>1, <1>2 DEF LockInv, FileNamesHolder
<1> QED
  BY <1>7, <1>8, <1>9 DEF LockInv

LEMMA AgeIsSound ==
  ASSUME LockInv, Age
  PROVE  LockInv'
<1>1. /\ file # NoFile /\ UNCHANGED <<scheme, pc, robbed>>
      /\ used.pauses < MaxPauses
      /\ file' = [file EXCEPT !.old = TRUE]
      /\ used' = [used EXCEPT !.pauses = @ + 1]
  BY DEF Age
<1>2. file \in [owner : Proc, written : BOOLEAN, old : BOOLEAN]
  BY <1>1, TypeFacts DEF LockInv
<1>3. /\ file' \in [owner : Proc, written : BOOLEAN, old : BOOLEAN]
      /\ file'.owner = file.owner
  BY <1>1, <1>2
<1>4. used \in [crashes : 0..MaxCrashes, pauses : 0..MaxPauses]
  BY DEF LockInv, LockTypeOK
<1>5. /\ used' = [crashes |-> used.crashes, pauses |-> used.pauses + 1]
      /\ used.crashes \in 0..MaxCrashes /\ used.pauses \in 0..MaxPauses
  BY <1>1, <1>4
<1>6. used' \in [crashes : 0..MaxCrashes, pauses : 0..MaxPauses]
  <2>1. used.pauses + 1 \in 0..MaxPauses
    BY <1>1, <1>5, LockAssumption
  <2> QED
    BY <1>5, <2>1
<1>7. used'.pauses > 0 /\ used'.crashes = used.crashes /\ Troubled'
  BY <1>5, LockAssumption DEF Troubled
<1>8. LockTypeOK'
  BY <1>1, <1>3, <1>6 DEF LockInv, LockTypeOK
<1>9. StaleHasCause'
  BY <1>1, <1>7 DEF LockInv, StaleHasCause, Dead
<1>10. FileNamesHolder'
  BY <1>1, <1>3 DEF LockInv, FileNamesHolder
<1> QED
  BY <1>8, <1>9, <1>10 DEF LockInv

LEMMA StepIsSound == LockInv /\ [LockNext]_lockVars => LockInv'
<1> SUFFICES ASSUME LockInv, [LockNext]_lockVars PROVE LockInv'
  OBVIOUS
<1>1. CASE Age
  BY <1>1, AgeIsSound
<1>2. ASSUME NEW p \in Proc,
             Call(p) \/ Open(p) \/ Write(p) \/ Judge(p) \/ Steal(p) \/ Leave(p) \/ Unlink(p) \/ Die(p)
      PROVE  LockInv'
  <2>1. CASE Call(p)
    BY <2>1, QuietStep DEF Call
  <2> QED
    BY <1>2, <2>1, OpenIsSound, WriteIsSound, JudgeIsSound, StealIsSound, LeaveIsSound,
       UnlinkIsSound, DieIsSound
<1>3. CASE UNCHANGED lockVars
  BY <1>3 DEF lockVars, LockInv, LockTypeOK, StaleHasCause, FileNamesHolder, Dead, Troubled
<1> QED
  BY <1>1, <1>2, <1>3 DEF LockNext

(* Every state of the lock is typed, has a cause for what looks stale, and while nothing was robbed
   its file names whoever has it. *)
THEOREM LockIsInvariant == LockSpec => []LockInv
<1> QED
  BY InitIsSound, StepIsSound, PTL DEF LockSpec

(* The variables keep their types. *)
THEOREM LockIsTyped == LockSpec => []LockTypeOK
<1>1. LockInv => LockTypeOK
  BY DEF LockInv
<1> QED
  BY <1>1, LockIsInvariant, PTL

(* withWorkspaceLifecycleLock and mutateHostRegistry exclude, unless a lock was taken from a process
   that lived, which takes a death or a file that reached the stale age. *)
THEOREM LockExcludes == LockSpec => []ExclusiveUnlessRobbed
<1>1. LockInv => ExclusiveUnlessRobbed
  BY DEF LockInv, StaleHasCause, FileNamesHolder, ExclusiveUnlessRobbed, InSection, Troubled
<1> QED
  BY <1>1, LockIsInvariant, PTL
=============================================================================
