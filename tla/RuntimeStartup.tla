---------------------------- MODULE RuntimeStartup ----------------------------
(***************************************************************************)
(* How a runtime process takes over a workspace, publishes itself and      *)
(* leaves (server/index.ts startApiServerInternal, startApiServerGeneration*)
(* and its stop), over the records it shares with every other process: the *)
(* startup journal, the generation registry, the runtime's and a service's *)
(* row of the process registry, the endpoint allocation of the host and of *)
(* the workspace, and the instance records of the workspace and the host.  *)
(* A start first looks at what an earlier one left behind                  *)
(* (startup/recovery.ts) and resumes it, rolls it back, completes it or    *)
(* refuses.                                                                *)
(*                                                                         *)
(* A member of Process is an operating system process that starts the      *)
(* runtime once; its name also stands for the generation and for the       *)
(* allocation it creates.  One service stands for all of them.  What the   *)
(* compensations do to files is StartupMaterialization's; what a service   *)
(* goes through once it is launched is ServiceLifecycle's.  Left out is an *)
(* enrolment that fails together with the containment of its process.      *)
(***************************************************************************)
EXTENDS Naturals, Sequences

CONSTANTS
  Process,    \* operating system processes
  MaxTroubles \* bounds the crashes, the steps that fail and the starts that begin during another's

ASSUME ProcessAssumption == "none" \notin Process

VARIABLES
  journal,      \* the startup journal; written whole, from the writer's copy, under no lock
  generations,  \* the generation registry: phase and pid of each
  active,       \* its activeGenerationId
  owner,        \* the runtime's row of the process registry
  service,      \* the service's row, whether its process is up and whether a start took it over
  strays,       \* the runtimes whose launched service process lives and has no row yet
  reservations, \* the host's endpoint registry: allocations and the pid that holds each
  plan,         \* the workspace's allocation plan
  instance,     \* the workspace's instance record
  instances,    \* the host's instance records, by generation
  starts,       \* per process: where it is and what it holds in memory
  dead,         \* the processes that died
  usurped,      \* history: a rollback ended the generation of a process that lives
  evicted,      \* history: the generations whose allocation was found released while their service was live
  abandoned,    \* history: the generations whose live service a rollback did not know of
  overlooked,   \* history: the strays that a rollback passed over
  spent         \* the bounds already used

startupVars == <<journal, generations, active, owner, service, strays, reservations, plan, instance,
                 instances, starts, dead, usurped, evicted, abandoned, overlooked, spent>>

Interrupted == journal.status \in {"active", "blocked"}

NoJournal == [generation |-> "none", status |-> "none", committed |-> FALSE, done |-> {},
              pending |-> {}, allocation |-> "none", started |-> FALSE]
NoInstance == [pid |-> "none", running |-> FALSE]

(* runs: the process's lifecycle state says that the service runs, for its own generation or not. *)
NoStart == [at |-> "idle", copy |-> NoJournal, generation |-> "none", allocation |-> "none",
            held |-> {}, todo |-> {}, recovering |-> FALSE, adopts |-> FALSE, runs |-> "none"]

StartupInit ==
  /\ journal = NoJournal
  /\ generations = [g \in Process |-> [phase |-> "none", pid |-> "none"]]
  /\ active = "none"
  /\ owner = [generation |-> "none", pid |-> "none", allocation |-> "none"]
  /\ service = [generation |-> "none", allocation |-> "none", up |-> FALSE, adopted |-> FALSE]
  /\ strays = {} /\ reservations = {}
  /\ plan = [allocation |-> "none", reserved |-> FALSE]
  /\ instance = "none"
  /\ instances = [g \in Process |-> NoInstance]
  /\ starts = [p \in Process |-> NoStart]
  /\ dead = {} /\ usurped = FALSE /\ evicted = {} /\ abandoned = {} /\ overlooked = {}
  /\ spent = [crashes |-> 0, faults |-> 0, overlaps |-> 0]

Alive(pid) == pid # "none" /\ pid \notin dead
At(p, place) == starts[p].at = place /\ p \notin dead
Goes(p, to) == starts' = [starts EXCEPT ![p].at = to]
Leaving == {"stopServices", "stopInstance", "disown", "stopped", "release"}
Starting(p) == p \notin dead /\ starts[p].at \notin {"idle", "running", "done"} \cup Leaving
Copy(p) == starts[p].copy
Trouble == spent.crashes + spent.faults + spent.overlaps < MaxTroubles

(* advanceStartupTransaction and settleStartupTransaction write the process's own copy. *)
Writes(p, j, to) ==
  /\ journal' = j
  /\ starts' = [starts EXCEPT ![p].at = to, ![p].copy = j]

Noted(j, done, add) == [j EXCEPT !.done = @ \cup done, !.pending = @ \cup add]

HasGeneration(p) ==
  /\ p \notin dead /\ starts[p].generation # "none"
  /\ starts[p].at \notin {"undo", "undone", "undoLoop", "undoneLoop", "release", "done"}

registries == <<generations, active, owner, service, strays>>
endpoints == <<reservations, plan>>
records == <<instance, instances>>
undoings == <<usurped, evicted, abandoned, overlooked>>
history == <<dead, undoings, spent>>

-----------------------------------------------------------------------------
(* inspectStartupRecovery *)

(* classifyRecord, for the record of a generation. *)
HasService(g) ==
  LET r == instances[g] IN
  r.running /\ IF owner.generation = "none" THEN Alive(r.pid)
               ELSE owner.generation = g /\ Alive(owner.pid)

InstanceExpected(j) ==
  "instance" \in j.done \cup j.pending \/ instance = j.generation \/ instances[j.generation] # NoInstance

InstancesAgree(j) == instance = j.generation /\ instances[j.generation] # NoInstance

FailedGeneration(j) ==
  j.status = "blocked" /\ active = "none" /\ generations[j.generation].phase = "failed"

Unauthoritative(j) ==
  LET g == j.generation IN
  \/ generations[g].phase = "none"
  \/ active # g /\ ~FailedGeneration(j)
  \/ IF owner.generation = "none"
     THEN ~FailedGeneration(j) /\ Alive(generations[g].pid)
     ELSE owner.generation # g \/ Alive(owner.pid)

Holders(a) == {r.pid : r \in {x \in reservations : x.allocation = a}}

CommittedClass(j) ==
  IF \/ generations[j.generation].phase # "running"
     \/ j.allocation # "none" /\ plan.allocation # j.allocation
     \/ InstanceExpected(j) /\ ~(InstancesAgree(j) /\ plan.allocation # "none")
  THEN "refused" ELSE "cleanup"

ServiceClass(j) ==
  IF service.generation = "none" THEN "rollback"
  ELSE IF service.generation # j.generation \/ service.allocation # j.allocation THEN "refused"
  ELSE IF service.up THEN "resume" ELSE "rollback"

UncommittedClass(j) ==
  LET allocated == j.allocation # "none" IN
  CASE allocated /\ plan.allocation # j.allocation -> "refused"
    [] allocated /\ plan.allocation = j.allocation
         /\ (~plan.reserved \/ Holders(j.allocation) = {}) -> "rollback"
    [] allocated /\ plan.allocation = j.allocation /\ plan.reserved
         /\ \E pid \in Holders(j.allocation) : Alive(pid) -> "refused"
    [] OTHER ->
         IF InstanceExpected(j) /\ ~(InstancesAgree(j) /\ ~HasService(j.generation) /\ allocated)
         THEN "refused"
         ELSE IF j.started /\ ServiceClass(j) # "resume" THEN ServiceClass(j)
         ELSE IF j.status = "blocked" \/ generations[j.generation].phase = "stopping"
         THEN "rollback" ELSE "resume"

Class(j) ==
  IF j.status \notin {"active", "blocked"} THEN "begin"
  ELSE IF \E g \in Process \ {j.generation} : HasService(g) THEN "refused"
  ELSE IF generations[j.generation].phase = "none" /\ "generation" \notin j.done THEN "rollback"
  ELSE IF Unauthoritative(j) THEN "refused"
  ELSE IF j.committed THEN CommittedClass(j)
  ELSE UncommittedClass(j)

(* A crash came between a service's row and the state that a runtime which adopts it reads back. *)
Unstored(g) == \E q \in dead : starts[q].at = "store" /\ starts[q].generation = g

(* rehydrateLifecycleState: the live owner of the row is adopted, with the generation stored. *)
Adopted(g) ==
  IF ~service.up THEN "none"
  ELSE IF service.generation = g /\ ~Unstored(g) THEN "own" ELSE "other"

(* The service of a generation, which a start of that generation launched. *)
Served(g) == service.up /\ ~service.adopted /\ service.generation = g

Bereft(j) == j.allocation # "none" /\ ~(plan.reserved /\ Holders(j.allocation) # {})

(* Only services that the inspection came to and found owned are adopted. *)
Evident(j) == j.started /\ service.generation = j.generation /\ ~Bereft(j)

(* What agrees is rolled back all the same where a file's record asks for it, or where one of
   the two starts was asked for a baseline. *)
Inspect(p) ==
  /\ At(p, "idle") \/ At(p, "again")
  /\ IF \E q \in Process \ {p} : Starting(q)
     THEN Trouble /\ spent' = [spent EXCEPT !.overlaps = @ + 1] ELSE UNCHANGED spent
  /\ \E to \in {Class(journal)} \cup (IF Class(journal) = "resume" THEN {"rollback"} ELSE {}) :
       starts' = [starts EXCEPT ![p].at = IF to = "refused" THEN "done" ELSE to,
                                ![p].copy = journal,
                                ![p].adopts = @ \/ "adoption" \in journal.done,
                                ![p].runs = IF /\ @ = "none" /\ to \in {"rollback", "resume"}
                                               /\ Evident(journal)
                                               /\ to = "resume" => "adoption" \notin journal.done
                                            THEN Adopted(journal.generation) ELSE @]
  /\ evicted' = IF Interrupted /\ Served(journal.generation) /\ Bereft(journal)
                THEN evicted \cup {journal.generation} ELSE evicted
  /\ UNCHANGED <<journal, registries, endpoints, records, dead, usurped, abandoned, overlooked>>

-----------------------------------------------------------------------------
(* What an interrupted start left behind *)

Activated(p) == [Copy(p) EXCEPT !.status = "active"]

Rollback(p) ==
  /\ At(p, "rollback")
  /\ journal' = Activated(p)
  /\ starts' = [starts EXCEPT ![p].at = "undo", ![p].copy = Activated(p), ![p].recovering = TRUE,
                              ![p].todo = Copy(p).pending]
  /\ UNCHANGED <<registries, endpoints, records, history>>

Cleanup(p) ==
  /\ At(p, "cleanup")
  /\ Writes(p, Activated(p), "cleaning")
  /\ UNCHANGED <<registries, endpoints, records, history>>

(* completeCommittedStartupMaterializationCleanup; the start then begins anew, and takes over
   the service the committed generation left running. *)
Cleaned(p) ==
  /\ At(p, "cleaning")
  /\ LET j == [Copy(p) EXCEPT !.status = "committed", !.pending = {}] IN
       /\ journal' = j
       /\ starts' = [starts EXCEPT ![p].at = "again", ![p].copy = j,
                       ![p].adopts = @ \/ (j.started /\ service.up /\ service.generation = j.generation),
                       ![p].runs = IF j.started /\ service.up THEN "other" ELSE @]
  /\ UNCHANGED <<registries, endpoints, records, history>>

Resume(p) ==
  /\ At(p, "resume")
  /\ Writes(p, Activated(p), "prepare")
  /\ UNCHANGED <<registries, endpoints, records, history>>

Prepare(p) ==
  /\ At(p, "prepare")
  /\ Writes(p, Noted(Copy(p), {}, {"generation"}), "recover")
  /\ UNCHANGED <<registries, endpoints, records, history>>

Taken(p, g, to) ==
  /\ generations' = [h \in Process |->
       IF h = g THEN [phase |-> "starting", pid |-> p]
       ELSE IF generations[h].phase \in {"starting", "running", "stopping"} /\ starts[p].at = "generate"
       THEN [generations[h] EXCEPT !.phase = "superseded"] ELSE generations[h]]
  /\ active' = g
  /\ starts' = [starts EXCEPT ![p].at = to, ![p].generation = g]

Fails(p) ==
  starts' = [starts EXCEPT ![p].at = "undo", ![p].todo = {}]

(* recoverRuntimeGeneration *)
Recover(p) ==
  /\ At(p, "recover")
  /\ LET g == Copy(p).generation IN
     IF /\ active = g
        /\ ~Alive(generations[g].pid)
        /\ owner.pid # "none" => owner.generation = g /\ ~Alive(owner.pid)
     THEN Taken(p, g, "noteGeneration")
     ELSE Fails(p) /\ UNCHANGED <<generations, active>>
  /\ UNCHANGED <<journal, owner, service, strays, endpoints, records, history>>

-----------------------------------------------------------------------------
(* The start itself *)

(* beginStartupTransaction *)
Begin(p) ==
  /\ At(p, "begin")
  /\ IF Interrupted
     THEN Goes(p, "done") /\ UNCHANGED journal
     ELSE Writes(p, [NoJournal EXCEPT !.generation = p, !.status = "active"],
                 IF starts[p].adopts THEN "noteAdoption" ELSE "generate")
  /\ UNCHANGED <<registries, endpoints, records, history>>

NoteAdoption(p) ==
  /\ At(p, "noteAdoption")
  /\ Writes(p, Noted(Copy(p), {"adoption"}, {}), "generate")
  /\ UNCHANGED <<registries, endpoints, records, history>>

(* mutant: only the runtime's row is looked at, which a starting runtime has not written yet. *)
WorkspaceFreeByRow == ~Alive(owner.pid)

WorkspaceFree ==
  /\ ~Alive(owner.pid)
  /\ active # "none" /\ generations[active].phase \in {"starting", "running", "stopping"}
       => ~Alive(generations[active].pid)

(* beginRuntimeGeneration *)
Generate(p) ==
  /\ At(p, "generate")
  /\ IF WorkspaceFree
     THEN Taken(p, p, "noteGeneration")
     ELSE Fails(p) /\ UNCHANGED <<generations, active>>
  /\ UNCHANGED <<journal, owner, service, strays, endpoints, records, history>>

(* A start of one's own adopts the service that it finds, unless it is to be taken over: what follows
   the note is rehydrateDiscoveredServices in startApiServerGeneration. *)
NoteGeneration(p) ==
  /\ At(p, "noteGeneration")
  /\ LET j == Noted(Copy(p), {"generation"}, {"generation"}) IN
       /\ journal' = j
       /\ starts' = [starts EXCEPT ![p].copy = j,
                       ![p].at = IF j.allocation # "none" THEN "claim" ELSE "reserve",
                       ![p].runs = IF @ # "none" \/ starts[p].adopts \/ j.generation # p THEN @
                                   ELSE Adopted(p)]
  /\ UNCHANGED <<registries, endpoints, records, history>>

(* activeHostAllocations: what a process that is gone had reserved is dropped. *)
Retained == {r \in reservations : Alive(r.pid)}

(* planAndReserveRuntimeEndpoints writes the host's registry, then the workspace's plan. *)
Reserve(p) ==
  /\ At(p, "reserve")
  /\ reservations' = Retained \cup {[allocation |-> p, pid |-> p]}
  /\ Goes(p, "reservePlan")
  /\ UNCHANGED <<journal, registries, plan, records, history>>

ReservePlan(p) ==
  /\ At(p, "reservePlan")
  /\ plan' = [allocation |-> p, reserved |-> TRUE]
  /\ starts' = [starts EXCEPT ![p].at = "noteAllocation", ![p].allocation = p,
                              ![p].held = {"allocation"}]
  /\ UNCHANGED <<journal, registries, reservations, records, history>>

(* claimRuntimeEndpointAllocation *)
Claim(p) ==
  /\ At(p, "claim")
  /\ LET a == Copy(p).allocation IN
     IF Holders(a) # {} /\ \A pid \in Holders(a) : ~Alive(pid)
     THEN /\ reservations' = {r \in reservations : r.allocation # a} \cup {[allocation |-> a, pid |-> p]}
          /\ starts' = [starts EXCEPT ![p].at = "noteAllocation", ![p].allocation = a,
                                      ![p].held = {"allocation"}]
     ELSE /\ UNCHANGED reservations
          /\ starts' = [starts EXCEPT ![p].at = "undo", ![p].todo = {"generation"}]
  /\ UNCHANGED <<journal, registries, plan, records, history>>

NoteAllocation(p) ==
  /\ At(p, "noteAllocation")
  /\ Writes(p, [Noted(Copy(p), {}, {"allocation"}) EXCEPT !.allocation = starts[p].allocation], "own")
  /\ UNCHANGED <<registries, endpoints, records, history>>

RowOf(p) == [generation |-> starts[p].generation, pid |-> p, allocation |-> starts[p].allocation]

Own(p) ==
  /\ At(p, "own")
  /\ owner' = RowOf(p)
  /\ starts' = [starts EXCEPT ![p].at = "noteOwnership", ![p].held = @ \cup {"ownership"}]
  /\ UNCHANGED <<journal, generations, active, service, strays, endpoints, records, history>>

NoteOwnership(p) ==
  /\ At(p, "noteOwnership")
  /\ Writes(p, Noted(Copy(p), {}, {"ownership"}), IF starts[p].adopts THEN "rebind" ELSE "services")
  /\ UNCHANGED <<registries, endpoints, records, history>>

Unready(p) == starts' = [starts EXCEPT ![p].at = "undo", ![p].todo = Copy(p).pending]

(* rebindCommittedServiceAdoption *)
Rebind(p) ==
  /\ At(p, "rebind")
  /\ IF service.up /\ starts[p].runs # "none"
     THEN /\ service' = [generation |-> starts[p].generation, allocation |-> starts[p].allocation,
                        up |-> TRUE, adopted |-> TRUE]
          /\ starts' = [starts EXCEPT ![p].at = "services", ![p].runs = "own"]
     ELSE /\ UNCHANGED service
          /\ Unready(p)
  /\ UNCHANGED <<journal, generations, active, owner, strays, endpoints, records, history>>

(* mutant: a service is launched before the journal says it must be stopped. *)
IntendedLate(p) == Goes(p, "launch") /\ UNCHANGED journal

Intended(p) == Writes(p, [Noted(Copy(p), {}, {"service"}) EXCEPT !.started = TRUE], "launch")

(* A service known to run is left alone, and so is one that is not to be started. *)
Intend(p) ==
  /\ At(p, "services")
  /\ starts[p].runs = "none" /\ Intended(p)
  /\ UNCHANGED <<registries, endpoints, records, history>>

NothingToLaunch(p) ==
  /\ At(p, "services")
  /\ Goes(p, "register")
  /\ UNCHANGED <<journal, registries, endpoints, records, history>>

(* startService finds a live owner of the service's row, which stays as it is. *)
Rediscover(p) ==
  /\ At(p, "launch") /\ service.up
  /\ service' = [service EXCEPT !.adopted = TRUE]
  /\ starts' = [starts EXCEPT ![p].at = "register", ![p].runs = "own"]
  /\ UNCHANGED <<journal, generations, active, owner, strays, endpoints, records, history>>

(* The process is detached: it outlives the runtime. *)
Spawn(p) ==
  /\ At(p, "launch") /\ ~service.up
  /\ strays' = strays \cup {p}
  /\ Goes(p, "enrol")
  /\ UNCHANGED <<journal, generations, active, owner, service, endpoints, records, history>>

Enrol(p) ==
  /\ At(p, "enrol")
  /\ strays' = strays \ {p}
  /\ service' = [generation |-> starts[p].generation, allocation |-> starts[p].allocation,
                up |-> TRUE, adopted |-> FALSE]
  /\ starts' = [starts EXCEPT ![p].at = "store", ![p].runs = "own"]
  /\ UNCHANGED <<journal, generations, active, owner, endpoints, records, history>>

(* writeServiceState, once the service is ready. *)
Store(p) ==
  /\ At(p, "store")
  /\ Goes(p, "register")
  /\ UNCHANGED <<journal, registries, endpoints, records, history>>

(* registerRuntimeInstance writes the workspace's record, then the host's. *)
Register(p) ==
  /\ At(p, "register")
  /\ instance' = starts[p].generation
  /\ Goes(p, "registerHost")
  /\ UNCHANGED <<journal, registries, endpoints, instances, history>>

RegisterHost(p) ==
  /\ At(p, "registerHost")
  /\ instances' = [instances EXCEPT ![starts[p].generation] = [pid |-> p, running |-> TRUE]]
  /\ Goes(p, "noteInstance")
  /\ UNCHANGED <<journal, registries, endpoints, instance, history>>

NoteInstance(p) ==
  /\ At(p, "noteInstance")
  /\ Writes(p, Noted(Copy(p), {"instance"}, {"instance"}), "publish")
  /\ UNCHANGED <<registries, endpoints, records, history>>

(* The runtime's row is recorded again and its ownership proven, and that of the services it started;
   then the generation runs. *)
Publish(p) ==
  /\ At(p, "publish")
  /\ owner' = RowOf(p)
  /\ IF Copy(p).started /\ starts[p].runs # "own"
     THEN Unready(p) /\ UNCHANGED <<generations, active>>
     ELSE /\ generations' = [generations EXCEPT ![starts[p].generation].phase = "running"]
          /\ active' = IF active = "none" THEN starts[p].generation ELSE active
          /\ Goes(p, "noteCommitted")
  /\ UNCHANGED <<journal, service, strays, endpoints, records, history>>

NoteCommitted(p) ==
  /\ At(p, "noteCommitted")
  /\ Writes(p, [Copy(p) EXCEPT !.committed = TRUE], "seal")
  /\ UNCHANGED <<registries, endpoints, records, history>>

Seal(p) ==
  /\ At(p, "seal")
  /\ Writes(p, [Copy(p) EXCEPT !.status = "committed", !.pending = {}], "running")
  /\ UNCHANGED <<registries, endpoints, records, history>>

-----------------------------------------------------------------------------
(* Steps that fail *)

Faults == Trouble /\ spent' = [spent EXCEPT !.faults = @ + 1]

InLoop == {"reserve", "reservePlan", "claim", "noteAllocation", "own", "noteOwnership"}
Later == {"rebind", "services", "launch", "enrol", "store", "register", "registerHost",
          "noteInstance", "publish", "noteCommitted"}

(* While the API is being bound the step itself undoes what it had done; later everything the
   journal names is undone; the generation at last. *)
ToUndo(p) ==
  CASE starts[p].at \in InLoop -> starts[p].held \cup {"generation"}
    [] starts[p].at \in Later -> Copy(p).pending
    [] OTHER -> {s \in Copy(p).pending : s = "generation" /\ starts[p].generation # "none"}

(* A spawned process whose enrolment fails is killed. *)
Fail(p) ==
  /\ p \notin dead
  /\ starts[p].at \in InLoop \cup Later
       \cup {"noteAdoption", "generate", "noteGeneration", "prepare", "recover"}
  /\ Faults
  /\ starts' = [starts EXCEPT ![p].todo = ToUndo(p),
                              ![p].at = IF @ \in InLoop THEN "undoLoop" ELSE "undo"]
  /\ strays' = strays \ {p}
  /\ UNCHANGED <<journal, generations, active, owner, service, endpoints, records, dead, undoings>>

(* The cleanup after the commit fails: the journal is blocked, and the runtime runs. *)
SealFails(p) ==
  /\ At(p, "seal") \/ At(p, "cleaning")
  /\ Faults
  /\ Writes(p, [Copy(p) EXCEPT !.status = "blocked"], IF At(p, "seal") THEN "running" ELSE "done")
  /\ UNCHANGED <<registries, endpoints, records, dead, undoings>>

-----------------------------------------------------------------------------
(* compensateRuntimeStartupResources, for a start of one's own or for an interrupted one *)

Order == <<"service", "instance", "ownership", "allocation", "generation">>
Undoing(p) == p \notin dead /\ starts[p].at \in {"undo", "undoLoop"}
IsNext(p, s) ==
  \E i \in 1..5 : Order[i] = s /\ s \in starts[p].todo /\ \A k \in 1..i-1 : Order[k] \notin starts[p].todo

(* The generation that is undone, and the places to go on from. *)
Undone(p) == Copy(p).generation
NotesUndoing(p) == Goes(p, IF starts[p].at = "undoLoop" THEN "undoneLoop" ELSE "undone")

StraysOf(g) == {q \in strays : starts[q].generation = g}

(* compensateTransactionStartedServices stops a service that is known to run; where none is, there is
   nothing to do. *)
UndoService(p) ==
  /\ Undoing(p) /\ IsNext(p, "service")
  /\ LET g == Undone(p)
         to == IF starts[p].at = "undoLoop" THEN "undoneLoop" ELSE "undone"
     IN /\ overlooked' = overlooked \cup StraysOf(g)
        /\ \/ /\ starts[p].runs = "none"
              /\ NotesUndoing(p)
              /\ abandoned' = IF Served(g) THEN abandoned \cup {g} ELSE abandoned
              /\ UNCHANGED service
           \/ /\ starts[p].runs = "own" /\ service.generation = g
              /\ service' = [service EXCEPT !.up = FALSE]
              /\ starts' = [starts EXCEPT ![p].at = to, ![p].runs = "none"]
              /\ UNCHANGED abandoned
  /\ UNCHANGED <<journal, generations, active, owner, strays, endpoints, records, dead, usurped,
                 evicted, spent>>

(* markRuntimeInstanceStopped *)
UndoInstance(p) ==
  /\ Undoing(p) /\ IsNext(p, "instance")
  /\ instances' = IF instance = Undone(p) THEN [instances EXCEPT ![instance].running = FALSE] ELSE instances
  /\ NotesUndoing(p)
  /\ UNCHANGED <<journal, registries, endpoints, instance, history>>

UndoOwnership(p) ==
  /\ Undoing(p) /\ IsNext(p, "ownership")
  /\ owner.generation \in {"none", Undone(p)}
  /\ owner' = [owner EXCEPT !.pid = "none"]
  /\ NotesUndoing(p)
  /\ UNCHANGED <<journal, generations, active, service, strays, endpoints, records, history>>

Allocated(p) == IF starts[p].allocation = "none" THEN Copy(p).allocation ELSE starts[p].allocation

(* releaseRuntimeEndpointAllocation *)
Releases(a) ==
  /\ reservations' = {r \in reservations : r.allocation # a}
  /\ plan' = [allocation |-> a, reserved |-> FALSE]

UndoAllocation(p) ==
  /\ Undoing(p) /\ IsNext(p, "allocation")
  /\ Releases(Allocated(p))
  /\ NotesUndoing(p)
  /\ UNCHANGED <<journal, registries, records, history>>

(* publishRuntimeGeneration with a phase that ends the generation. *)
Ended(g, phase) ==
  /\ generations' = [generations EXCEPT ![g].phase = phase]
  /\ active' = IF active = g THEN "none" ELSE active

UndoGeneration(p) ==
  /\ Undoing(p) /\ IsNext(p, "generation")
  /\ "generation" \in Copy(p).pending
  /\ Ended(Undone(p), "failed")
  /\ usurped' = (usurped \/ \E q \in Process \ {p} : HasGeneration(q) /\ starts[q].generation = Undone(p))
  /\ NotesUndoing(p)
  /\ UNCHANGED <<journal, owner, service, strays, endpoints, records, dead, evicted, abandoned,
                 overlooked, spent>>

NoteUndone(p) ==
  /\ At(p, "undone") \/ At(p, "undoneLoop")
  /\ \E s \in starts[p].todo :
       /\ IsNext(p, s)
       /\ journal' = [Copy(p) EXCEPT !.pending = @ \ {s}]
       /\ starts' = [starts EXCEPT ![p].copy = journal', ![p].todo = @ \ {s},
                       ![p].at = IF @ = "undoneLoop" THEN "undoLoop" ELSE "undo"]
  /\ UNCHANGED <<registries, endpoints, records, history>>

(* One that fails stays in the journal; while the API is being bound the others are given up. *)
Impossible(p, s) ==
  \/ s = "service" /\ starts[p].runs # "none"
       /\ (starts[p].runs = "other" \/ service.generation # Undone(p))
  \/ s = "ownership" /\ owner.generation \notin {"none", Undone(p)}
  \/ s = "generation" /\ "generation" \notin Copy(p).pending

UndoFails(p) ==
  /\ Undoing(p)
  /\ \E s \in starts[p].todo :
       /\ IsNext(p, s)
       /\ IF Impossible(p, s) THEN UNCHANGED spent ELSE Faults
       /\ starts' = [starts EXCEPT ![p].todo =
                       IF starts[p].at = "undoLoop" THEN (@ \cap {"generation"}) \ {s} ELSE @ \ {s}]
  /\ UNCHANGED <<journal, registries, endpoints, records, dead, undoings>>

(* mutant: what could not be undone does not keep the journal open. *)
OutcomeUnread(p) == "rolled_back"

Outcome(p) ==
  IF Copy(p).pending # {} \/ (starts[p].adopts /\ ~starts[p].recovering) THEN "blocked" ELSE "rolled_back"

Settle(p) ==
  /\ Undoing(p) /\ starts[p].todo = {}
  /\ \/ LET j == [Copy(p) EXCEPT !.status = Outcome(p)] IN
        /\ journal' = j
        /\ starts' = [starts EXCEPT ![p].copy = j, ![p].recovering = FALSE,
                        ![p].at = IF starts[p].recovering /\ j.status = "rolled_back" THEN "begin" ELSE "done"]
        /\ UNCHANGED spent
     \/ Faults /\ Goes(p, "done") /\ UNCHANGED journal
  /\ UNCHANGED <<registries, endpoints, records, dead, undoings>>

-----------------------------------------------------------------------------
(* The stop of a running runtime, and its end *)

Stopping(p, from, to) == At(p, from) /\ Goes(p, to)

StopBegins(p) ==
  /\ Stopping(p, "running", "stopServices")
  /\ generations' = [generations EXCEPT ![starts[p].generation].phase = "stopping"]
  /\ UNCHANGED <<journal, active, owner, service, strays, endpoints, records, history>>

StopServices(p) ==
  /\ At(p, "stopServices")
  /\ service' = IF starts[p].runs = "none" THEN service ELSE [service EXCEPT !.up = FALSE]
  /\ starts' = [starts EXCEPT ![p].at = "stopInstance", ![p].runs = "none"]
  /\ UNCHANGED <<journal, generations, active, owner, strays, endpoints, records, history>>

StopInstance(p) ==
  /\ Stopping(p, "stopInstance", "disown")
  /\ instances' = IF instance = starts[p].generation
                  THEN [instances EXCEPT ![instance].running = FALSE] ELSE instances
  /\ UNCHANGED <<journal, registries, endpoints, instance, history>>

Disown(p) ==
  /\ Stopping(p, "disown", "stopped")
  /\ owner' = IF owner.pid = p THEN [owner EXCEPT !.pid = "none"] ELSE owner
  /\ UNCHANGED <<journal, generations, active, service, strays, endpoints, records, history>>

Stopped(p) ==
  /\ Stopping(p, "stopped", "release")
  /\ Ended(starts[p].generation, "stopped")
  /\ UNCHANGED <<journal, owner, service, strays, endpoints, records, history>>

Release(p) ==
  /\ Stopping(p, "release", "done")
  /\ Releases(starts[p].allocation)
  /\ UNCHANGED <<journal, registries, records, history>>

(* A service may go with the runtime that started it. *)
Crash(p) ==
  /\ p \notin dead /\ starts[p].at \notin {"idle", "done"}
  /\ Trouble
  /\ spent' = [spent EXCEPT !.crashes = @ + 1]
  /\ dead' = dead \cup {p}
  /\ \E up \in {FALSE, service.up} : service' = [service EXCEPT !.up = up]
  /\ strays' \in {strays, strays \ {p}}
  /\ UNCHANGED <<journal, generations, active, owner, endpoints, records, starts, undoings>>

StartupNext ==
  \E p \in Process :
    \/ Inspect(p) \/ Rollback(p) \/ Cleanup(p) \/ Cleaned(p) \/ Resume(p) \/ Prepare(p) \/ Recover(p)
    \/ Begin(p) \/ NoteAdoption(p) \/ Generate(p) \/ NoteGeneration(p) \/ Reserve(p) \/ ReservePlan(p)
    \/ Claim(p) \/ NoteAllocation(p) \/ Own(p) \/ NoteOwnership(p) \/ Rebind(p) \/ Intend(p)
    \/ NothingToLaunch(p) \/ Rediscover(p) \/ Spawn(p) \/ Enrol(p) \/ Store(p) \/ Register(p)
    \/ RegisterHost(p) \/ NoteInstance(p) \/ Publish(p) \/ NoteCommitted(p) \/ Seal(p) \/ Fail(p) \/ SealFails(p)
    \/ UndoService(p) \/ UndoInstance(p) \/ UndoOwnership(p) \/ UndoAllocation(p) \/ UndoGeneration(p)
    \/ NoteUndone(p) \/ UndoFails(p) \/ Settle(p)
    \/ StopBegins(p) \/ StopServices(p) \/ StopInstance(p) \/ Disown(p) \/ Stopped(p) \/ Release(p)
    \/ Crash(p)

StartupSpec == StartupInit /\ [][StartupNext]_startupVars

-----------------------------------------------------------------------------

(* docs/reference/lifecycle-fault-injection-matrix.md INV-3: "one workspace has at most one
   authoritative active generation".  Two processes never both hold the workspace, however they
   overlap.  (beginRuntimeGeneration, recoverRuntimeGeneration) *)
OneActiveRuntime ==
  ~usurped => \A p, q \in Process : HasGeneration(p) /\ HasGeneration(q) => p = q

(* INV-4 for a journal that says the start was rolled back: nothing of that generation is left but
   what the rollback could not know.  That is a process whose runtime died before it wrote its row,
   and a service whose generation had lost its allocation while it ran: the inspection then does
   not come to the services.
   (inspectStartupRecovery, compensateRuntimeStartupResources, settleStartupTransaction) *)
RolledBackLeavesNothing ==
  spent.overlaps = 0 =>
    /\ abandoned \subseteq evicted /\ overlooked \subseteq dead
    /\ journal.status = "rolled_back" =>
         LET g == journal.generation IN
         /\ Served(g) => g \in abandoned
         /\ StraysOf(g) \subseteq overlooked
         /\ owner.generation = g => ~Alive(owner.pid)
         /\ generations[g].phase \notin {"running", "stopping"}
         /\ ~HasService(g)
         /\ plan.allocation = journal.allocation => ~plan.reserved

Unstopped(g) == (Served(g) /\ g \notin abandoned) \/ StraysOf(g) \ overlooked # {}

(* The process of a service is live before its row is written.  From its spawn on, that of a
   generation which never ran is live only while the journal says that it must be stopped, however
   its start was cut off, until a rollback that does not know of it gives it up.
   (startApiServerGeneration, rollbackInterruptedStartup) *)
LaunchedIsRecorded ==
  spent.overlaps = 0 =>
    \A g \in Process :
      Unstopped(g) /\ generations[g].phase \in {"starting", "failed"}
        => "service" \in journal.pending /\ journal.generation = g /\ Interrupted

(* docs/reference/lifecycle-fault-injection-matrix.md INV-4: "durable state either describes
   reality or reports an explicit blocked/recovery state".  It does not hold, and no run lists it:
   a runtime that dies between a spawn and its row leaves a process that the next start rolls the
   journal back over.  (compensateTransactionStartedServices) *)
RolledBackIsReal ==
  spent.overlaps = 0 /\ journal.status = "rolled_back" =>
    ~Served(journal.generation) /\ StraysOf(journal.generation) = {}

(* docs/reference/startup-hard-crash-matrix.md:35, the row of a hard exit after the allocation
   is claimed and journaled: "resume the same transaction, generation, and allocation".  It does
   not hold, and no run lists it.  (inspectStartupRecovery) *)
ReservedIsResumed ==
  \A p \in dead :
    (/\ starts[p].at = "own" /\ journal = Copy(p)
     /\ spent = [crashes |-> 1, faults |-> 0, overlaps |-> 0]
     /\ \A q \in Process \ {p} : starts[q].at \in {"idle", "done"})
      => Class(journal) = "resume"
===============================================================================
