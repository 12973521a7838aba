-------------------------- MODULE ServiceLifecycle --------------------------
(***************************************************************************)
(* One service of a running runtime: the operator's commands, the recovery *)
(* monitor, the supervision of unexpected exits and the shutdown of the    *)
(* runtime, all of which launch and stop its process.  From                *)
(* src/src/runtime/lifecycle/actions.ts, execution/supervisor.ts,          *)
(* recovery/monitor.ts and lifecycle/start-serialization.ts.               *)
(*                                                                         *)
(* JavaScript runs one callback at a time: an action is what happens       *)
(* between two awaits.  A thread is a chain of callbacks: the operator     *)
(* (mutating requests are coordinated, so it has one command at a time),   *)
(* the monitor, the shutdown, and one thread per supervised restart.  The  *)
(* finalizer of a process is a chain of its own, kept in proc.             *)
(*                                                                         *)
(* The last five variables are history: no guard reads them.               *)
(*                                                                         *)
(* A definition marked "mutant" is a deliberately wrong variant of the one *)
(* that follows; no action uses it.                                        *)
(***************************************************************************)
EXTENDS Integers, Sequences, FiniteSets

CONSTANTS
  Restarter,      \* threads for supervised restarts
  Commands,       \* what the operator may ask for
  Monitored,      \* monitoring.enabled, with onCrash and onUnhealthy
  MayShutDown,    \* the runtime may be shut down
  MaxAttempts,    \* restartPolicy.maxAttempts
  MaxSpawns,      \* bound: processes spawned
  MaxExits,       \* bound: processes that exit on their own
  MaxCommands,    \* bound: operator commands
  MaxRounds,      \* bound: rounds of the monitor that may end in a restart
  MaxFailures     \* bound: stops, doctors and enrolments that fail

ASSUME ConstantsAssumption ==
  /\ Restarter \cap {"operator", "monitor", "shutdown", "none"} = {}
  /\ Commands \subseteq {"install", "start", "stop", "restart"}
  /\ Monitored \in BOOLEAN /\ MayShutDown \in BOOLEAN
  /\ MaxAttempts \in Nat /\ MaxSpawns \in Nat /\ MaxExits \in Nat
  /\ MaxCommands \in Nat /\ MaxRounds \in Nat /\ MaxFailures \in Nat

Thread == {"operator", "monitor", "shutdown"} \cup Restarter

Pid    == 1 .. MaxSpawns
None   == 0                   \* no process
MayPid == Pid \cup {None}

VARIABLES
  record,             \* the lifecycle store: running, pid, lastTermination, restartAttempts
  live,               \* processes that run
  proc,               \* what the supervisor knows of each process
  managed,            \* managedProcesses
  adopted,            \* adoptedProcesses
  finalizer,          \* managedProcessFinalizers
  row,                \* the ownership registry: pid and lifecycleState
  thread,             \* where each thread is
  starting,           \* withServiceStartSerialization: the holder and who waits
  timer,              \* scheduledSupervisionRestarts: the attempt, 0 when none
  active,             \* activeSupervisionRestarts: the latest thread
  shutdownRequested,  \* shutdownRequestedServiceIds
  budget,             \* what is left of each bound
  overlapped,         \* history: a restart and another launch or stop were under way together
  degraded,           \* history: what failed: a stop or a containment that failed or missed an exit
                      \* under way, or a finalizer that was given up
  intent,             \* history: what the operator last asked for, and whether it was defied
  contested,          \* history: an operator's command and the shutdown were under way together
  overtaken,          \* history: a timer fired while a supervised restart was under way
  relaunches          \* history: supervised spawns since a launch that succeeded

tables  == <<managed, adopted, finalizer>>
plans   == <<timer, active, shutdownRequested>>
history == <<overlapped, degraded, intent, contested, overtaken, relaunches>>
vars    == <<record, live, proc, tables, row, thread, starting, plans, budget, history>>

Idle == [op |-> "none", at |-> "idle", pid |-> None, wait |-> None,
         attempt |-> 0, ok |-> FALSE, was |-> FALSE, drain |-> "none"]

Unborn == [stage |-> "unborn", exit |-> "none", stopping |-> FALSE, attempt |-> 0]

NotAdopted == [pid |-> None, stopping |-> FALSE]

HasManagedProcess == managed # None \/ adopted.pid # None

(* hasPendingSupervisionRestart *)
Pending ==
  \/ \E p \in Pid : proc[p].stage = "scheduling"
  \/ timer # 0
  \/ active # "none"

(* The finalizer of p has run to its end: what awaits it goes on. *)
Finished(p) ==
  p # None => proc[p].stage \in {"unborn", "launched", "done"} /\ adopted.pid # p

At(a, place) == thread[a].at = place
Go(a, place) == thread' = [thread EXCEPT ![a].at = place]

Spend(what) == /\ budget[what] > 0
               /\ budget' = [budget EXCEPT ![what] = @ - 1]

(* a is between the first and the last step of a launch or a stop. *)
Working(a) ==
  \/ thread[a].op \in {"restart", "stop"}
  \/ /\ thread[a].op \in {"start", "supervise"}
     /\ thread[a].at \notin {"doctor", "queued", "blocked", "decide"}

Overlap(a, op) ==
  overlapped' = (overlapped \/ \E b \in Thread \ {a} :
                                 Working(b) /\ "restart" \in {op, thread[b].op})

(* The turn passes on when its holder leaves. *)
PassedOn(a) == IF starting # << >> /\ Head(starting) = a THEN Tail(starting) ELSE starting

(* The thread's work ends, well or with an error.  A supervised restart    *)
(* still records its result; the shutdown goes on with its next pass.      *)
LeaveHolding(a, ok) ==                                            \* mutant
  /\ thread' = [thread EXCEPT ![a] =
       CASE @.op = "supervise" -> [@ EXCEPT !.at = "decide", !.ok = ok]
         [] @.op = "shutdown"  -> [@ EXCEPT !.at = "pass", !.ok = ok]
         [] OTHER              -> Idle]
  /\ starting' = IF ok THEN PassedOn(a) ELSE starting
Leave(a, ok) ==
  /\ thread' = [thread EXCEPT ![a] =
       CASE @.op = "supervise" -> [@ EXCEPT !.at = "decide", !.ok = ok]
         [] @.op = "shutdown"  -> [@ EXCEPT !.at = "pass", !.ok = ok]
         [] OTHER              -> Idle]
  /\ starting' = PassedOn(a)

Unowned == [pid |-> None, state |-> "stopped"]

(* transitionProcessOwnership with expectedPid *)
TransitionForgets(p, state) ==                                    \* mutant
  IF row.pid # p THEN row
  ELSE IF state # "running" THEN [pid |-> None, state |-> state]
  ELSE [row EXCEPT !.state = state]
Transition(p, state) ==
  IF row.pid # p THEN row
  ELSE IF state = "stopped" THEN [pid |-> None, state |-> state]
  ELSE [row EXCEPT !.state = state]

RunningAs(p) == [record EXCEPT !.running = TRUE, !.pid = p, !.termination = "none"]
EndedAs(how) == [record EXCEPT !.running = FALSE, !.pid = None, !.termination = how]
-----------------------------------------------------------------------------
Init ==
  /\ record = [running |-> FALSE, pid |-> None, termination |-> "none", attempts |-> 0]
  /\ live = {} /\ proc = [p \in Pid |-> Unborn]
  /\ managed = None /\ adopted = NotAdopted /\ finalizer = None
  /\ row = Unowned
  /\ thread = [a \in Thread |-> Idle]
  /\ starting = << >>
  /\ timer = 0 /\ active = "none" /\ shutdownRequested = FALSE
  /\ budget = [spawns |-> MaxSpawns, exits |-> MaxExits, commands |-> MaxCommands,
               rounds |-> MaxRounds, failures |-> MaxFailures]
  /\ overlapped = FALSE /\ degraded = {} /\ intent = "none"
  /\ contested = FALSE /\ overtaken = FALSE /\ relaunches = 0
-----------------------------------------------------------------------------
(***************************************************************************)
(* stopManagedProcess, for the stop command, a restart's old process, a    *)
(* process that did not become ready and the shutdown.  An actions.stop    *)
(* command runs between the first two steps and only delays the kill: a    *)
(* process that ends by itself meanwhile is an Exits step.                 *)
(***************************************************************************)

(* The synchronous part: the process is marked as being stopped.  With no  *)
(* process there is nothing to wait for; the shutdown waits all the same   *)
(* for the finalizer.                                                      *)
StopTarget(a) ==
  IF managed # None THEN managed
  ELSE IF adopted.pid = None /\ a = "shutdown" THEN finalizer
  ELSE adopted.pid

BeginQuietly(a, from) ==                                          \* mutant
  /\ thread' = [thread EXCEPT ![a] = [from EXCEPT
       !.at = IF HasManagedProcess THEN "mark" ELSE "await", !.wait = StopTarget(a)]]
  /\ UNCHANGED <<proc, adopted>>
BeginStop(a, from) ==
  /\ thread' = [thread EXCEPT ![a] = [from EXCEPT
       !.at = IF HasManagedProcess THEN "mark" ELSE "await", !.wait = StopTarget(a)]]
  /\ proc' = [p \in Pid |-> [proc[p] EXCEPT !.stopping = @ \/ p = managed]]
  /\ adopted' = [adopted EXCEPT !.stopping = @ \/ (managed = None /\ adopted.pid # None)]

Mark(a) ==
  /\ At(a, "mark")
  /\ row' = Transition(thread[a].wait, "stopping")
  /\ Go(a, IF managed # thread[a].wait /\ adopted.pid = thread[a].wait THEN "expel" ELSE "kill")
  /\ UNCHANGED <<record, live, proc, tables, starting, plans, budget, history>>

Killed(p) == proc' = [proc EXCEPT ![p].exit = IF p \in live THEN "killed" ELSE @]

(* terminateManagedProcessTree; then whatever finalizer there is. *)
Kill(a) ==
  /\ At(a, "kill")
  /\ live' = live \ {thread[a].wait}
  /\ Killed(thread[a].wait)
  /\ thread' = [thread EXCEPT ![a].at = "await", ![a].wait = finalizer]
  /\ UNCHANGED <<record, tables, row, starting, plans, budget, history>>

(* The finalizer of an adopted process ends.  One that the thread which    *)
(* launched it has activated since has a finalizer of its own.             *)
AdoptedDone(p) ==
  finalizer' = IF finalizer = p /\ proc[p].stage = "launched" THEN None ELSE finalizer

(* stopAdoptedProcess *)
Expel(a) ==
  /\ At(a, "expel")
  /\ LET p == thread[a].wait IN
       /\ live' = live \ {p}
       /\ Killed(p)
       /\ row' = Transition(p, "stopped")
       /\ adopted' = NotAdopted
       /\ AdoptedDone(p)
  /\ thread' = [thread EXCEPT ![a].at = "await", ![a].wait = None]
  /\ UNCHANGED <<record, managed, starting, plans, budget, history>>

(* The tree cannot be terminated, or the deadline passes: what has been    *)
(* marked stopping stays so.  The shutdown forgets a failed stop once the  *)
(* process is gone.                                                        *)
StopFails(a) ==
  /\ thread[a].at \in {"mark", "kill", "expel"}
  /\ Spend("failures")
  /\ degraded' = degraded \cup {"stop"}
  /\ Leave(a, a = "shutdown")
  /\ UNCHANGED <<record, live, proc, tables, row, plans, overlapped, intent, contested, overtaken, relaunches>>

(* The deadline of what waits for a finalizer passes.  A process that is   *)
(* not the registry's any more takes its finalizer along, which goes on    *)
(* without being tracked.                                                  *)
GivesUp(a) ==
  /\ At(a, "await") /\ ~Finished(thread[a].wait)
  /\ IF thread[a].wait \in live THEN UNCHANGED budget ELSE Spend("failures")
  /\ row' = IF row.pid \in live \cup {None} THEN row ELSE Unowned
  /\ finalizer' = IF row.pid \in live \/ finalizer # thread[a].wait THEN finalizer ELSE None
  /\ degraded' = degraded \cup {"finalizer"}
  /\ Leave(a, FALSE)
  /\ UNCHANGED <<record, live, proc, managed, adopted, plans, overlapped, intent, contested, overtaken, relaunches>>

StoppedFor(a) == At(a, "await") /\ Finished(thread[a].wait)

(* stopService revokes grants and ingress before it writes the store. *)
StopEnds(a) ==
  /\ StoppedFor(a) /\ thread[a].op = "stop"
  /\ Go(a, "ending")
  /\ UNCHANGED <<record, live, proc, tables, row, starting, plans, budget, history>>

StopRecords(a) ==
  /\ At(a, "ending")
  /\ record' = EndedAs("stopped")
  /\ intent' = "stopped"
  /\ Leave(a, TRUE)
  /\ UNCHANGED <<live, proc, tables, row, plans, budget, overlapped, degraded, contested, overtaken, relaunches>>

(* restartService: the old process is gone. *)
OldStopped(a) ==
  /\ StoppedFor(a) /\ thread[a].op = "restart" /\ thread[a].pid = None
  /\ record' = EndedAs("stopped")
  /\ Go(a, "negotiate")
  /\ UNCHANGED <<live, proc, tables, row, starting, plans, budget, history>>

(* The process that did not become ready is gone. *)
NewStopped(a) ==
  /\ StoppedFor(a) /\ thread[a].pid # None
  /\ record' = EndedAs("stopped")
  /\ Leave(a, FALSE)
  /\ UNCHANGED <<live, proc, tables, row, plans, budget, history>>
-----------------------------------------------------------------------------
(***************************************************************************)
(* The commands and what calls them.                                       *)
(***************************************************************************)
Calls(op) ==
  /\ op \in Commands /\ At("operator", "idle") /\ ~At("shutdown", "done")
  /\ Spend("commands")
  /\ contested' = (contested \/ ~At("shutdown", "idle"))

(* startService: wait for the service's turn. *)
CallStart ==
  /\ Calls("start")
  /\ thread' = [thread EXCEPT !["operator"] = [Idle EXCEPT !.op = "start", !.at = "queued"]]
  /\ starting' = Append(starting, "operator")
  /\ intent' = "wanted"
  /\ UNCHANGED <<record, live, proc, tables, row, plans, overlapped, degraded, overtaken, relaunches>>

(* stopService up to its first await; a service that is not running is     *)
(* refused, its scheduled restart is cancelled all the same.               *)
CallStop ==
  /\ Calls("stop")
  /\ timer' = 0
  /\ IF record.running
     THEN BeginStop("operator", [Idle EXCEPT !.op = "stop"])
     ELSE UNCHANGED <<proc, adopted, thread>>
  /\ Overlap("operator", "stop")
  /\ degraded' = degraded \cup {x \in {"stop"} : record.running /\ ~HasManagedProcess}
  /\ UNCHANGED <<record, live, managed, finalizer, row, starting, active, shutdownRequested>>
  /\ UNCHANGED <<intent, overtaken, relaunches>>

(* restartService up to its first await. *)
RestartBegins(a) ==
  /\ shutdownRequested' = FALSE
  /\ timer' = 0
  /\ thread' = [thread EXCEPT ![a] =
       [Idle EXCEPT !.op = "restart", !.at = "doctor", !.was = record.running]]
  /\ Overlap(a, "restart")
  /\ UNCHANGED <<record, live, proc, tables, row, starting, active, degraded, overtaken, relaunches>>

CallRestart ==
  /\ Calls("restart")
  /\ RestartBegins("operator")
  /\ intent' = "wanted"

CallInstall ==
  /\ Calls("install")
  /\ thread' = [thread EXCEPT !["operator"] = [Idle EXCEPT !.op = "install", !.at = "install"]]
  /\ UNCHANGED <<record, live, proc, tables, row, starting, plans>>
  /\ UNCHANGED <<overlapped, degraded, intent, overtaken, relaunches>>

(* installService once the artifacts are in place. *)
Install ==
  /\ At("operator", "install")
  /\ IF record.running /\ HasManagedProcess
     THEN UNCHANGED record
     ELSE record' = [record EXCEPT !.running = FALSE, !.pid = None, !.termination = "none"]
  /\ Leave("operator", TRUE)
  /\ UNCHANGED <<live, proc, tables, row, plans, budget, history>>

(* inspectService: a running service is asked for its health, a crashed    *)
(* one that no supervision is about to restart goes to the permission gate.*)
MonitorLooks ==
  /\ Monitored /\ At("monitor", "idle") /\ At("shutdown", "idle")
  /\ record.running \/ (record.termination = "crashed" /\ ~Pending)
  /\ Spend("rounds")
  /\ thread' = [thread EXCEPT !["monitor"].at = "inspect"]
  /\ UNCHANGED <<record, live, proc, tables, row, starting, plans, history>>

(* restartMonitoredService: unhealthy, or crashed, and permitted. *)
MonitorRestarts ==
  /\ At("monitor", "inspect")
  /\ RestartBegins("monitor")
  /\ UNCHANGED <<budget, intent, contested>>

(* Healthy, deferred or denied. *)
MonitorPasses ==
  /\ At("monitor", "inspect")
  /\ Leave("monitor", FALSE)
  /\ UNCHANGED <<record, live, proc, tables, row, plans, budget, history>>

(* assertDoctorPreflightAllowsRestart *)
DoctorAllows(a) ==
  /\ At(a, "doctor")
  /\ IF thread[a].was THEN BeginStop(a, thread[a])
     ELSE /\ Go(a, IF thread[a].op = "restart" THEN "negotiate" ELSE "queued")
          /\ UNCHANGED <<proc, adopted>>
  /\ starting' = IF thread[a].op = "restart" THEN starting ELSE Append(starting, a)
  /\ UNCHANGED <<record, live, managed, finalizer, row, plans, budget, history>>

DoctorRefuses(a) ==
  /\ At(a, "doctor")
  /\ Spend("failures")
  /\ Leave(a, FALSE)
  /\ UNCHANGED <<record, live, proc, tables, row, plans, history>>
-----------------------------------------------------------------------------
(***************************************************************************)
(* A launch.                                                               *)
(***************************************************************************)
NoTurn(a) == At(a, "queued")                                      \* mutant
MyTurn(a) == At(a, "queued") /\ Head(starting) = a

(* startServiceSerialized: an operator's start takes back a requested      *)
(* shutdown and a scheduled restart, a supervised one does not.            *)
TakesBack(a) ==
  IF thread[a].op = "supervise" THEN UNCHANGED <<timer, shutdownRequested>>
  ELSE timer' = 0 /\ shutdownRequested' = FALSE

OwnedByOthers == ~record.running /\ ~HasManagedProcess /\ row.pid \in live

EnterStart(a) ==
  /\ MyTurn(a)
  /\ ~OwnedByOthers
  /\ TakesBack(a)
  /\ IF record.running THEN Leave(a, FALSE) ELSE Go(a, "negotiate") /\ UNCHANGED starting
  /\ row' = IF record.running \/ HasManagedProcess THEN row
            ELSE Transition(row.pid, "stopped")
  /\ Overlap(a, thread[a].op)
  /\ UNCHANGED <<record, live, proc, tables, active, budget, degraded, intent, contested, overtaken, relaunches>>

(* reconcilePersistedServiceOwner: the registry's live process is adopted. *)
Adopt(a) ==
  /\ MyTurn(a)
  /\ OwnedByOthers
  /\ TakesBack(a)
  /\ adopted' = [pid |-> row.pid, stopping |-> FALSE]
  /\ finalizer' = row.pid
  /\ record' = RunningAs(row.pid)
  /\ Leave(a, TRUE)
  /\ Overlap(a, thread[a].op)
  /\ UNCHANGED <<live, proc, managed, row, active, budget, degraded, intent, contested, overtaken, relaunches>>

(* Ports are negotiated, the broker is asked; startManagedProcess begins   *)
(* with whatever finalizer there is.                                       *)
Negotiate(a) ==
  /\ At(a, "negotiate")
  /\ thread' = [thread EXCEPT ![a].at = "check", ![a].wait = finalizer]
  /\ UNCHANGED <<record, live, proc, tables, row, starting, plans, budget, history>>

Check(a) ==
  /\ At(a, "check") /\ Finished(thread[a].wait)
  /\ IF HasManagedProcess THEN Leave(a, FALSE) ELSE Go(a, "owner") /\ UNCHANGED starting
  /\ UNCHANGED <<record, live, proc, tables, row, plans, budget, history>>

(* reconcileRegisteredProcess: classify the registered process, then clear *)
(* the row of one that is gone.                                            *)
Classify(a) ==
  /\ At(a, "owner")
  /\ IF row.pid \in live THEN Leave(a, FALSE)
     ELSE Go(a, IF row.pid = None THEN "spawn" ELSE "clear") /\ UNCHANGED starting
  /\ UNCHANGED <<record, live, proc, tables, row, plans, budget, history>>

Clear(a) ==
  /\ At(a, "clear")
  /\ row' = Unowned
  /\ Go(a, "spawn")
  /\ UNCHANGED <<record, live, proc, tables, starting, plans, budget, history>>

Spawn(a) ==
  /\ At(a, "spawn")
  /\ Spend("spawns")
  /\ LET p == MaxSpawns - budget.spawns + 1 IN
       /\ live' = live \cup {p}
       /\ proc' = [proc EXCEPT ![p].stage = "launched"]
       /\ thread' = [thread EXCEPT ![a].at = "enrol", ![a].pid = p]
  /\ intent' = IF intent = "stopped" THEN "defied" ELSE intent
  /\ relaunches' = IF thread[a].op = "supervise" THEN relaunches + 1 ELSE relaunches
  /\ UNCHANGED <<record, tables, row, starting, plans, overlapped, degraded, contested, overtaken>>

SpawnFails(a) ==
  /\ At(a, "spawn")
  /\ Leave(a, FALSE)
  /\ UNCHANGED <<record, live, proc, tables, row, plans, budget, history>>

(* recordProcessOwnership *)
Enrol(a) ==
  /\ At(a, "enrol") /\ thread[a].pid \in live
  /\ row' = [pid |-> thread[a].pid, state |-> "launching"]
  /\ Go(a, "activate")
  /\ UNCHANGED <<record, live, proc, tables, starting, plans, budget, history>>

Dies(p) == proc' = [proc EXCEPT ![p].stage = "done", ![p].exit = "killed"]

(* The enrolment failed, or its process died: it is contained. *)
Contain(a) ==
  /\ thread[a].at \in {"enrol", "activate"}
  /\ \/ thread[a].pid \notin live /\ UNCHANGED budget
     \/ Spend("failures")
  /\ live' = live \ {thread[a].pid}
  /\ Dies(thread[a].pid)
  /\ row' = Transition(thread[a].pid, "stopped")
  /\ Leave(a, FALSE)
  /\ UNCHANGED <<record, tables, plans, history>>

(* activateManagedRecord, and the store's running *)
Track(p) ==
  /\ managed' = p
  /\ finalizer' = p
  /\ proc' = [proc EXCEPT ![p].stage = "tracked"]
  /\ record' = RunningAs(p)
  /\ UNCHANGED adopted

(* The containment failed too: the process is retained. *)
Retain(a) ==
  /\ thread[a].at \in {"enrol", "activate"} /\ thread[a].pid \in live
  /\ Spend("failures")
  /\ Track(thread[a].pid)
  /\ Leave(a, FALSE)
  /\ degraded' = degraded \cup {"stop"}
  /\ UNCHANGED <<live, row, plans, overlapped, intent, contested, overtaken, relaunches>>

Activate(a) ==
  /\ At(a, "activate")
  /\ Track(thread[a].pid)
  /\ Go(a, "ready")
  /\ UNCHANGED <<live, row, starting, plans, budget, history>>

(* waitForServiceReadiness *)
Ready(a) ==
  /\ At(a, "ready")
  /\ Go(a, "own")
  /\ UNCHANGED <<record, live, proc, tables, row, starting, plans, budget, history>>

Unready(a) ==
  /\ At(a, "ready")
  /\ BeginStop(a, thread[a])
  /\ UNCHANGED <<record, live, managed, finalizer, row, starting, plans, budget, history>>

Own(a) ==
  /\ At(a, "own")
  /\ row' = Transition(thread[a].pid, "running")
  /\ Go(a, "settle")
  /\ UNCHANGED <<record, live, proc, tables, starting, plans, budget, history>>

Attempts(a) == IF thread[a].op = "supervise" THEN record.attempts ELSE 0

(* The end of startServiceSerialized: the process may be gone already.     *)
(* That of restartService does not ask.                                    *)
SettleBlindly(a) ==                                               \* mutant
  /\ At(a, "settle")
  /\ record' = [RunningAs(thread[a].pid) EXCEPT !.attempts = Attempts(a)]
  /\ degraded' = degraded \cup {x \in {"stop"} : thread[a].op = "restart" /\ ~HasManagedProcess}
  /\ relaunches' = 0
  /\ Leave(a, TRUE)
  /\ UNCHANGED <<live, proc, tables, row, plans, budget, overlapped, intent, contested, overtaken>>
Settle(a) ==
  /\ At(a, "settle")
  /\ LET still == HasManagedProcess \/ thread[a].op = "restart" IN
       record' = [running |-> still,
                  pid |-> IF still THEN thread[a].pid ELSE None,
                  termination |-> IF still THEN "none" ELSE record.termination,
                  attempts |-> Attempts(a)]
  /\ degraded' = degraded \cup {x \in {"stop"} : thread[a].op = "restart" /\ ~HasManagedProcess}
  /\ relaunches' = 0
  /\ Leave(a, TRUE)
  /\ UNCHANGED <<live, proc, tables, row, plans, budget, overlapped, intent, contested, overtaken>>

-----------------------------------------------------------------------------
(***************************************************************************)
(* Exits, their finalizers and supervision.                                *)
(***************************************************************************)
Exits(p) ==
  /\ p \in live
  /\ Spend("exits")
  /\ live' = live \ {p}
  /\ \E how \in {"crashed", "exited"} : proc' = [proc EXCEPT ![p].exit = how]
  /\ UNCHANGED <<record, tables, row, thread, starting, plans, history>>

DoneNever(p) == UNCHANGED finalizer                                \* mutant
Done(p) == finalizer' = IF finalizer = p THEN None ELSE finalizer

(* finalizeLifecycle: the row, the table, and whether this was a stop. *)
Remove(p) ==
  /\ proc[p].stage = "tracked" /\ p \notin live
  /\ row' = Transition(p, "stopped")
  /\ managed' = IF managed = p THEN None ELSE managed
  /\ IF proc[p].stopping
     THEN proc' = [proc EXCEPT ![p].stage = "done"] /\ Done(p)
     ELSE proc' = [proc EXCEPT ![p].stage = "removed"] /\ UNCHANGED finalizer
  /\ UNCHANGED <<record, live, adopted, thread, starting, plans, budget, history>>

(* classifyUnexpectedTermination *)
Termination(p) == IF proc[p].exit = "exited" THEN "exited" ELSE "crashed"

(* persistProcessExit, once the secret files are revoked *)
PersistExit(p) ==
  /\ proc[p].stage = "removed"
  /\ record' = EndedAs(Termination(p))
  /\ proc' = [proc EXCEPT ![p].stage = "persisted"]
  /\ UNCHANGED <<live, tables, row, thread, starting, plans, budget, history>>

(* superviseUnexpectedProcessExit from there to its next await *)
BlocksLate(p) ==                                                  \* mutant
  \/ shutdownRequested
  \/ Termination(p) # "crashed"
  \/ record.attempts > MaxAttempts
Blocks(p) ==
  \/ shutdownRequested
  \/ Termination(p) # "crashed"
  \/ record.attempts + 1 > MaxAttempts
Supervise(p) ==
  /\ proc[p].stage = "persisted"
  /\ IF Blocks(p)
     THEN /\ proc' = [proc EXCEPT ![p].stage = "done"] /\ Done(p)
          /\ UNCHANGED <<record, timer>>
     ELSE /\ timer' = 0
          /\ record' = [record EXCEPT !.attempts = @ + 1]
          /\ proc' = [proc EXCEPT ![p].stage = "scheduling", ![p].attempt = record.attempts + 1]
          /\ UNCHANGED finalizer
  /\ UNCHANGED <<live, managed, adopted, row, thread, starting, active, shutdownRequested>>
  /\ UNCHANGED <<budget, history>>

Schedule(p) ==
  /\ proc[p].stage = "scheduling"
  /\ timer' = proc[p].attempt
  /\ proc' = [proc EXCEPT ![p].stage = "done"]
  /\ Done(p)
  /\ UNCHANGED <<record, live, managed, adopted, row, thread, starting, active, shutdownRequested>>
  /\ UNCHANGED <<budget, history>>

(* monitorAdoptedProcess and finalizeAdoptedProcessExit *)
AdoptedExits ==
  /\ adopted.pid # None /\ adopted.pid \notin live /\ ~adopted.stopping
  /\ row' = Transition(adopted.pid, "stopped")
  /\ record' = IF record.running /\ record.pid = adopted.pid THEN EndedAs("exited") ELSE record
  /\ adopted' = NotAdopted
  /\ AdoptedDone(adopted.pid)
  /\ UNCHANGED <<live, proc, managed, thread, starting, plans, budget, history>>

(* The timer: runScheduledSupervisionRestart up to its first await. *)
TimerFires(r) ==
  /\ timer # 0 /\ At(r, "idle")
  /\ timer' = 0
  /\ active' = r
  /\ thread' = [thread EXCEPT ![r] =
       [Idle EXCEPT !.op = "supervise", !.attempt = timer,
                    !.at = IF shutdownRequested \/ record.running THEN "blocked" ELSE "doctor"]]
  /\ overtaken' = (overtaken \/ active # "none")
  /\ UNCHANGED <<record, live, proc, tables, row, starting, shutdownRequested, budget>>
  /\ UNCHANGED <<overlapped, degraded, intent, contested, relaunches>>

SettledActive(r) == /\ thread' = [thread EXCEPT ![r] = Idle]       \* mutant
                    /\ UNCHANGED active
Settled(r) == /\ thread' = [thread EXCEPT ![r] = Idle]
              /\ active' = IF active = r THEN "none" ELSE active

Blocked(r) ==
  /\ At(r, "blocked")
  /\ Settled(r)
  /\ UNCHANGED <<record, live, proc, tables, row, starting, timer, shutdownRequested, budget, history>>

(* The result of a supervised restart *)
Decide(r) ==
  /\ At(r, "decide")
  /\ record' = [record EXCEPT !.attempts = IF thread[r].ok THEN 0 ELSE thread[r].attempt]
  /\ Settled(r)
  /\ UNCHANGED <<live, proc, tables, row, starting, timer, shutdownRequested, budget, history>>
-----------------------------------------------------------------------------
(***************************************************************************)
(* The shutdown: stop of the API server and stopAllManagedProcesses.       *)
(***************************************************************************)
ShutDown ==
  /\ MayShutDown /\ At("shutdown", "idle")
  /\ thread' = [thread EXCEPT !["shutdown"] = [Idle EXCEPT !.op = "shutdown", !.at = "monitor", !.ok = TRUE]]
  /\ contested' = (contested \/ ~At("operator", "idle"))
  /\ UNCHANGED <<record, live, proc, tables, row, starting, plans, budget>>
  /\ UNCHANGED <<overlapped, degraded, intent, overtaken, relaunches>>

(* monitor.stop: a round under way is awaited. *)
MonitorStops ==
  /\ At("shutdown", "monitor") /\ At("monitor", "idle")
  /\ Go("shutdown", "pass")
  /\ UNCHANGED <<record, live, proc, tables, row, starting, plans, budget, history>>

Tracked == HasManagedProcess \/ finalizer # None

(* A pass begins: the quiescer cancels the timer and awaits the active     *)
(* supervised restart.                                                     *)
QuiesceWithoutDraining ==                                         \* mutant
  /\ At("shutdown", "pass")
  /\ IF Tracked \/ timer # 0 \/ active # "none"
     THEN shutdownRequested' = TRUE /\ timer' = 0
     ELSE UNCHANGED <<shutdownRequested, timer>>
  /\ thread' = [thread EXCEPT !["shutdown"].at = "drain", !["shutdown"].was = Tracked]
  /\ UNCHANGED <<record, live, proc, tables, row, starting, active, budget, history>>
Quiesce ==
  /\ At("shutdown", "pass")
  /\ IF Tracked \/ timer # 0 \/ active # "none"
     THEN shutdownRequested' = TRUE /\ timer' = 0
     ELSE UNCHANGED <<shutdownRequested, timer>>
  /\ thread' = [thread EXCEPT !["shutdown"].at = "drain", !["shutdown"].was = Tracked,
                              !["shutdown"].drain = active]
  /\ UNCHANGED <<record, live, proc, tables, row, starting, active, budget, history>>

Drained ==
  /\ At("shutdown", "drain")
  /\ LET r == thread["shutdown"].drain IN r # "none" => At(r, "idle")
  /\ IF thread["shutdown"].was
     THEN BeginStop("shutdown", thread["shutdown"])
     ELSE /\ Go("shutdown", IF Tracked THEN "pass" ELSE "done")
          /\ UNCHANGED <<proc, adopted>>
  /\ UNCHANGED <<record, live, managed, finalizer, row, starting, plans, budget, history>>

PassEnds ==
  /\ StoppedFor("shutdown")
  /\ Leave("shutdown", TRUE)
  /\ UNCHANGED <<record, live, proc, tables, row, plans, budget, history>>
-----------------------------------------------------------------------------
Calling == CallStart \/ CallStop \/ CallRestart \/ CallInstall

Doctoring(a) == DoctorAllows(a) \/ DoctorRefuses(a)

Preparing(a) == EnterStart(a) \/ Adopt(a) \/ Negotiate(a) \/ Check(a) \/ Classify(a) \/ Clear(a)

Spawning(a) == Spawn(a) \/ SpawnFails(a) \/ Enrol(a) \/ Contain(a) \/ Retain(a) \/ Activate(a)

Confirming(a) == Ready(a) \/ Unready(a) \/ Own(a) \/ Settle(a)

Stopping(a) ==
  \/ Mark(a) \/ Kill(a) \/ Expel(a) \/ StopFails(a) \/ GivesUp(a)
  \/ StopEnds(a) \/ StopRecords(a) \/ OldStopped(a) \/ NewStopped(a)

Step(a) == Doctoring(a) \/ Preparing(a) \/ Spawning(a) \/ Confirming(a) \/ Stopping(a)

Finalizing(p) == Remove(p) \/ PersistExit(p) \/ Supervise(p) \/ Schedule(p)

Supervising(r) == TimerFires(r) \/ Blocked(r) \/ Decide(r)

ShuttingDown == MonitorStops \/ Quiesce \/ Drained \/ PassEnds

Monitoring == MonitorRestarts \/ MonitorPasses

Next ==
  \/ Calling \/ Install \/ MonitorLooks \/ Monitoring
  \/ \E a \in Thread : Step(a)
  \/ \E p \in Pid : Exits(p) \/ Finalizing(p)
  \/ AdoptedExits
  \/ \E r \in Restarter : Supervising(r)
  \/ ShutDown \/ ShuttingDown

Spec == Init /\ [][Next]_vars

(* The event loop runs every callback that is due: what has been called    *)
(* goes on.  Nobody has to call anything, and no process has to exit.      *)
Fairness ==
  /\ WF_vars(Install) /\ WF_vars(Monitoring) /\ WF_vars(AdoptedExits) /\ WF_vars(ShuttingDown)
  /\ \A a \in Thread : WF_vars(Step(a))
  /\ \A p \in Pid : WF_vars(Finalizing(p))
  /\ \A r \in Restarter : WF_vars(Supervising(r))

FairSpec == Spec /\ Fairness
-----------------------------------------------------------------------------
(***************************************************************************)
(* Properties.                                                             *)
(***************************************************************************)
Place == {"idle", "install", "inspect", "doctor", "queued", "negotiate", "check", "owner",
          "clear", "spawn", "enrol", "activate", "ready", "own", "settle", "mark",
          "kill", "expel", "await", "ending", "blocked", "decide", "monitor", "pass", "drain",
          "done"}

(* Every variable has its type, and the tables hold processes that were    *)
(* spawned.                                                                *)
TypeOK ==
  /\ record \in [running : BOOLEAN, pid : MayPid,
                 termination : {"none", "stopped", "crashed", "exited"}, attempts : 0 .. MaxAttempts]
  /\ live \subseteq Pid
  /\ proc \in [Pid -> [stage : {"unborn", "launched", "tracked", "removed", "persisted",
                                "scheduling", "done"},
                       exit : {"none", "crashed", "exited", "killed"},
                       stopping : BOOLEAN, attempt : 0 .. MaxAttempts]]
  /\ managed \in MayPid /\ finalizer \in MayPid
  /\ adopted \in [pid : MayPid, stopping : BOOLEAN]
  /\ row \in [pid : MayPid, state : {"stopped", "launching", "running", "stopping"}]
  /\ thread \in [Thread -> [op : {"none", "install", "start", "stop", "restart", "supervise",
                                  "shutdown"},
                            at : Place, pid : MayPid, wait : MayPid, attempt : 0 .. MaxAttempts,
                            ok : BOOLEAN, was : BOOLEAN, drain : Restarter \cup {"none"}]]
  /\ starting \in Seq({"operator"} \cup Restarter)
  /\ timer \in 0 .. MaxAttempts
  /\ active \in Restarter \cup {"none"}
  /\ shutdownRequested \in BOOLEAN
  /\ DOMAIN budget = {"spawns", "exits", "commands", "rounds", "failures"}
  /\ degraded \subseteq {"stop", "finalizer"}
  /\ intent \in {"none", "wanted", "stopped", "defied"}

(* Unless a restart and another launch were under way together, two        *)
(* processes of the service never run together: the start turn, the        *)
(* finalizer that is awaited and the tables that are asked see to it.      *)
OneProcess == overlapped \/ Cardinality(live) <= 1

(* The registry names the process the supervisor manages, so that a        *)
(* runtime that starts after a crash of this one can find it.              *)
RegistryNamesProcess == (managed \in live /\ ~overlapped /\ degraded = {}) => row.pid = managed

(* A process the runtime itself has killed never counts as an unexpected   *)
(* exit: its finalizer neither writes a crash to the store nor schedules a *)
(* restart.                                                                *)
StopIsNoCrash ==
  \A p \in Pid : (proc[p].exit = "killed" /\ ~overlapped) =>
                   proc[p].stage \notin {"removed", "persisted", "scheduling"}

(* Nothing is under way but what waits for its turn. *)
AtRest ==
  /\ At("shutdown", "idle")
  /\ \A a \in Thread : thread[a].at \in {"idle", "queued"}
  /\ \A p \in Pid : proc[p].stage \in {"unborn", "tracked", "done"} /\ (proc[p].stage = "tracked" => p \in live)
  /\ adopted.pid \in live \cup {None}

(* When nothing is under way the store says running exactly when there is  *)
(* a process, and names it.  Not so when a supervised restart was          *)
(* overtaken by a later one: stopService writes its stop after the grants  *)
(* are revoked, by when the restart it did not know of may have launched.  *)
StoreAgrees ==
  (AtRest /\ degraded = {} /\ ~overlapped /\ ~overtaken) =>
    /\ record.running <=> live # {}
    /\ record.running => record.pid \in live /\ record.pid \in {managed, adopted.pid}

Nothing == live = {} /\ timer = 0 /\ ~HasManagedProcess /\ row.pid = None

(* A shutdown that reports no finalizer it gave up leaves no process, no   *)
(* timer and no registered owner:                                          *)
(* supervised restarts are cancelled and drained before the processes are  *)
(* stopped.  Not so when an operator's command ran into it, when a         *)
(* supervised restart was overtaken by a later one (the quiescer knows the *)
(* latest only), or when two launches were under way together.             *)
ShutdownDrains ==
  (At("shutdown", "done") /\ thread["shutdown"].ok /\ ~contested /\ ~overtaken /\ ~overlapped)
    => Nothing

(* The monitor and supervision never bring back a service the operator has *)
(* stopped.                                                                *)
StopSticks == intent # "defied"

(* Between two launches that succeed, supervision launches at most         *)
(* maxAttempts times.                                                      *)
RelaunchesBounded == relaunches <= MaxAttempts

Forsaken == "finalizer" \in degraded

(* Every operator's command ends, as long as no finalizer was given up.    *)
CommandsEnd == (~At("operator", "idle") /\ ~Forsaken) ~> (At("operator", "idle") \/ Forsaken)

(* So does every supervised restart that is scheduled or under way.        *)
SupervisionSettles == (Pending /\ ~Forsaken) ~> (~Pending \/ Forsaken)

(* And so does a shutdown that has begun its passes.                       *)
ShutdownEnds == (At("shutdown", "pass") /\ ~Forsaken) ~> (At("shutdown", "done") \/ Forsaken)

(* The shutdown drains the supervised restarts, operator's commands or no: *)
(* it does not wait for one for ever.                                      *)
RestartsDrain ==
  (At("shutdown", "drain") /\ ~contested) ~> (~At("shutdown", "drain") \/ contested)
=============================================================================
