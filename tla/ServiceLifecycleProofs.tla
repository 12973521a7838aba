------------------------ MODULE ServiceLifecycleProofs ------------------------
(***************************************************************************)
(* For any number of restarts, attempts and processes: the variables keep  *)
(* their types, the service has one process, the registry names it, and a  *)
(* stop is never taken for a crash.                                        *)
(***************************************************************************)
EXTENDS ServiceLifecycle, FiniteSetTheorems, TLAPS

Ops == {"none", "install", "start", "stop", "restart", "supervise", "shutdown"}
ThreadRecord ==
  [op : Ops, at : Place, pid : MayPid, wait : MayPid, attempt : 0 .. MaxAttempts,
   ok : BOOLEAN, was : BOOLEAN, drain : Restarter \cup {"none"}]
StoreRecord ==
  [running : BOOLEAN, pid : MayPid,
   termination : {"none", "stopped", "crashed", "exited"}, attempts : 0 .. MaxAttempts]
ProcRecord ==
  [stage : {"unborn", "launched", "tracked", "removed", "persisted", "scheduling", "done"},
   exit : {"none", "crashed", "exited", "killed"},
   stopping : BOOLEAN, attempt : 0 .. MaxAttempts]
RowRecord == [pid : MayPid, state : {"stopped", "launching", "running", "stopping"}]
Budget == [spawns : 0 .. MaxSpawns, exits : Nat, commands : Nat, rounds : Nat, failures : Nat]

(* TypeOK in three parts: what a step of a thread changes, what the        *)
(* supervisor keeps, and the rest.                                         *)
ThreadsTyped == thread \in [Thread -> ThreadRecord]
ProcTyped ==
  /\ proc \in [Pid -> ProcRecord]
  /\ live \subseteq Pid
  /\ managed \in MayPid /\ finalizer \in MayPid
  /\ adopted \in [pid : MayPid, stopping : BOOLEAN]
StoreTyped ==
  /\ record \in StoreRecord
  /\ row \in RowRecord
  /\ timer \in 0 .. MaxAttempts
  /\ active \in Restarter \cup {"none"}
  /\ shutdownRequested \in BOOLEAN
  /\ budget \in Budget
  /\ degraded \subseteq {"stop", "finalizer"}
  /\ intent \in {"none", "wanted", "stopped", "defied"}
  /\ overlapped \in BOOLEAN
StartingTyped == starting \in Seq({"operator"} \cup Restarter)

(* Where a thread may be: launches, turns, preflights and stops belong to  *)
(* the callers that make them, and come with the process they are about.   *)
Launching == {"negotiate", "check", "owner", "clear", "spawn", "enrol", "activate", "ready", "own",
              "settle"}
Fits(a, r) ==
  /\ r.at \in Launching => r.op \in {"start", "supervise", "restart"}
  /\ r.at = "queued" => r.op \in {"start", "supervise"}
  /\ r.at = "doctor" => r.op = "restart" \/ (r.op = "supervise" /\ ~r.was)
  /\ r.op = "supervise" => a \in Restarter
  /\ r.at \in {"enrol", "activate", "ready", "own", "settle"} => r.pid \in Pid
  /\ r.at \in {"mark", "kill", "expel"} => r.wait \in Pid
ThreadsFit == \A a \in Thread : Fits(a, thread[a])

LifecycleTypes == ThreadsTyped /\ ProcTyped /\ StoreTyped /\ StartingTyped /\ ThreadsFit

LEMMA TypesAreTypeOK == ASSUME LifecycleTypes PROVE TypeOK
<1>1. ThreadsTyped <=> thread \in [Thread -> [op : {"none", "install", "start", "stop", "restart", "supervise",
                                  "shutdown"},
                            at : Place, pid : MayPid, wait : MayPid, attempt : 0 .. MaxAttempts,
                            ok : BOOLEAN, was : BOOLEAN, drain : Restarter \cup {"none"}]]
  BY DEF ThreadsTyped, ThreadRecord, Ops
<1>2. DOMAIN budget = {"spawns", "exits", "commands", "rounds", "failures"}
  BY DEF LifecycleTypes, StoreTyped, Budget
<1> QED
  BY <1>1, <1>2 DEF LifecycleTypes, ProcTyped, StoreTyped, StartingTyped, TypeOK,
     StoreRecord, ProcRecord, RowRecord

-----------------------------------------------------------------------------
(* What the steps of a thread have in common. *)

(* The thread goes on as r, the others stay. *)
Becomes(a, r) ==
  /\ ThreadsTyped' /\ ThreadsFit'
  /\ thread'[a] = r
  /\ \A b \in Thread : b # a => thread'[b] = thread[b]

LEMMA ThreadBecomes ==
  ASSUME ThreadsTyped, ThreadsFit, NEW a \in Thread, NEW r \in ThreadRecord, Fits(a, r),
         thread' = [thread EXCEPT ![a] = r]
  PROVE  Becomes(a, r)
<1>1. thread'[a] = r /\ \A b \in Thread : b # a => thread'[b] = thread[b]
  BY DEF ThreadsTyped
<1>2. ThreadsTyped'
  BY DEF ThreadsTyped
<1>3. ThreadsFit'
  BY <1>1 DEF ThreadsFit
<1> QED
  BY <1>1, <1>2, <1>3 DEF Becomes

(* The same work, at another place. *)
Goes(a, place) ==
  /\ ThreadsTyped' /\ ThreadsFit'
  /\ thread'[a].at = place
  /\ thread'[a].op = thread[a].op
  /\ thread'[a].pid = thread[a].pid
  /\ thread'[a].wait = thread[a].wait
  /\ \A b \in Thread : b # a => thread'[b] = thread[b]

LEMMA GoGoes ==
  ASSUME ThreadsTyped, ThreadsFit, NEW a \in Thread, NEW place \in Place, Go(a, place),
         \A r \in ThreadRecord :
           /\ r.at = place
           /\ r.op = thread[a].op /\ r.pid = thread[a].pid
           /\ r.wait = thread[a].wait /\ r.was = thread[a].was
           => Fits(a, r)
  PROVE  Goes(a, place)
<1> DEFINE r == [thread[a] EXCEPT !.at = place]
<1>1. thread[a] \in ThreadRecord
  BY DEF ThreadsTyped
<1>2. /\ r \in ThreadRecord /\ r.at = place
      /\ r.op = thread[a].op /\ r.pid = thread[a].pid
      /\ r.wait = thread[a].wait /\ r.was = thread[a].was
  BY <1>1 DEF ThreadRecord
<1>3. thread' = [thread EXCEPT ![a] = r]
  BY DEF Go
<1> HIDE DEF r
<1>4. Becomes(a, r)
  BY <1>2, <1>3, ThreadBecomes
<1> QED
  BY <1>2, <1>4 DEF Becomes, Goes

(* The work ends. *)
Leaves(a) ==
  /\ ThreadsTyped' /\ ThreadsFit' /\ StartingTyped'
  /\ thread'[a].at \in {"idle", "decide", "pass"}
  /\ ~Working(a)'
  /\ starting' = PassedOn(a)
  /\ \A b \in Thread : b # a => thread'[b] = thread[b]

LEMMA LeaveLeaves ==
  ASSUME ThreadsTyped, ThreadsFit, StartingTyped, ConstantsAssumption,
         NEW a \in Thread, NEW ok \in BOOLEAN, Leave(a, ok)
  PROVE  Leaves(a)
<1> DEFINE r == CASE thread[a].op = "supervise" -> [thread[a] EXCEPT !.at = "decide", !.ok = ok]
                  [] thread[a].op = "shutdown"  -> [thread[a] EXCEPT !.at = "pass", !.ok = ok]
                  [] OTHER                      -> Idle
<1>1. thread[a] \in ThreadRecord
  BY DEF ThreadsTyped
<1>2. Idle \in ThreadRecord
  BY ConstantsAssumption DEF ThreadRecord, Idle, Ops, Place, MayPid
<1>3. /\ r \in ThreadRecord /\ r.at \in {"idle", "decide", "pass"}
      /\ r.op \in {"none", "supervise", "shutdown"}
      /\ r.op = "supervise" => thread[a].op = "supervise" /\ r.at = "decide"
  <2>1. CASE thread[a].op = "supervise"
    BY <1>1, <2>1 DEF ThreadRecord, Place
  <2>2. CASE thread[a].op = "shutdown"
    BY <1>1, <2>2 DEF ThreadRecord, Place
  <2>3. CASE thread[a].op \notin {"supervise", "shutdown"}
    BY <1>2, <2>3 DEF Idle
  <2> QED
    BY <2>1, <2>2, <2>3
<1>4. thread' = [thread EXCEPT ![a] = r]
  BY DEF Leave
<1> HIDE DEF r
<1>5. Fits(a, r)
  BY <1>3 DEF Fits, ThreadsFit, Launching
<1>6. Becomes(a, r)
  BY <1>3, <1>4, <1>5, ThreadBecomes
<1>7. StartingTyped'
  BY DEF Leave, StartingTyped, PassedOn
<1> QED
  BY <1>3, <1>6, <1>7 DEF Becomes, Leaves, Leave, Working

(* stopManagedProcess begins: the process that is managed is marked. *)
Begins(a, from) ==
  /\ ThreadsTyped' /\ ThreadsFit'
  /\ thread'[a].at \in {"mark", "await"}
  /\ thread'[a].op = from.op
  /\ thread'[a].at = "mark" => thread'[a].wait = StopTarget(a) /\ HasManagedProcess
  /\ \A b \in Thread : b # a => thread'[b] = thread[b]
  /\ proc' \in [Pid -> ProcRecord]
  /\ \A p \in Pid : /\ proc'[p].stage = proc[p].stage /\ proc'[p].exit = proc[p].exit
                    /\ proc'[p].stopping = (proc[p].stopping \/ p = managed)
                    /\ p # managed => proc'[p] = proc[p]
  /\ adopted' \in [pid : MayPid, stopping : BOOLEAN]
  /\ adopted'.pid = adopted.pid

LEMMA BeginStopBegins ==
  ASSUME ThreadsTyped, ThreadsFit, ProcTyped, NEW a \in Thread, NEW from \in ThreadRecord,
         from.op = "supervise" => a \in Restarter, BeginStop(a, from)
  PROVE  Begins(a, from)
<1> DEFINE r == [from EXCEPT !.at = IF HasManagedProcess THEN "mark" ELSE "await",
                             !.wait = StopTarget(a)]
<1>1. StopTarget(a) \in MayPid /\ (HasManagedProcess => StopTarget(a) \in Pid)
  BY DEF StopTarget, HasManagedProcess, ProcTyped, MayPid
<1>2. /\ r \in ThreadRecord /\ r.at = (IF HasManagedProcess THEN "mark" ELSE "await")
      /\ r.op = from.op /\ r.wait = StopTarget(a)
  BY <1>1 DEF ThreadRecord, Place
<1>3. thread' = [thread EXCEPT ![a] = r]
  BY DEF BeginStop
<1> HIDE DEF r
<1>4. Fits(a, r)
  BY <1>1, <1>2 DEF Fits, Launching
<1>5. Becomes(a, r)
  BY <1>2, <1>3, <1>4, ThreadBecomes
<1>6. \A p \in Pid : proc'[p] = [proc[p] EXCEPT !.stopping = @ \/ p = managed]
  BY DEF BeginStop
<1>7. \A p \in Pid : /\ proc'[p] \in ProcRecord
                     /\ proc'[p].stage = proc[p].stage /\ proc'[p].exit = proc[p].exit
                     /\ proc'[p].stopping = (proc[p].stopping \/ p = managed)
                     /\ p # managed => proc'[p] = proc[p]
  <2> SUFFICES ASSUME NEW p \in Pid
               PROVE  /\ proc'[p] \in ProcRecord
                      /\ proc'[p].stage = proc[p].stage /\ proc'[p].exit = proc[p].exit
                      /\ proc'[p].stopping = (proc[p].stopping \/ p = managed)
                      /\ p # managed => proc'[p] = proc[p]
    OBVIOUS
  <2>1. proc[p] \in ProcRecord
    BY DEF ProcTyped
  <2>2. proc'[p] \in ProcRecord /\ proc'[p].stage = proc[p].stage /\ proc'[p].exit = proc[p].exit
    BY <1>6, <2>1 DEF ProcRecord
  <2>3. proc'[p].stopping = (proc[p].stopping \/ p = managed)
    BY <1>6, <2>1 DEF ProcRecord
  <2>4. p # managed => proc'[p] = proc[p]
    BY <1>6, <2>1 DEF ProcRecord
  <2> QED
    BY <2>2, <2>3, <2>4
<1>8. proc' \in [Pid -> ProcRecord]
  BY <1>7 DEF BeginStop
<1>9. adopted' \in [pid : MayPid, stopping : BOOLEAN] /\ adopted'.pid = adopted.pid
  BY DEF BeginStop, ProcTyped
<1> QED
  BY <1>2, <1>5, <1>7, <1>8, <1>9 DEF Begins, Becomes

-----------------------------------------------------------------------------
(* Where each step brings its thread. *)
LEMMA PreparingGoes ==
  ASSUME LifecycleTypes, ConstantsAssumption, NEW a \in Thread
  PROVE  /\ DoctorAllows(a) => IF thread[a].was THEN Begins(a, thread[a])
                               ELSE IF thread[a].op = "restart" THEN Goes(a, "negotiate")
                               ELSE Goes(a, "queued")
         /\ DoctorRefuses(a) => Leaves(a)
         /\ EnterStart(a) => IF record.running THEN Leaves(a) ELSE Goes(a, "negotiate")
         /\ Adopt(a) => Leaves(a)
         /\ Check(a) => IF HasManagedProcess THEN Leaves(a) ELSE Goes(a, "owner")
         /\ Classify(a) => IF row.pid \in live THEN Leaves(a)
                           ELSE IF row.pid = None THEN Goes(a, "spawn") ELSE Goes(a, "clear")
         /\ Clear(a) => Goes(a, "spawn")
<1> USE DEF LifecycleTypes
<1>0. thread[a] \in ThreadRecord /\ Fits(a, thread[a])
  BY DEF ThreadsTyped, ThreadsFit
<1>1. ASSUME DoctorAllows(a)
      PROVE  IF thread[a].was THEN Begins(a, thread[a])
             ELSE IF thread[a].op = "restart" THEN Goes(a, "negotiate")
             ELSE Goes(a, "queued")
  <2>1. CASE thread[a].was
    BY <1>0, <1>1, <2>1, BeginStopBegins DEF DoctorAllows, Fits
  <2>2. CASE ~thread[a].was /\ thread[a].op = "restart"
    <3>1. Go(a, "negotiate")
      BY <1>1, <2>2 DEF DoctorAllows
    <3> QED
      BY <1>0, <2>2, <3>1, GoGoes DEF Fits, Launching, Place
  <2>3. CASE ~thread[a].was /\ thread[a].op # "restart"
    <3>1. Go(a, "queued") /\ At(a, "doctor")
      BY <1>1, <2>3 DEF DoctorAllows
    <3> QED
      BY <1>0, <2>3, <3>1, GoGoes DEF Fits, Launching, Place, At
  <2> QED
    BY <2>1, <2>2, <2>3
<1>2. ASSUME DoctorRefuses(a) PROVE Leaves(a)
  BY <1>2, LeaveLeaves DEF DoctorRefuses
<1>3. ASSUME EnterStart(a)
      PROVE  IF record.running THEN Leaves(a) ELSE Goes(a, "negotiate")
  <2>1. CASE record.running
    BY <1>3, <2>1, LeaveLeaves DEF EnterStart
  <2>2. CASE ~record.running
    <3>1. Go(a, "negotiate") /\ At(a, "queued")
      BY <1>3, <2>2 DEF EnterStart, MyTurn
    <3> QED
      BY <1>0, <2>2, <3>1, GoGoes DEF Fits, Launching, Place, At
  <2> QED
    BY <2>1, <2>2
<1>4. ASSUME Adopt(a) PROVE Leaves(a)
  BY <1>4, LeaveLeaves DEF Adopt
<1>5. ASSUME Check(a) PROVE IF HasManagedProcess THEN Leaves(a) ELSE Goes(a, "owner")
  <2>1. CASE HasManagedProcess
    BY <1>5, <2>1, LeaveLeaves DEF Check
  <2>2. CASE ~HasManagedProcess
    <3>1. Go(a, "owner") /\ At(a, "check")
      BY <1>5, <2>2 DEF Check
    <3> QED
      BY <1>0, <2>2, <3>1, GoGoes DEF Fits, Launching, Place, At
  <2> QED
    BY <2>1, <2>2
<1>6. ASSUME Classify(a)
      PROVE  IF row.pid \in live THEN Leaves(a)
             ELSE IF row.pid = None THEN Goes(a, "spawn") ELSE Goes(a, "clear")
  <2>1. CASE row.pid \in live
    BY <1>6, <2>1, LeaveLeaves DEF Classify
  <2>2. CASE row.pid \notin live /\ row.pid = None
    <3>1. Go(a, "spawn") /\ At(a, "owner")
      BY <1>6, <2>2 DEF Classify
    <3> QED
      BY <1>0, <2>2, <3>1, GoGoes DEF Fits, Launching, Place, At
  <2>3. CASE row.pid \notin live /\ row.pid # None
    <3>1. Go(a, "clear") /\ At(a, "owner")
      BY <1>6, <2>3 DEF Classify
    <3> QED
      BY <1>0, <2>3, <3>1, GoGoes DEF Fits, Launching, Place, At
  <2> QED
    BY <2>1, <2>2, <2>3
<1>7. ASSUME Clear(a) PROVE Goes(a, "spawn")
  <2>1. Go(a, "spawn") /\ At(a, "clear")
    BY <1>7 DEF Clear
  <2> QED
    BY <1>0, <2>1, GoGoes DEF Fits, Launching, Place, At
<1> QED
  BY <1>1, <1>2, <1>3, <1>4, <1>5, <1>6, <1>7

(* The two steps that also say what the thread awaits or has launched. *)
LEMMA NegotiateBecomes ==
  ASSUME LifecycleTypes, NEW a \in Thread, Negotiate(a)
  PROVE  \E r \in ThreadRecord : /\ Becomes(a, r)
                                 /\ r.at = "check" /\ r.op = thread[a].op
<1> DEFINE r == [thread[a] EXCEPT !.at = "check", !.wait = finalizer]
<1>0. thread[a] \in ThreadRecord /\ Fits(a, thread[a]) /\ finalizer \in MayPid
  BY DEF LifecycleTypes, ThreadsTyped, ThreadsFit, ProcTyped
<1>1. /\ r \in ThreadRecord /\ r.at = "check" /\ r.op = thread[a].op
  BY <1>0 DEF ThreadRecord, Place
<1>2. thread' = [thread EXCEPT ![a] = r] /\ thread[a].at = "negotiate"
  BY <1>0 DEF Negotiate, LifecycleTypes, ThreadsTyped, ThreadRecord, At
<1> HIDE DEF r
<1>3. Fits(a, r)
  BY <1>0, <1>1, <1>2 DEF Fits, Launching
<1> QED
  BY <1>1, <1>2, <1>3, ThreadBecomes DEF LifecycleTypes

SpawnedPid == MaxSpawns - budget.spawns + 1

LEMMA SpawnBecomes ==
  ASSUME LifecycleTypes, ConstantsAssumption, NEW a \in Thread, Spawn(a)
  PROVE  /\ SpawnedPid \in Pid
         /\ budget' \in Budget /\ budget'.spawns = budget.spawns - 1
         /\ \E r \in ThreadRecord : /\ Becomes(a, r)
                                    /\ r.at = "enrol" /\ r.op = thread[a].op /\ r.pid = SpawnedPid
<1> DEFINE r == [thread[a] EXCEPT !.at = "enrol", !.pid = SpawnedPid]
<1>0. thread[a] \in ThreadRecord /\ Fits(a, thread[a]) /\ budget \in Budget
  BY DEF LifecycleTypes, ThreadsTyped, ThreadsFit, StoreTyped
<1>1. SpawnedPid \in Pid
  BY <1>0, ConstantsAssumption DEF Spawn, Spend, Budget, Pid, SpawnedPid
<1>2. budget' \in Budget /\ budget'.spawns = budget.spawns - 1
  BY <1>0, ConstantsAssumption DEF Spawn, Spend, Budget
<1>3. /\ r \in ThreadRecord /\ r.at = "enrol" /\ r.op = thread[a].op /\ r.pid = SpawnedPid
  BY <1>0, <1>1 DEF ThreadRecord, Place, MayPid
<1>4. thread' = [thread EXCEPT ![a] = r] /\ thread[a].at = "spawn"
  BY <1>0 DEF Spawn, LifecycleTypes, ThreadsTyped, ThreadRecord, At, SpawnedPid
<1> HIDE DEF r
<1>5. Fits(a, r)
  BY <1>0, <1>1, <1>3, <1>4 DEF Fits, Launching
<1> QED
  BY <1>1, <1>2, <1>3, <1>4, <1>5, ThreadBecomes DEF LifecycleTypes

LEMMA LaunchingGoes ==
  ASSUME LifecycleTypes, ConstantsAssumption, NEW a \in Thread
  PROVE  /\ SpawnFails(a) => Leaves(a)
         /\ Enrol(a) => Goes(a, "activate")
         /\ Contain(a) => Leaves(a)
         /\ Retain(a) => Leaves(a)
         /\ Activate(a) => Goes(a, "ready")
         /\ Ready(a) => Goes(a, "own")
         /\ Unready(a) => Begins(a, thread[a])
         /\ Own(a) => Goes(a, "settle")
         /\ Settle(a) => Leaves(a)
<1> USE DEF LifecycleTypes
<1>0. thread[a] \in ThreadRecord /\ Fits(a, thread[a])
  BY DEF ThreadsTyped, ThreadsFit
<1>1. ASSUME SpawnFails(a) PROVE Leaves(a)
  BY <1>1, LeaveLeaves DEF SpawnFails
<1>2. ASSUME Enrol(a) PROVE Goes(a, "activate")
  <2>1. Go(a, "activate") /\ At(a, "enrol")
    BY <1>2 DEF Enrol
  <2> QED
    BY <1>0, <2>1, GoGoes DEF Fits, Launching, Place, At
<1>3. ASSUME Contain(a) PROVE Leaves(a)
  BY <1>3, LeaveLeaves DEF Contain
<1>4. ASSUME Retain(a) PROVE Leaves(a)
  BY <1>4, LeaveLeaves DEF Retain
<1>5. ASSUME Activate(a) PROVE Goes(a, "ready")
  <2>1. Go(a, "ready") /\ At(a, "activate")
    BY <1>5 DEF Activate
  <2> QED
    BY <1>0, <2>1, GoGoes DEF Fits, Launching, Place, At
<1>6. ASSUME Ready(a) PROVE Goes(a, "own")
  <2>1. Go(a, "own") /\ At(a, "ready")
    BY <1>6 DEF Ready
  <2> QED
    BY <1>0, <2>1, GoGoes DEF Fits, Launching, Place, At
<1>7. ASSUME Unready(a) PROVE Begins(a, thread[a])
  BY <1>0, <1>7, BeginStopBegins DEF Unready, Fits
<1>8. ASSUME Own(a) PROVE Goes(a, "settle")
  <2>1. Go(a, "settle") /\ At(a, "own")
    BY <1>8 DEF Own
  <2> QED
    BY <1>0, <2>1, GoGoes DEF Fits, Launching, Place, At
<1>9. ASSUME Settle(a) PROVE Leaves(a)
  BY <1>9, LeaveLeaves DEF Settle
<1> QED
  BY <1>1, <1>2, <1>3, <1>4, <1>5, <1>6, <1>7, <1>8, <1>9

LEMMA StoppingGoes ==
  ASSUME LifecycleTypes, ConstantsAssumption, NEW a \in Thread
  PROVE  /\ Mark(a) => IF managed # thread[a].wait /\ adopted.pid = thread[a].wait
                       THEN Goes(a, "expel") ELSE Goes(a, "kill")
         /\ (Kill(a) \/ Expel(a)) => \E r \in ThreadRecord : /\ Becomes(a, r)
                                                             /\ r.at = "await" /\ r.op = thread[a].op
         /\ (StopFails(a) \/ GivesUp(a) \/ StopRecords(a) \/ NewStopped(a)) => Leaves(a)
         /\ StopEnds(a) => Goes(a, "ending")
         /\ OldStopped(a) => Goes(a, "negotiate")
<1> USE DEF LifecycleTypes
<1>0. thread[a] \in ThreadRecord /\ Fits(a, thread[a])
  BY DEF ThreadsTyped, ThreadsFit
<1>1. ASSUME Mark(a)
      PROVE  IF managed # thread[a].wait /\ adopted.pid = thread[a].wait
             THEN Goes(a, "expel") ELSE Goes(a, "kill")
  <2>1. CASE managed # thread[a].wait /\ adopted.pid = thread[a].wait
    <3>1. Go(a, "expel") /\ At(a, "mark")
      BY <1>1, <2>1 DEF Mark
    <3> QED
      BY <1>0, <2>1, <3>1, GoGoes DEF Fits, Launching, Place, At
  <2>2. CASE ~(managed # thread[a].wait /\ adopted.pid = thread[a].wait)
    <3>1. Go(a, "kill") /\ At(a, "mark")
      BY <1>1, <2>2 DEF Mark
    <3> QED
      BY <1>0, <2>2, <3>1, GoGoes DEF Fits, Launching, Place, At
  <2> QED
    BY <2>1, <2>2
<1>2. ASSUME Kill(a) \/ Expel(a)
      PROVE  \E r \in ThreadRecord : Becomes(a, r) /\ r.at = "await" /\ r.op = thread[a].op
  <2>1. PICK w \in MayPid : thread' = [thread EXCEPT ![a].at = "await", ![a].wait = w]
    BY <1>2 DEF Kill, Expel, ProcTyped, MayPid
  <2> DEFINE r == [thread[a] EXCEPT !.at = "await", !.wait = w]
  <2>2. r \in ThreadRecord /\ r.at = "await" /\ r.op = thread[a].op
    BY <1>0 DEF ThreadRecord, Place
  <2>3. thread' = [thread EXCEPT ![a] = r]
    BY <1>0, <2>1 DEF ThreadsTyped, ThreadRecord
  <2> HIDE DEF r
  <2>4. Fits(a, r)
    BY <1>0, <2>2 DEF Fits, Launching
  <2> QED
    BY <2>2, <2>3, <2>4, ThreadBecomes
<1>3. ASSUME StopFails(a) \/ GivesUp(a) \/ StopRecords(a) \/ NewStopped(a) PROVE Leaves(a)
  <2>1. CASE StopFails(a)
    BY <2>1, LeaveLeaves DEF StopFails
  <2>2. CASE GivesUp(a)
    BY <2>2, LeaveLeaves DEF GivesUp
  <2>3. CASE StopRecords(a)
    BY <2>3, LeaveLeaves DEF StopRecords
  <2>4. CASE NewStopped(a)
    BY <2>4, LeaveLeaves DEF NewStopped
  <2> QED
    BY <1>3, <2>1, <2>2, <2>3, <2>4
<1>4. ASSUME StopEnds(a) PROVE Goes(a, "ending")
  <2>1. Go(a, "ending")
    BY <1>4 DEF StopEnds
  <2> QED
    BY <1>0, <2>1, GoGoes DEF Fits, Launching, Place
<1>5. ASSUME OldStopped(a) PROVE Goes(a, "negotiate")
  <2>1. Go(a, "negotiate") /\ thread[a].op = "restart"
    BY <1>5 DEF OldStopped
  <2> QED
    BY <1>0, <2>1, GoGoes DEF Fits, Launching, Place
<1> QED
  BY <1>1, <1>2, <1>3, <1>4, <1>5

(* The steps that give a thread its work, and those of the shutdown. *)
LEMMA CallingGoes ==
  ASSUME LifecycleTypes, ConstantsAssumption
  PROVE  /\ CallStart => \E r \in ThreadRecord : Becomes("operator", r) /\ r.op = "start" /\ r.at = "queued"
         /\ CallStop => IF record.running
                        THEN \E from \in ThreadRecord : Begins("operator", from) /\ from.op = "stop"
                        ELSE UNCHANGED <<proc, adopted, thread>>
         /\ \A a \in Thread : RestartBegins(a) =>
              \E r \in ThreadRecord : Becomes(a, r) /\ r.op = "restart" /\ r.at = "doctor"
         /\ CallInstall => \E r \in ThreadRecord : Becomes("operator", r) /\ r.op = "install" /\ r.at = "install"
         /\ Install => Leaves("operator")
         /\ MonitorLooks => Goes("monitor", "inspect")
         /\ MonitorPasses => Leaves("monitor")
<1> USE DEF LifecycleTypes
<1>0. /\ "operator" \in Thread /\ "monitor" \in Thread
      /\ Idle \in ThreadRecord
  BY ConstantsAssumption DEF Thread, Idle, ThreadRecord, Ops, Place, MayPid
<1>1. ASSUME CallStart
      PROVE  \E r \in ThreadRecord : Becomes("operator", r) /\ r.op = "start" /\ r.at = "queued"
  <2> DEFINE r == [Idle EXCEPT !.op = "start", !.at = "queued"]
  <2>1. r \in ThreadRecord /\ r.op = "start" /\ r.at = "queued"
    BY <1>0 DEF ThreadRecord, Ops, Place, Idle
  <2>2. thread' = [thread EXCEPT !["operator"] = r]
    BY <1>1 DEF CallStart
  <2> HIDE DEF r
  <2> QED
    BY <1>0, <2>1, <2>2, ThreadBecomes DEF Fits, Launching
<1>2. ASSUME CallStop
      PROVE  IF record.running
             THEN \E from \in ThreadRecord : Begins("operator", from) /\ from.op = "stop"
             ELSE UNCHANGED <<proc, adopted, thread>>
  <2>1. CASE record.running
    <3> DEFINE from == [Idle EXCEPT !.op = "stop"]
    <3>1. from \in ThreadRecord /\ from.op = "stop"
      BY <1>0 DEF ThreadRecord, Ops, Place, Idle
    <3>2. BeginStop("operator", from)
      BY <1>2, <2>1 DEF CallStop
    <3> HIDE DEF from
    <3> QED
      BY <1>0, <2>1, <3>1, <3>2, BeginStopBegins
  <2>2. CASE ~record.running
    BY <1>2, <2>2 DEF CallStop
  <2> QED
    BY <2>1, <2>2
<1>3. ASSUME NEW a \in Thread, RestartBegins(a)
      PROVE  \E r \in ThreadRecord : Becomes(a, r) /\ r.op = "restart" /\ r.at = "doctor"
  <2> DEFINE r == [Idle EXCEPT !.op = "restart", !.at = "doctor", !.was = record.running]
  <2>0. record.running \in BOOLEAN
    BY DEF StoreTyped, StoreRecord
  <2>1. r \in ThreadRecord /\ r.op = "restart" /\ r.at = "doctor"
    BY <1>0, <2>0 DEF ThreadRecord, Ops, Place, Idle
  <2>2. thread' = [thread EXCEPT ![a] = r]
    BY <1>3 DEF RestartBegins
  <2> HIDE DEF r
  <2> QED
    BY <2>1, <2>2, ThreadBecomes DEF Fits, Launching
<1>4. ASSUME CallInstall
      PROVE  \E r \in ThreadRecord : Becomes("operator", r) /\ r.op = "install" /\ r.at = "install"
  <2> DEFINE r == [Idle EXCEPT !.op = "install", !.at = "install"]
  <2>1. r \in ThreadRecord /\ r.op = "install" /\ r.at = "install"
    BY <1>0 DEF ThreadRecord, Ops, Place, Idle
  <2>2. thread' = [thread EXCEPT !["operator"] = r]
    BY <1>4 DEF CallInstall
  <2> HIDE DEF r
  <2> QED
    BY <1>0, <2>1, <2>2, ThreadBecomes DEF Fits, Launching
<1>5. ASSUME Install PROVE Leaves("operator")
  BY <1>0, <1>5, LeaveLeaves DEF Install
<1>6. ASSUME MonitorLooks PROVE Goes("monitor", "inspect")
  <2>1. Go("monitor", "inspect") /\ thread["monitor"] \in ThreadRecord /\ Fits("monitor", thread["monitor"])
    BY <1>0, <1>6 DEF MonitorLooks, Go, ThreadsTyped, ThreadsFit
  <2> QED
    BY <1>0, <2>1, GoGoes DEF Fits, Launching, Place
<1>7. ASSUME MonitorPasses PROVE Leaves("monitor")
  BY <1>0, <1>7, LeaveLeaves DEF MonitorPasses
<1> QED
  BY <1>1, <1>2, <1>3, <1>4, <1>5, <1>6, <1>7

LEMMA SupervisingGoes ==
  ASSUME LifecycleTypes, ConstantsAssumption, NEW r \in Restarter
  PROVE  /\ TimerFires(r) => \E x \in ThreadRecord : /\ Becomes(r, x)
                                                     /\ x.op = "supervise" /\ x.at \in {"blocked", "doctor"}
         /\ (Blocked(r) \/ Decide(r)) => Becomes(r, Idle)
<1> USE DEF LifecycleTypes
<1>0. r \in Thread /\ Idle \in ThreadRecord /\ timer \in 0 .. MaxAttempts
  BY ConstantsAssumption DEF Thread, Idle, ThreadRecord, Ops, Place, MayPid, StoreTyped
<1>1. ASSUME TimerFires(r)
      PROVE  \E x \in ThreadRecord : Becomes(r, x) /\ x.op = "supervise" /\ x.at \in {"blocked", "doctor"}
  <2> DEFINE x == [Idle EXCEPT !.op = "supervise", !.attempt = timer,
                     !.at = IF shutdownRequested \/ record.running THEN "blocked" ELSE "doctor"]
  <2>1. x \in ThreadRecord /\ x.op = "supervise" /\ x.at \in {"blocked", "doctor"} /\ ~x.was
    BY <1>0 DEF ThreadRecord, Ops, Place, Idle
  <2>2. thread' = [thread EXCEPT ![r] = x]
    BY <1>1 DEF TimerFires
  <2> HIDE DEF x
  <2> QED
    BY <1>0, <2>1, <2>2, ThreadBecomes DEF Fits, Launching
<1>2. ASSUME Blocked(r) \/ Decide(r) PROVE Becomes(r, Idle)
  <2>1. thread' = [thread EXCEPT ![r] = Idle]
    BY <1>2 DEF Blocked, Decide, Settled
  <2>2. Fits(r, Idle)
    BY DEF Fits, Idle, Launching
  <2> QED
    BY <1>0, <2>1, <2>2, ThreadBecomes
<1> QED
  BY <1>1, <1>2

LEMMA ShuttingDownGoes ==
  ASSUME LifecycleTypes, ConstantsAssumption
  PROVE  /\ ShutDown => \E r \in ThreadRecord : Becomes("shutdown", r) /\ r.op = "shutdown" /\ r.at = "monitor"
         /\ MonitorStops => Goes("shutdown", "pass")
         /\ Quiesce => \E r \in ThreadRecord : /\ Becomes("shutdown", r)
                                               /\ r.op = thread["shutdown"].op /\ r.at = "drain"
         /\ Drained => IF thread["shutdown"].was THEN Begins("shutdown", thread["shutdown"])
                       ELSE IF Tracked THEN Goes("shutdown", "pass") ELSE Goes("shutdown", "done")
         /\ PassEnds => Leaves("shutdown")
<1> USE DEF LifecycleTypes
<1>0. /\ "shutdown" \in Thread /\ Idle \in ThreadRecord
      /\ thread["shutdown"] \in ThreadRecord /\ Fits("shutdown", thread["shutdown"])
  BY ConstantsAssumption DEF Thread, Idle, ThreadRecord, Ops, Place, MayPid, ThreadsTyped, ThreadsFit
<1>1. ASSUME ShutDown
      PROVE  \E r \in ThreadRecord : Becomes("shutdown", r) /\ r.op = "shutdown" /\ r.at = "monitor"
  <2> DEFINE r == [Idle EXCEPT !.op = "shutdown", !.at = "monitor", !.ok = TRUE]
  <2>1. r \in ThreadRecord /\ r.op = "shutdown" /\ r.at = "monitor"
    BY <1>0 DEF ThreadRecord, Ops, Place, Idle
  <2>2. thread' = [thread EXCEPT !["shutdown"] = r]
    BY <1>1 DEF ShutDown
  <2> HIDE DEF r
  <2> QED
    BY <1>0, <2>1, <2>2, ThreadBecomes DEF Fits, Launching
<1>2. ASSUME MonitorStops PROVE Goes("shutdown", "pass")
  <2>1. Go("shutdown", "pass")
    BY <1>2 DEF MonitorStops
  <2> QED
    BY <1>0, <2>1, GoGoes DEF Fits, Launching, Place
<1>3. ASSUME Quiesce
      PROVE  \E r \in ThreadRecord : Becomes("shutdown", r) /\ r.op = thread["shutdown"].op /\ r.at = "drain"
  <2> DEFINE r == [thread["shutdown"] EXCEPT !.at = "drain", !.was = Tracked, !.drain = active]
  <2>1. Tracked \in BOOLEAN /\ active \in Restarter \cup {"none"}
    BY DEF Tracked, HasManagedProcess, StoreTyped
  <2>2. r \in ThreadRecord /\ r.op = thread["shutdown"].op /\ r.at = "drain"
    BY <1>0, <2>1 DEF ThreadRecord, Place
  <2>3. thread' = [thread EXCEPT !["shutdown"] = r]
    BY <1>0, <1>3 DEF Quiesce, ThreadsTyped, ThreadRecord
  <2> HIDE DEF r
  <2>4. Fits("shutdown", r)
    BY <1>0, <2>2 DEF Fits, Launching
  <2> QED
    BY <1>0, <2>2, <2>3, <2>4, ThreadBecomes
<1>4. ASSUME Drained
      PROVE  IF thread["shutdown"].was THEN Begins("shutdown", thread["shutdown"])
             ELSE IF Tracked THEN Goes("shutdown", "pass") ELSE Goes("shutdown", "done")
  <2>1. CASE thread["shutdown"].was
    BY <1>0, <1>4, <2>1, BeginStopBegins DEF Drained, Fits
  <2>2. CASE ~thread["shutdown"].was /\ Tracked
    <3>1. Go("shutdown", "pass")
      BY <1>4, <2>2 DEF Drained
    <3> QED
      BY <1>0, <2>2, <3>1, GoGoes DEF Fits, Launching, Place
  <2>3. CASE ~thread["shutdown"].was /\ ~Tracked
    <3>1. Go("shutdown", "done")
      BY <1>4, <2>3 DEF Drained
    <3> QED
      BY <1>0, <2>3, <3>1, GoGoes DEF Fits, Launching, Place
  <2> QED
    BY <2>1, <2>2, <2>3
<1>5. ASSUME PassEnds PROVE Leaves("shutdown")
  BY <1>0, <1>5, LeaveLeaves DEF PassEnds
<1> QED
  BY <1>1, <1>2, <1>3, <1>4, <1>5

-----------------------------------------------------------------------------
(* What the supervisor keeps has its type. *)

(* The steps of a thread that touch no process, table or finalizer. *)
Still(a) ==
  \/ DoctorRefuses(a) \/ EnterStart(a) \/ Negotiate(a) \/ Check(a) \/ Classify(a) \/ Clear(a)
  \/ SpawnFails(a) \/ Enrol(a) \/ Ready(a) \/ Own(a) \/ Settle(a)
  \/ Mark(a) \/ StopFails(a) \/ StopEnds(a) \/ StopRecords(a) \/ OldStopped(a) \/ NewStopped(a)

LEMMA StillIsStill ==
  ASSUME NEW a \in Thread, Still(a)
  PROVE  UNCHANGED <<live, proc, tables>>
BY DEF Still, DoctorRefuses, EnterStart, Negotiate, Check, Classify, Clear, SpawnFails, Enrol, Ready,
   Own, Settle, Mark, StopFails, StopEnds, StopRecords, OldStopped, NewStopped

(* A field of one process changes. *)
LEMMA ProcUpdates ==
  ASSUME proc \in [Pid -> ProcRecord], NEW p \in Pid
  PROVE  /\ \A stage \in {"launched", "tracked", "removed", "persisted", "done"} :
              [proc EXCEPT ![p].stage = stage] \in [Pid -> ProcRecord]
         /\ \A exit \in {"none", "crashed", "exited", "killed"} :
              [proc EXCEPT ![p].exit = exit] \in [Pid -> ProcRecord]
         /\ [proc EXCEPT ![p].stage = "done", ![p].exit = "killed"] \in [Pid -> ProcRecord]
         /\ \A n \in 0 .. MaxAttempts :
              [proc EXCEPT ![p].stage = "scheduling", ![p].attempt = n] \in [Pid -> ProcRecord]
<1>1. ASSUME NEW r \in ProcRecord PROVE [proc EXCEPT ![p] = r] \in [Pid -> ProcRecord]
  OBVIOUS
<1>2. proc[p] \in ProcRecord
  OBVIOUS
<1>3. \A stage \in {"launched", "tracked", "removed", "persisted", "done"} :
        [proc[p] EXCEPT !.stage = stage] \in ProcRecord
  BY <1>2 DEF ProcRecord
<1>4. \A exit \in {"none", "crashed", "exited", "killed"} :
        [proc[p] EXCEPT !.exit = exit] \in ProcRecord
  BY <1>2 DEF ProcRecord
<1>5. [proc[p] EXCEPT !.stage = "done", !.exit = "killed"] \in ProcRecord
  BY <1>2 DEF ProcRecord
<1>6. \A n \in 0 .. MaxAttempts : [proc[p] EXCEPT !.stage = "scheduling", !.attempt = n] \in ProcRecord
  BY <1>2 DEF ProcRecord
<1> QED
  BY <1>1, <1>2, <1>3, <1>4, <1>5, <1>6

LEMMA KilledTyped ==
  ASSUME ProcTyped, NEW p \in MayPid, Killed(p)
  PROVE  proc' \in [Pid -> ProcRecord]
<1>1. CASE p \in Pid
  BY <1>1 DEF Killed, ProcTyped, ProcRecord
<1>2. CASE p \notin Pid
  BY <1>2 DEF Killed, ProcTyped
<1> QED
  BY <1>1, <1>2

LEMMA ThreadKeepsProcTyped ==
  ASSUME LifecycleTypes, ConstantsAssumption, NEW a \in Thread, Step(a)
  PROVE  ProcTyped'
<1> USE DEF LifecycleTypes
<1>0. thread[a] \in ThreadRecord /\ Fits(a, thread[a]) /\ row \in RowRecord
  BY DEF ThreadsTyped, ThreadsFit, StoreTyped
<1>1. CASE Still(a)
  BY <1>1, StillIsStill DEF ProcTyped, tables
<1>2. CASE DoctorAllows(a)
  BY <1>2, PreparingGoes DEF DoctorAllows, ProcTyped, Begins
<1>3. CASE Adopt(a)
  BY <1>0, <1>3 DEF Adopt, ProcTyped, RowRecord
<1>4. CASE Spawn(a)
  <2>1. live' = live \cup {SpawnedPid} /\ proc' = [proc EXCEPT ![SpawnedPid].stage = "launched"]
        /\ UNCHANGED tables
    BY <1>4 DEF Spawn, SpawnedPid
  <2>2. proc' \in [Pid -> ProcRecord]
    BY <1>4, <2>1, SpawnBecomes, ProcUpdates DEF ProcTyped
  <2>3. live' \subseteq Pid
    BY <1>4, <2>1, SpawnBecomes DEF ProcTyped
  <2> QED
    BY <2>1, <2>2, <2>3 DEF ProcTyped, tables
<1>5. CASE Contain(a)
  <2>1. thread[a].pid \in Pid
    BY <1>0, <1>5 DEF Contain, Fits
  <2> QED
    BY <1>5, <2>1, ProcUpdates DEF Contain, Dies, ProcTyped, tables
<1>6. CASE Retain(a) \/ Activate(a)
  <2>1. thread[a].pid \in Pid
    BY <1>0, <1>6 DEF Retain, Activate, Fits, At
  <2>2. Track(thread[a].pid) /\ UNCHANGED live
    BY <1>6 DEF Retain, Activate
  <2> QED
    BY <2>1, <2>2, ProcUpdates DEF Track, ProcTyped, MayPid
<1>7. CASE Unready(a)
  BY <1>7, LaunchingGoes DEF Unready, ProcTyped, Begins
<1>8. CASE Kill(a)
  <2>1. thread[a].wait \in Pid
    BY <1>0, <1>8 DEF Kill, At, Fits
  <2> QED
    BY <1>8, <2>1, KilledTyped DEF Kill, ProcTyped, tables, MayPid
<1>9. CASE Expel(a)
  <2>1. thread[a].wait \in Pid
    BY <1>0, <1>9 DEF Expel, At, Fits
  <2> QED
    BY <1>9, <2>1, KilledTyped DEF Expel, AdoptedDone, NotAdopted, ProcTyped, MayPid
<1>10. CASE GivesUp(a)
  BY <1>10 DEF GivesUp, ProcTyped, MayPid
<1> QED
  BY <1>1, <1>2, <1>3, <1>4, <1>5, <1>6, <1>7, <1>8, <1>9, <1>10
  DEF Step, Doctoring, Preparing, Spawning, Confirming, Stopping, Still

LEMMA RestKeepsProcTyped ==
  ASSUME LifecycleTypes, ConstantsAssumption,
         \/ Calling \/ Install \/ MonitorLooks \/ Monitoring
         \/ \E p \in Pid : Exits(p) \/ Finalizing(p)
         \/ AdoptedExits
         \/ \E r \in Restarter : Supervising(r)
         \/ ShutDown \/ ShuttingDown
  PROVE  ProcTyped'
<1> USE DEF LifecycleTypes
<1>1. CASE CallStart \/ CallRestart \/ CallInstall \/ Install \/ MonitorLooks \/ Monitoring
  BY <1>1 DEF CallStart, CallRestart, CallInstall, Install, MonitorLooks, Monitoring, MonitorRestarts,
     MonitorPasses, RestartBegins, ProcTyped, tables
<1>2. CASE CallStop
  <2>1. CASE record.running
    BY <1>2, <2>1, CallingGoes DEF CallStop, ProcTyped, Begins
  <2>2. CASE ~record.running
    BY <1>2, <2>2 DEF CallStop, ProcTyped
  <2> QED
    BY <2>1, <2>2
<1>3. ASSUME NEW p \in Pid, Exits(p) PROVE ProcTyped'
  <2>1. PICK how \in {"crashed", "exited"} : proc' = [proc EXCEPT ![p].exit = how]
    BY <1>3 DEF Exits
  <2>2. proc' \in [Pid -> ProcRecord]
    BY <2>1, ProcUpdates DEF ProcTyped
  <2> QED
    BY <1>3, <2>2 DEF Exits, ProcTyped, tables
<1>4. ASSUME NEW p \in Pid, Finalizing(p) PROVE ProcTyped'
  <2>1. CASE Remove(p)
    <3>0. PICK stage \in {"done", "removed"} : proc' = [proc EXCEPT ![p].stage = stage]
      BY <2>1, Zenon DEF Remove
    <3>1. proc' \in [Pid -> ProcRecord]
      BY <3>0, ProcUpdates DEF ProcTyped
    <3> QED
      BY <2>1, <3>1 DEF Remove, Done, ProcTyped, MayPid
  <2>2. CASE PersistExit(p)
    BY <2>2, ProcUpdates DEF PersistExit, ProcTyped, tables
  <2>3. CASE Supervise(p)
    <3>1. CASE Blocks(p)
      <4>0. proc' = [proc EXCEPT ![p].stage = "done"]
        BY <2>3, <3>1 DEF Supervise
      <4>1. proc' \in [Pid -> ProcRecord]
        BY <4>0, ProcUpdates DEF ProcTyped
      <4> QED
        BY <2>3, <3>1, <4>1 DEF Supervise, Done, ProcTyped, MayPid
    <3>2. CASE ~Blocks(p)
      <4>1. record.attempts + 1 \in 0 .. MaxAttempts
        BY <3>2, ConstantsAssumption DEF Blocks, StoreTyped, StoreRecord
      <4>0. proc' = [proc EXCEPT ![p].stage = "scheduling", ![p].attempt = record.attempts + 1]
        BY <2>3, <3>2 DEF Supervise
      <4>2. proc' \in [Pid -> ProcRecord]
        BY <4>0, <4>1, ProcUpdates DEF ProcTyped
      <4> QED
        BY <2>3, <3>2, <4>2 DEF Supervise, ProcTyped
    <3> QED
      BY <3>1, <3>2
  <2>4. CASE Schedule(p)
    <3>1. proc' \in [Pid -> ProcRecord]
      BY <2>4, ProcUpdates DEF Schedule, ProcTyped
    <3> QED
      BY <2>4, <3>1 DEF Schedule, Done, ProcTyped, MayPid
  <2> QED
    BY <1>4, <2>1, <2>2, <2>3, <2>4 DEF Finalizing
<1>5. CASE AdoptedExits
  BY <1>5 DEF AdoptedExits, AdoptedDone, NotAdopted, ProcTyped, MayPid
<1>6. CASE \E r \in Restarter : Supervising(r)
  BY <1>6 DEF Supervising, TimerFires, Blocked, Decide, ProcTyped, tables
<1>7. CASE ShutDown \/ MonitorStops \/ Quiesce \/ PassEnds
  BY <1>7 DEF ShutDown, MonitorStops, Quiesce, PassEnds, ProcTyped, tables
<1>8. CASE Drained
  <2>1. CASE thread["shutdown"].was
    BY <1>8, <2>1, ShuttingDownGoes DEF Drained, ProcTyped, Begins
  <2>2. CASE ~thread["shutdown"].was
    BY <1>8, <2>2 DEF Drained, ProcTyped
  <2> QED
    BY <2>1, <2>2
<1> QED
  BY <1>1, <1>2, <1>3, <1>4, <1>5, <1>6, <1>7, <1>8 DEF Calling, ShuttingDown

-----------------------------------------------------------------------------
(* What the store, the registry and the plans keep has its type. *)
LEMMA SpendTypes ==
  ASSUME budget \in Budget, ConstantsAssumption,
         NEW what \in {"spawns", "exits", "commands", "rounds", "failures"}, Spend(what)
  PROVE  budget' \in Budget /\ (what # "spawns" => budget'.spawns = budget.spawns)
BY DEF Spend, Budget, ConstantsAssumption

LEMMA TransitionTypes ==
  ASSUME row \in RowRecord, NEW p, NEW state \in {"stopped", "running", "stopping"}
  PROVE  /\ Transition(p, state) \in RowRecord
         /\ Transition(p, state).pid = IF row.pid = p /\ state = "stopped" THEN None ELSE row.pid
BY DEF Transition, RowRecord, MayPid

LEMMA UnownedTypes == Unowned \in RowRecord
BY DEF Unowned, RowRecord, MayPid

LEMMA RecordTypes ==
  ASSUME record \in StoreRecord
  PROVE  /\ \A p \in MayPid : RunningAs(p) \in StoreRecord
         /\ \A how \in {"stopped", "crashed", "exited"} : EndedAs(how) \in StoreRecord
BY DEF RunningAs, EndedAs, StoreRecord, MayPid

LEMMA OverlapTypes ==
  ASSUME overlapped \in BOOLEAN, NEW a, NEW op, Overlap(a, op)
  PROVE  overlapped' \in BOOLEAN
BY DEF Overlap

LEMMA TakesBackTypes ==
  ASSUME timer \in 0 .. MaxAttempts, shutdownRequested \in BOOLEAN, ConstantsAssumption,
         NEW a, TakesBack(a)
  PROVE  timer' \in 0 .. MaxAttempts /\ shutdownRequested' \in BOOLEAN
<1>1. \/ timer' = timer /\ shutdownRequested' = shutdownRequested
      \/ timer' = 0 /\ shutdownRequested' = FALSE
  BY DEF TakesBack
<1>2. 0 \in 0 .. MaxAttempts
  BY DEF ConstantsAssumption
<1> QED
  BY <1>1, <1>2

LEMMA ThreadKeepsStoreTyped ==
  ASSUME LifecycleTypes, ConstantsAssumption, NEW a \in Thread, Step(a)
  PROVE  StoreTyped'
<1> USE DEF LifecycleTypes
<1>0. /\ thread[a] \in ThreadRecord /\ Fits(a, thread[a])
      /\ record \in StoreRecord /\ row \in RowRecord /\ budget \in Budget
      /\ None \in MayPid
  BY DEF ThreadsTyped, ThreadsFit, StoreTyped, MayPid
<1>1. CASE DoctorAllows(a) \/ Negotiate(a) \/ Check(a) \/ Classify(a) \/ SpawnFails(a) \/ Ready(a) \/ Unready(a)
           \/ Kill(a) \/ StopEnds(a)
  BY <1>1 DEF DoctorAllows, Negotiate, Check, Classify, SpawnFails, Ready, Unready, Kill, StopEnds,
     StoreTyped, plans, history
<1>2. CASE DoctorRefuses(a)
  BY <1>0, <1>2, SpendTypes DEF DoctorRefuses, StoreTyped, plans, history
<1>3. CASE EnterStart(a)
  <2>1. row' \in RowRecord
    BY <1>0, <1>3, TransitionTypes DEF EnterStart
  <2>2. timer' \in 0 .. MaxAttempts /\ shutdownRequested' \in BOOLEAN
    BY <1>3, TakesBackTypes DEF EnterStart, StoreTyped
  <2>3. overlapped' \in BOOLEAN
    BY <1>3, OverlapTypes DEF EnterStart, StoreTyped
  <2> QED
    BY <1>3, <2>1, <2>2, <2>3 DEF EnterStart, StoreTyped
<1>4. CASE Adopt(a)
  <2>1. record' \in StoreRecord
    BY <1>0, <1>4, RecordTypes DEF Adopt, RowRecord
  <2>2. timer' \in 0 .. MaxAttempts /\ shutdownRequested' \in BOOLEAN
    BY <1>4, TakesBackTypes DEF Adopt, StoreTyped
  <2>3. overlapped' \in BOOLEAN
    BY <1>4, OverlapTypes DEF Adopt, StoreTyped
  <2> QED
    BY <1>4, <2>1, <2>2, <2>3 DEF Adopt, StoreTyped
<1>5. CASE Clear(a)
  BY <1>5, UnownedTypes DEF Clear, StoreTyped, plans, history
<1>6. CASE Spawn(a)
  BY <1>6, SpawnBecomes DEF Spawn, StoreTyped, plans
<1>7. CASE Enrol(a)
  <2>1. thread[a].pid \in MayPid
    BY <1>0 DEF ThreadRecord
  <2>2. row' \in RowRecord
    BY <1>7, <2>1 DEF Enrol, RowRecord
  <2> QED
    BY <1>7, <2>2 DEF Enrol, StoreTyped, plans, history
<1>8. CASE Contain(a)
  <2>1. row' \in RowRecord
    BY <1>0, <1>8, TransitionTypes DEF Contain
  <2>2. budget' \in Budget
    BY <1>0, <1>8, SpendTypes DEF Contain
  <2> QED
    BY <1>8, <2>1, <2>2 DEF Contain, StoreTyped, plans, history
<1>9. CASE Retain(a) \/ Activate(a)
  <2>1. thread[a].pid \in MayPid
    BY <1>0 DEF ThreadRecord
  <2>2. record' \in StoreRecord
    BY <1>0, <1>9, <2>1, RecordTypes DEF Retain, Activate, Track
  <2>3. budget' \in Budget
    BY <1>0, <1>9, SpendTypes DEF Retain, Activate
  <2> QED
    BY <1>9, <2>2, <2>3 DEF Retain, Activate, Track, StoreTyped, plans, history
<1>10. CASE Own(a)
  BY <1>0, <1>10, TransitionTypes DEF Own, StoreTyped, plans, history
<1>11. CASE Settle(a)
  <2>1. thread[a].pid \in MayPid /\ Attempts(a) \in 0 .. MaxAttempts
    BY <1>0, ConstantsAssumption DEF ThreadRecord, Attempts, StoreRecord
  <2>2. HasManagedProcess \in BOOLEAN /\ (thread[a].op = "restart") \in BOOLEAN
    BY DEF HasManagedProcess
  <2>3. record' \in StoreRecord
    BY <1>0, <1>11, <2>1, <2>2 DEF Settle, StoreRecord
  <2> QED
    BY <1>11, <2>3 DEF Settle, StoreTyped, plans
<1>12. CASE Mark(a)
  BY <1>0, <1>12, TransitionTypes DEF Mark, StoreTyped, plans, history
<1>13. CASE Expel(a)
  <2>1. row' \in RowRecord
    BY <1>0, <1>13, TransitionTypes DEF Expel
  <2> QED
    BY <1>13, <2>1 DEF Expel, StoreTyped, plans, history
<1>14. CASE StopFails(a)
  BY <1>0, <1>14, SpendTypes DEF StopFails, StoreTyped, plans
<1>15. CASE GivesUp(a)
  <2>1. row' \in RowRecord
    BY <1>0, <1>15, UnownedTypes DEF GivesUp
  <2>2. budget' \in Budget
    BY <1>0, <1>15, SpendTypes DEF GivesUp
  <2> QED
    BY <1>15, <2>1, <2>2 DEF GivesUp, StoreTyped, plans
<1>16. CASE StopRecords(a) \/ OldStopped(a) \/ NewStopped(a)
  <2>1. record' \in StoreRecord
    BY <1>0, <1>16, RecordTypes DEF StopRecords, OldStopped, NewStopped
  <2> QED
    BY <1>16, <2>1 DEF StopRecords, OldStopped, NewStopped, StoreTyped, plans, history
<1> QED
  BY <1>1, <1>2, <1>3, <1>4, <1>5, <1>6, <1>7, <1>8, <1>9, <1>10, <1>11, <1>12, <1>13, <1>14, <1>15, <1>16
  DEF Step, Doctoring, Preparing, Spawning, Confirming, Stopping

LEMMA RestKeepsStoreTyped ==
  ASSUME LifecycleTypes, ConstantsAssumption,
         \/ Calling \/ Install \/ MonitorLooks \/ Monitoring
         \/ \E p \in Pid : Exits(p) \/ Finalizing(p)
         \/ AdoptedExits
         \/ \E r \in Restarter : Supervising(r)
         \/ ShutDown \/ ShuttingDown
  PROVE  StoreTyped'
<1> USE DEF LifecycleTypes
<1>0. /\ record \in StoreRecord /\ row \in RowRecord /\ budget \in Budget
      /\ None \in MayPid /\ 0 \in 0 .. MaxAttempts
  BY ConstantsAssumption DEF StoreTyped, MayPid
<1>1. CASE CallStart \/ CallInstall \/ MonitorLooks
  <2>1. budget' \in Budget
    BY <1>0, <1>1, SpendTypes DEF CallStart, CallInstall, Calls, MonitorLooks
  <2> QED
    BY <1>1, <2>1 DEF CallStart, CallInstall, Calls, MonitorLooks, StoreTyped, plans, history
<1>2. CASE CallStop
  <2>1. budget' \in Budget
    BY <1>0, <1>2, SpendTypes DEF CallStop, Calls
  <2>2. overlapped' \in BOOLEAN
    BY <1>2, OverlapTypes DEF CallStop, StoreTyped
  <2> QED
    BY <1>0, <1>2, <2>1, <2>2 DEF CallStop, StoreTyped
<1>3. ASSUME NEW a, RestartBegins(a), budget' \in Budget, intent' \in {intent, "wanted"} PROVE StoreTyped'
  <2>1. overlapped' \in BOOLEAN
    BY <1>3, OverlapTypes DEF RestartBegins, StoreTyped
  <2> QED
    BY <1>0, <1>3, <2>1 DEF RestartBegins, StoreTyped
<1>4. CASE CallRestart
  <2>1. budget' \in Budget
    BY <1>0, <1>4, SpendTypes DEF CallRestart, Calls
  <2> QED
    BY <1>3, <1>4, <2>1 DEF CallRestart
<1>5. CASE MonitorRestarts
  BY <1>0, <1>3, <1>5 DEF MonitorRestarts
<1>6. CASE Install
  <2>1. record' \in StoreRecord
    BY <1>0, <1>6 DEF Install, StoreRecord
  <2> QED
    BY <1>6, <2>1 DEF Install, StoreTyped, plans, history
<1>7. CASE MonitorPasses \/ ShutDown \/ MonitorStops \/ Drained \/ PassEnds
  BY <1>7 DEF MonitorPasses, ShutDown, MonitorStops, Drained, PassEnds, StoreTyped, plans, history
<1>8. ASSUME NEW p \in Pid, Exits(p) PROVE StoreTyped'
  BY <1>0, <1>8, SpendTypes DEF Exits, StoreTyped, plans, history
<1>9. ASSUME NEW p \in Pid, Finalizing(p) PROVE StoreTyped'
  <2>0. proc[p] \in ProcRecord
    BY DEF ProcTyped
  <2>1. CASE Remove(p)
    BY <1>0, <2>1, TransitionTypes DEF Remove, StoreTyped, plans, history
  <2>2. CASE PersistExit(p)
    <3>1. record' \in StoreRecord
      BY <1>0, <2>2, RecordTypes DEF PersistExit, Termination
    <3> QED
      BY <2>2, <3>1 DEF PersistExit, StoreTyped, plans, history
  <2>3. CASE Supervise(p)
    <3>1. CASE Blocks(p)
      BY <2>3, <3>1 DEF Supervise, StoreTyped, history
    <3>2. CASE ~Blocks(p)
      <4>1. record.attempts + 1 \in 0 .. MaxAttempts
        BY <3>2, ConstantsAssumption DEF Blocks, StoreTyped, StoreRecord
      <4>2. record' \in StoreRecord /\ timer' = 0
        BY <1>0, <2>3, <3>2, <4>1 DEF Supervise, StoreRecord
      <4> QED
        BY <1>0, <2>3, <3>2, <4>2 DEF Supervise, StoreTyped, history
    <3> QED
      BY <3>1, <3>2
  <2>4. CASE Schedule(p)
    BY <2>0, <2>4 DEF Schedule, ProcRecord, StoreTyped, history
  <2> QED
    BY <1>9, <2>1, <2>2, <2>3, <2>4 DEF Finalizing
<1>10. CASE AdoptedExits
  <2>1. row' \in RowRecord
    BY <1>0, <1>10, TransitionTypes DEF AdoptedExits
  <2>2. record' \in StoreRecord
    BY <1>0, <1>10, RecordTypes DEF AdoptedExits
  <2> QED
    BY <1>10, <2>1, <2>2 DEF AdoptedExits, StoreTyped, plans, history
<1>11. ASSUME NEW r \in Restarter, Supervising(r) PROVE StoreTyped'
  <2>0. r \in Thread
    BY DEF Thread
  <2>1. CASE TimerFires(r)
    BY <1>0, <2>1 DEF TimerFires, StoreTyped
  <2>2. CASE Blocked(r)
    BY <2>2 DEF Blocked, Settled, StoreTyped, history
  <2>3. CASE Decide(r)
    <3>1. record' \in StoreRecord
      BY <1>0, <2>0, <2>3 DEF Decide, ThreadsTyped, ThreadRecord, StoreRecord
    <3> QED
      BY <2>3, <3>1 DEF Decide, Settled, StoreTyped, history
  <2> QED
    BY <1>11, <2>1, <2>2, <2>3 DEF Supervising
<1>12. CASE Quiesce
  BY <1>0, <1>12 DEF Quiesce, StoreTyped, history
<1> QED
  BY <1>1, <1>2, <1>4, <1>5, <1>6, <1>7, <1>8, <1>9, <1>10, <1>11, <1>12
  DEF Calling, Monitoring, ShuttingDown

-----------------------------------------------------------------------------
(* The threads keep their types and fit their work. *)
LEMMA StepKeepsThreads ==
  ASSUME LifecycleTypes, ConstantsAssumption, NEW a \in Thread, Step(a)
  PROVE  ThreadsTyped' /\ ThreadsFit' /\ StartingTyped'
<1>0. StartingTyped /\ Fits(a, thread[a])
  BY DEF LifecycleTypes, ThreadsFit
<1>1. CASE DoctorAllows(a)
  <2>1. ThreadsTyped' /\ ThreadsFit'
    BY <1>1, PreparingGoes DEF Begins, Goes
  <2>2. thread[a].op # "restart" => a \in Restarter
    BY <1>0, <1>1 DEF DoctorAllows, At, Fits
  <2> QED
    BY <1>0, <1>1, <2>1, <2>2 DEF DoctorAllows, StartingTyped
<1>2. CASE DoctorRefuses(a) \/ Adopt(a)
  BY <1>2, PreparingGoes DEF Leaves
<1>3. CASE EnterStart(a) \/ Check(a) \/ Classify(a)
  BY <1>0, <1>3, PreparingGoes DEF EnterStart, Check, Classify, Leaves, Goes, StartingTyped
<1>4. CASE Clear(a)
  BY <1>0, <1>4, PreparingGoes DEF Clear, Goes, StartingTyped
<1>5. CASE Negotiate(a)
  BY <1>0, <1>5, NegotiateBecomes DEF Negotiate, Becomes, StartingTyped
<1>6. CASE Spawn(a)
  BY <1>0, <1>6, SpawnBecomes DEF Spawn, Becomes, StartingTyped
<1>7. CASE SpawnFails(a) \/ Contain(a) \/ Retain(a) \/ Settle(a)
  BY <1>7, LaunchingGoes DEF Leaves
<1>8. CASE Enrol(a) \/ Activate(a) \/ Ready(a) \/ Unready(a) \/ Own(a)
  BY <1>0, <1>8, LaunchingGoes DEF Enrol, Activate, Ready, Unready, Own, Goes, Begins, StartingTyped
<1>9. CASE Mark(a) \/ Kill(a) \/ Expel(a) \/ StopEnds(a) \/ OldStopped(a)
  BY <1>0, <1>9, StoppingGoes DEF Mark, Kill, Expel, StopEnds, OldStopped, Goes, Becomes, StartingTyped
<1>10. CASE StopFails(a) \/ GivesUp(a) \/ StopRecords(a) \/ NewStopped(a)
  BY <1>10, StoppingGoes DEF Leaves
<1> QED
  BY <1>1, <1>2, <1>3, <1>4, <1>5, <1>6, <1>7, <1>8, <1>9, <1>10
  DEF Step, Doctoring, Preparing, Spawning, Confirming, Stopping

LEMMA RestKeepsThreads ==
  ASSUME LifecycleTypes, ConstantsAssumption,
         \/ Calling \/ Install \/ MonitorLooks \/ Monitoring
         \/ \E p \in Pid : Exits(p) \/ Finalizing(p)
         \/ AdoptedExits
         \/ \E r \in Restarter : Supervising(r)
         \/ ShutDown \/ ShuttingDown
  PROVE  ThreadsTyped' /\ ThreadsFit' /\ StartingTyped'
<1>0. ThreadsTyped /\ ThreadsFit /\ StartingTyped /\ {"operator", "monitor"} \subseteq Thread
  BY DEF LifecycleTypes, Thread
<1>1. CASE CallStart
  BY <1>0, <1>1, CallingGoes DEF CallStart, Becomes, StartingTyped
<1>2. CASE CallStop
  BY <1>0, <1>2, CallingGoes DEF CallStop, Begins, ThreadsTyped, ThreadsFit, StartingTyped
<1>3. CASE CallRestart \/ MonitorRestarts
  BY <1>0, <1>3, CallingGoes DEF CallRestart, MonitorRestarts, RestartBegins, Becomes, StartingTyped
<1>4. CASE CallInstall
  BY <1>0, <1>4, CallingGoes DEF CallInstall, Becomes, StartingTyped
<1>5. CASE MonitorLooks
  BY <1>0, <1>5, CallingGoes DEF MonitorLooks, Goes, StartingTyped
<1>6. CASE Install \/ MonitorPasses
  BY <1>6, CallingGoes DEF Leaves
<1>7. CASE \E p \in Pid : Exits(p) \/ Finalizing(p)
  BY <1>0, <1>7 DEF Exits, Finalizing, Remove, PersistExit, Supervise, Schedule,
     ThreadsTyped, ThreadsFit, StartingTyped
<1>8. CASE AdoptedExits
  BY <1>0, <1>8 DEF AdoptedExits, ThreadsTyped, ThreadsFit, StartingTyped
<1>9. CASE \E r \in Restarter : Supervising(r)
  BY <1>0, <1>9, SupervisingGoes DEF Supervising, TimerFires, Blocked, Decide, Becomes, StartingTyped
<1>10. CASE ShutDown \/ MonitorStops \/ Quiesce
  BY <1>0, <1>10, ShuttingDownGoes DEF ShutDown, MonitorStops, Quiesce, Goes, Becomes, StartingTyped
<1>11. CASE Drained
  BY <1>0, <1>11, ShuttingDownGoes DEF Drained, Goes, Begins, StartingTyped
<1>12. CASE PassEnds
  BY <1>12, ShuttingDownGoes DEF Leaves
<1> QED
  BY <1>1, <1>2, <1>3, <1>4, <1>5, <1>6, <1>7, <1>8, <1>9, <1>10, <1>11, <1>12
  DEF Calling, Monitoring, ShuttingDown

LEMMA InitTypes == ASSUME Init, ConstantsAssumption PROVE LifecycleTypes
<1>1. Idle \in ThreadRecord /\ \A a \in Thread : Fits(a, Idle)
  BY ConstantsAssumption DEF Idle, ThreadRecord, Ops, Place, MayPid, Fits, Launching
<1>2. ThreadsTyped /\ ThreadsFit
  BY <1>1 DEF Init, ThreadsTyped, ThreadsFit
<1>3. ProcTyped
  BY ConstantsAssumption DEF Init, ProcTyped, ProcRecord, Unborn, MayPid, NotAdopted
<1>4. StoreTyped
  <2>1. record \in StoreRecord /\ timer \in 0 .. MaxAttempts
    BY ConstantsAssumption DEF Init, StoreRecord, MayPid
  <2>2. budget \in Budget
    BY ConstantsAssumption DEF Init, Budget
  <2> QED
    BY <2>1, <2>2, UnownedTypes DEF Init, StoreTyped
<1>5. StartingTyped
  BY DEF Init, StartingTyped
<1> QED
  BY <1>2, <1>3, <1>4, <1>5 DEF LifecycleTypes

LEMMA TypesStay == ASSUME LifecycleTypes, [Next]_vars, ConstantsAssumption PROVE LifecycleTypes'
<1>1. CASE \E a \in Thread : Step(a)
  BY <1>1, ThreadKeepsProcTyped, ThreadKeepsStoreTyped, StepKeepsThreads DEF LifecycleTypes
<1>2. CASE \/ Calling \/ Install \/ MonitorLooks \/ Monitoring
           \/ \E p \in Pid : Exits(p) \/ Finalizing(p)
           \/ AdoptedExits
           \/ \E r \in Restarter : Supervising(r)
           \/ ShutDown \/ ShuttingDown
  BY <1>2, RestKeepsProcTyped, RestKeepsStoreTyped, RestKeepsThreads DEF LifecycleTypes
<1>3. CASE UNCHANGED vars
  BY <1>3 DEF vars, tables, plans, history, LifecycleTypes, ThreadsTyped, ThreadsFit, StartingTyped,
     ProcTyped, StoreTyped
<1> QED
  BY <1>1, <1>2, <1>3 DEF Next

(* For every number of restarts, attempts and processes, every variable    *)
(* keeps its type; so no supervision plans an attempt beyond the policy's  *)
(* maximum (src/src/runtime/execution/supervisor.ts), and a table names    *)
(* only processes that can be.                                             *)
THEOREM LifecycleIsTyped == Spec => []TypeOK
<1>1. Init => LifecycleTypes
  BY InitTypes, ConstantsAssumption
<1>2. LifecycleTypes /\ [Next]_vars => LifecycleTypes'
  BY TypesStay, ConstantsAssumption
<1>3. LifecycleTypes => TypeOK
  BY TypesAreTypeOK
<1> QED
  BY <1>1, <1>2, <1>3, PTL DEF Spec

-----------------------------------------------------------------------------
(* The turns: a start or a supervised restart that is under way holds the  *)
(* turn of its service, and one that waits is in line for it.              *)
Holds(a) == Working(a) /\ thread[a].op \in {"start", "supervise"}
Turn == \A a \in Thread : Holds(a) => starting # << >> /\ Head(starting) = a
Waits == \A a \in Thread : At(a, "queued") => \E i \in 1 .. Len(starting) : starting[i] = a
TurnInv == Turn /\ Waits

LEMMA TurnLeaves ==
  ASSUME TurnInv, StartingTyped, NEW a \in Thread, Leaves(a)
  PROVE  TurnInv'
<1>1. ~Holds(a)' /\ thread'[a].at # "queued"
  BY DEF Leaves, Holds
<1>2. ASSUME NEW b \in Thread, b # a
      PROVE  /\ Holds(b)' = Holds(b) /\ thread'[b] = thread[b]
  BY <1>2 DEF Leaves, Holds, Working
<1>3. ASSUME NEW b \in Thread, Holds(b)' PROVE starting' # << >> /\ Head(starting') = b
  <2>1. b # a /\ Holds(b)
    BY <1>1, <1>2, <1>3
  <2>2. starting # << >> /\ Head(starting) = b
    BY <2>1 DEF TurnInv, Turn
  <2> QED
    BY <2>1, <2>2 DEF Leaves, PassedOn
<1>4. ASSUME NEW b \in Thread, At(b, "queued")' PROVE \E i \in 1 .. Len(starting') : starting'[i] = b
  <2>1. b # a /\ At(b, "queued")
    BY <1>1, <1>2, <1>4 DEF At
  <2>2. PICK i \in 1 .. Len(starting) : starting[i] = b
    BY <2>1 DEF TurnInv, Waits
  <2>3. CASE starting # << >> /\ Head(starting) = a
    <3>1. starting' = Tail(starting) /\ i # 1
      BY <2>1, <2>2, <2>3 DEF Leaves, PassedOn
    <3>2. i - 1 \in 1 .. Len(starting') /\ starting'[i - 1] = starting[i]
      BY <2>2, <2>3, <3>1 DEF StartingTyped
    <3> QED
      BY <2>2, <3>2
  <2>4. CASE ~(starting # << >> /\ Head(starting) = a)
    BY <2>2, <2>4 DEF Leaves, PassedOn
  <2> QED
    BY <2>3, <2>4
<1> QED
  BY <1>3, <1>4 DEF TurnInv, Turn, Waits

LEMMA TurnStays ==
  ASSUME TurnInv, NEW a \in Thread, starting' = starting,
         \A b \in Thread : b # a => thread'[b] = thread[b],
         Holds(a)' => Holds(a) \/ (starting # << >> /\ Head(starting) = a),
         thread'[a].at = "queued" => thread[a].at = "queued"
  PROVE  TurnInv'
<1>1. \A b \in Thread : b # a => Holds(b)' = Holds(b)
  BY DEF Holds, Working
<1> QED
  BY <1>1 DEF TurnInv, Turn, Waits, At

LEMMA TurnQueues ==
  ASSUME TurnInv, StartingTyped, NEW a \in {"operator"} \cup Restarter, a \in Thread,
         starting' = Append(starting, a),
         \A b \in Thread : b # a => thread'[b] = thread[b],
         ~Holds(a)'
  PROVE  TurnInv'
<1>1. \A b \in Thread : b # a => Holds(b)' = Holds(b)
  BY DEF Holds, Working
<1>2. /\ starting' # << >>
      /\ starting # << >> => Head(starting') = Head(starting)
      /\ Len(starting') = Len(starting) + 1
      /\ starting'[Len(starting) + 1] = a
      /\ \A i \in 1 .. Len(starting) : starting'[i] = starting[i]
  BY DEF StartingTyped
<1>3. Turn'
  BY <1>1, <1>2 DEF TurnInv, Turn
<1>4. ASSUME NEW b \in Thread, At(b, "queued")' PROVE \E i \in 1 .. Len(starting') : starting'[i] = b
  <2>0. Len(starting) \in Nat
    BY DEF StartingTyped
  <2>1. CASE b = a
    BY <1>2, <2>0, <2>1
  <2>2. CASE b # a
    <3>1. PICK i \in 1 .. Len(starting) : starting[i] = b
      BY <1>4, <2>2 DEF At, TurnInv, Waits
    <3>2. i \in 1 .. Len(starting')
      BY <1>2, <2>0, <3>1
    <3> QED
      BY <1>2, <3>1, <3>2
  <2> QED
    BY <2>1, <2>2
<1> QED
  BY <1>3, <1>4 DEF TurnInv, Waits

(* A thread goes on with the same work, from a place where it holds the    *)
(* turn if its work needs one.                                             *)
LEMMA TurnGoes ==
  ASSUME TurnInv, NEW a \in Thread, starting' = starting,
         thread'[a].op = thread[a].op,
         \A b \in Thread : b # a => thread'[b] = thread[b],
         thread[a].at \notin {"doctor", "queued", "blocked", "decide"},
         thread'[a].at # "queued"
  PROVE  TurnInv'
<1>1. Holds(a)' => Holds(a)
  BY DEF Holds, Working
<1> QED
  BY <1>1, TurnStays

LEMMA StepKeepsTurns ==
  ASSUME LifecycleTypes, ConstantsAssumption, TurnInv, NEW a \in Thread, Step(a)
  PROVE  TurnInv'
<1>0. StartingTyped /\ Fits(a, thread[a])
  BY DEF LifecycleTypes, ThreadsFit
<1>1. CASE DoctorAllows(a)
  <2>1. CASE thread[a].op = "restart"
    <3>1. thread'[a].op = "restart" /\ thread'[a].at # "queued" /\ starting' = starting
          /\ \A b \in Thread : b # a => thread'[b] = thread[b]
      BY <1>1, <2>1, PreparingGoes DEF DoctorAllows, Begins, Goes
    <3> QED
      BY <3>1, TurnStays DEF Holds
  <2>2. CASE thread[a].op # "restart"
    <3>1. /\ a \in Restarter /\ ~thread[a].was
          /\ starting' = Append(starting, a)
      BY <1>0, <1>1, <2>2 DEF DoctorAllows, At, Fits
    <3>2. Goes(a, "queued")
      BY <1>1, <2>2, <3>1, PreparingGoes
    <3>3. ~Holds(a)'
      BY <3>2, <2>2 DEF Goes, Holds, Working
    <3> QED
      BY <1>0, <3>1, <3>2, <3>3, TurnQueues DEF Goes
  <2> QED
    BY <2>1, <2>2
<1>2. CASE DoctorRefuses(a) \/ Adopt(a)
  BY <1>0, <1>2, PreparingGoes, TurnLeaves
<1>3. CASE EnterStart(a)
  <2>1. CASE record.running
    BY <1>0, <1>3, <2>1, PreparingGoes, TurnLeaves
  <2>2. CASE ~record.running
    <3>1. Goes(a, "negotiate") /\ starting' = starting
      BY <1>3, <2>2, PreparingGoes DEF EnterStart
    <3>2. starting # << >> /\ Head(starting) = a
      <4>1. At(a, "queued") /\ Head(starting) = a
        BY <1>3 DEF EnterStart, MyTurn
      <4>2. \E i \in 1 .. Len(starting) : starting[i] = a
        BY <4>1 DEF TurnInv, Waits
      <4> QED
        BY <1>0, <4>1, <4>2 DEF StartingTyped
    <3> QED
      BY <3>1, <3>2, TurnStays DEF Goes
  <2> QED
    BY <2>1, <2>2
<1>4. CASE Check(a)
  <2>1. CASE HasManagedProcess
    BY <1>0, <1>4, <2>1, PreparingGoes, TurnLeaves
  <2>2. CASE ~HasManagedProcess
    BY <1>4, <2>2, PreparingGoes, TurnGoes DEF Check, At, Goes
  <2> QED
    BY <2>1, <2>2
<1>5. CASE Classify(a)
  <2>1. CASE row.pid \in live
    BY <1>0, <1>5, <2>1, PreparingGoes, TurnLeaves
  <2>2. CASE row.pid \notin live
    BY <1>5, <2>2, PreparingGoes, TurnGoes DEF Classify, At, Goes
  <2> QED
    BY <2>1, <2>2
<1>6. CASE Clear(a)
  BY <1>6, PreparingGoes, TurnGoes DEF Clear, At, Goes
<1>7. CASE Negotiate(a)
  BY <1>7, NegotiateBecomes, TurnGoes DEF Negotiate, At, Becomes
<1>8. CASE Spawn(a)
  <2>1. thread[a].at = "spawn"
    BY <1>8 DEF Spawn, At
  <2> QED
    <3>1. PICK r \in ThreadRecord : /\ Becomes(a, r)
                                    /\ r.at = "enrol" /\ r.op = thread[a].op /\ r.pid = SpawnedPid
      BY <1>0, <1>8, SpawnBecomes
    <3>2. starting' = starting
      BY <1>8 DEF Spawn
    <3> QED
      BY <2>1, <3>1, <3>2, TurnGoes DEF Becomes
<1>9. CASE SpawnFails(a) \/ Contain(a) \/ Retain(a) \/ Settle(a)
  BY <1>0, <1>9, LaunchingGoes, TurnLeaves
<1>10. CASE Enrol(a) \/ Activate(a) \/ Ready(a) \/ Own(a)
  BY <1>10, LaunchingGoes, TurnGoes DEF Enrol, Activate, Ready, Own, At, Goes
<1>11. CASE Unready(a)
  BY <1>11, LaunchingGoes, TurnGoes DEF Unready, At, Begins
<1>12. CASE Mark(a)
  BY <1>12, StoppingGoes, TurnGoes DEF Mark, At, Goes
<1>13. CASE Kill(a) \/ Expel(a)
  <2>1. PICK r \in ThreadRecord : Becomes(a, r) /\ r.at = "await" /\ r.op = thread[a].op
    BY <1>0, <1>13, StoppingGoes
  <2>2. thread[a].at \in {"kill", "expel"} /\ starting' = starting
    BY <1>13 DEF Kill, Expel, At
  <2> QED
    BY <2>1, <2>2, TurnGoes DEF Becomes
<1>14. CASE StopFails(a) \/ GivesUp(a) \/ StopRecords(a) \/ NewStopped(a)
  BY <1>0, <1>14, StoppingGoes, TurnLeaves
<1>15. CASE StopEnds(a) \/ OldStopped(a)
  BY <1>15, StoppingGoes, TurnGoes DEF StopEnds, OldStopped, StoppedFor, At, Goes
<1> QED
  BY <1>1, <1>2, <1>3, <1>4, <1>5, <1>6, <1>7, <1>8, <1>9, <1>10, <1>11, <1>12, <1>13, <1>14, <1>15
  DEF Step, Doctoring, Preparing, Spawning, Confirming, Stopping

LEMMA RestKeepsTurns ==
  ASSUME LifecycleTypes, ConstantsAssumption, TurnInv,
         \/ Calling \/ Install \/ MonitorLooks \/ Monitoring
         \/ \E p \in Pid : Exits(p) \/ Finalizing(p)
         \/ AdoptedExits
         \/ \E r \in Restarter : Supervising(r)
         \/ ShutDown \/ ShuttingDown
  PROVE  TurnInv'
<1>0. StartingTyped /\ {"operator", "monitor", "shutdown"} \subseteq Thread
  BY DEF LifecycleTypes, Thread
<1>1. CASE CallStart
  <2>1. PICK r \in ThreadRecord : Becomes("operator", r) /\ r.op = "start" /\ r.at = "queued"
    BY <1>1, CallingGoes
  <2>2. ~Holds("operator")'
    BY <2>1 DEF Becomes, Holds, Working
  <2>3. starting' = Append(starting, "operator")
    BY <1>1 DEF CallStart
  <2> QED
    BY <1>0, <2>1, <2>2, <2>3, TurnQueues DEF Becomes
<1>2. CASE CallStop
  <2>1. CASE record.running
    BY <1>0, <1>2, <2>1, CallingGoes, TurnStays DEF CallStop, Begins, Holds
  <2>2. CASE ~record.running
    BY <1>0, <1>2, <2>2, CallingGoes, TurnStays DEF CallStop, Holds, Working
  <2> QED
    BY <2>1, <2>2
<1>3. CASE CallRestart
  BY <1>0, <1>3, CallingGoes, TurnStays DEF CallRestart, RestartBegins, Becomes, Holds
<1>4. CASE MonitorRestarts
  BY <1>0, <1>4, CallingGoes, TurnStays DEF MonitorRestarts, RestartBegins, Becomes, Holds
<1>5. CASE CallInstall
  BY <1>0, <1>5, CallingGoes, TurnStays DEF CallInstall, Becomes, Holds
<1>6. CASE MonitorLooks
  BY <1>0, <1>6, CallingGoes, TurnGoes DEF MonitorLooks, At, Goes
<1>7. CASE Install \/ MonitorPasses
  BY <1>0, <1>7, CallingGoes, TurnLeaves
<1>8. CASE (\E p \in Pid : Exits(p) \/ Finalizing(p)) \/ AdoptedExits
  <2>1. thread' = thread /\ starting' = starting
    BY <1>8 DEF Exits, Finalizing, Remove, PersistExit, Supervise, Schedule, AdoptedExits
  <2> QED
    BY <1>0, <2>1, TurnStays DEF Holds, Working
<1>9. ASSUME NEW r \in Restarter, Supervising(r) PROVE TurnInv'
  <2>0. r \in Thread
    BY DEF Thread
  <2>1. CASE TimerFires(r)
    <3>1. PICK x \in ThreadRecord : Becomes(r, x) /\ x.op = "supervise" /\ x.at \in {"blocked", "doctor"}
      BY <2>1, SupervisingGoes
    <3>2. ~Holds(r)' /\ starting' = starting
      BY <2>1, <3>1 DEF Becomes, Holds, Working, TimerFires
    <3> QED
      BY <2>0, <3>1, <3>2, TurnStays DEF Becomes
  <2>2. CASE Blocked(r) \/ Decide(r)
    <3>1. Becomes(r, Idle) /\ starting' = starting
      BY <2>2, SupervisingGoes DEF Blocked, Decide
    <3>2. ~Holds(r)' /\ thread'[r].at # "queued"
      BY <3>1 DEF Becomes, Holds, Idle
    <3> QED
      BY <2>0, <3>1, <3>2, TurnStays DEF Becomes
  <2> QED
    BY <1>9, <2>1, <2>2 DEF Supervising
<1>10. CASE ShutDown
  BY <1>0, <1>10, ShuttingDownGoes, TurnStays DEF ShutDown, Becomes, Holds
<1>11. CASE MonitorStops
  BY <1>0, <1>11, ShuttingDownGoes, TurnGoes DEF MonitorStops, At, Goes
<1>12. CASE Quiesce
  BY <1>0, <1>12, ShuttingDownGoes, TurnGoes DEF Quiesce, At, Becomes
<1>13. CASE Drained
  BY <1>0, <1>13, ShuttingDownGoes, TurnGoes DEF Drained, At, Goes, Begins
<1>14. CASE PassEnds
  BY <1>0, <1>14, ShuttingDownGoes, TurnLeaves
<1> QED
  BY <1>1, <1>2, <1>3, <1>4, <1>5, <1>6, <1>7, <1>8, <1>9, <1>10, <1>11, <1>12, <1>13, <1>14
  DEF Calling, Monitoring, ShuttingDown

-----------------------------------------------------------------------------
(***************************************************************************)
(* One process, as long as no restart ran together with another launch or  *)
(* stop.  A process that runs is managed, or is in the hands of the one    *)
(* thread that has launched it; that thread found nothing managed and lets *)
(* nothing else be launched before its process is.                         *)
(***************************************************************************)
Alone == \A a, b \in Thread : a # b /\ Working(a) /\ Working(b) => thread[a].op # "restart"
Cleared ==
  \A a \in Thread : thread[a].at \in {"owner", "clear", "spawn", "enrol", "activate"} => managed = None
NoneAdopted == adopted.pid = None /\ \A a \in Thread : thread[a].at # "expel"
Launched ==
  \A a \in Thread : thread[a].at \in {"enrol", "activate"} => proc[thread[a].pid].stage = "launched"
ManagedTracked == managed # None => proc[managed].stage = "tracked"
InHands(p) == \E a \in Thread : thread[a].at \in {"enrol", "activate"} /\ thread[a].pid = p
LiveKnown == \A p \in live : managed = p \/ InHands(p)
(* The registry names it too, unless something has failed. *)
Enrolled ==
  degraded = {} => \A a \in Thread : At(a, "activate") /\ thread[a].pid \in live => row.pid = thread[a].pid
Registered == (degraded = {} /\ managed \in live) => row.pid = managed
(* What is to be killed has been marked as stopping first. *)
Marked ==
  \A a \in Thread : thread[a].at \in {"mark", "kill"} =>
    /\ proc[thread[a].wait].stage \notin {"unborn", "launched"}
    /\ proc[thread[a].wait].stopping
KilledWasStopped ==
  \A p \in Pid : proc[p].exit = "killed" =>
    proc[p].stage = "done" \/ (proc[p].stage = "tracked" /\ proc[p].stopping)
Fresh == \A p \in Pid : p > MaxSpawns - budget.spawns => proc[p] = Unborn

Sole ==
  /\ Alone /\ Cleared /\ NoneAdopted /\ Launched /\ ManagedTracked /\ LiveKnown
  /\ Enrolled /\ Registered /\ Marked /\ KilledWasStopped /\ Fresh
SoleInv == LifecycleTypes /\ TurnInv /\ (overlapped \/ Sole)

(* One launch is under way at a time. *)
LEMMA OneLaunch ==
  ASSUME LifecycleTypes, TurnInv, Alone, NEW a \in Thread, NEW b \in Thread,
         thread[a].at \in Launching, thread[b].at \in Launching
  PROVE  a = b
<1>1. Fits(a, thread[a]) /\ Fits(b, thread[b])
  BY DEF LifecycleTypes, ThreadsFit
<1>2. Working(a) /\ Working(b)
  BY <1>1 DEF Fits, Working, Launching
<1>3. CASE thread[a].op = "restart" \/ thread[b].op = "restart"
  BY <1>2, <1>3 DEF Alone
<1>4. CASE thread[a].op # "restart" /\ thread[b].op # "restart"
  BY <1>1, <1>2, <1>4 DEF Fits, Holds, TurnInv, Turn
<1> QED
  BY <1>3, <1>4

(* What a step that launches and ends no process does to the tables. *)
QuietWorld ==
  /\ live' = live /\ managed' = managed /\ adopted'.pid = adopted.pid
  /\ \A p \in Pid : /\ proc'[p].stage = proc[p].stage /\ proc'[p].exit = proc[p].exit
                    /\ proc[p].stopping => proc'[p].stopping
                    /\ p # managed => proc'[p] = proc[p]
  /\ budget'.spawns = budget.spawns
  /\ degraded \subseteq degraded'
  /\ row'.pid = row.pid \/ row.pid \notin live \/ degraded' # {}

(* And to its thread. *)
QuietThread(a) ==
  /\ \A b \in Thread : b # a => thread'[b] = thread[b]
  /\ \/ ~Working(a)'
     \/ Working(a) /\ thread'[a].op = thread[a].op
     \/ \A b \in Thread \ {a} : Working(b) => thread'[a].op # "restart" /\ thread[b].op # "restart"
  /\ thread[a].at \notin {"enrol", "activate"}
  /\ thread'[a].at \notin {"enrol", "activate", "expel"}
  /\ thread'[a].at \in {"owner", "clear", "spawn"} => managed = None
  /\ thread'[a].at \in {"mark", "kill"} =>
       /\ proc'[thread'[a].wait].stage \notin {"unborn", "launched"}
       /\ proc'[thread'[a].wait].stopping

LEMMA QuietKeepsSole ==
  ASSUME LifecycleTypes, LifecycleTypes', Sole, NEW a \in Thread, QuietWorld, QuietThread(a)
  PROVE  Sole'
<1> USE DEF Sole
<1>0. \A b \in Thread : b # a => (Working(b)' <=> Working(b)) /\ thread'[b].op = thread[b].op
  BY DEF QuietThread, Working
<1>1. Alone'
  <2> SUFFICES ASSUME NEW x \in Thread, NEW y \in Thread, x # y, Working(x)', Working(y)'
               PROVE  thread'[x].op # "restart"
    BY DEF Alone
  <2>1. CASE x # a /\ y # a
    BY <1>0, <2>1 DEF Alone
  <2>2. CASE x = a
    BY <1>0, <2>2 DEF QuietThread, Alone
  <2>3. CASE y = a
    BY <1>0, <2>3 DEF QuietThread, Alone
  <2> QED
    BY <2>1, <2>2, <2>3
<1>2. Cleared'
  BY DEF Cleared, QuietWorld, QuietThread
<1>3. NoneAdopted'
  BY DEF NoneAdopted, QuietWorld, QuietThread
<1>4. Launched'
  <2> SUFFICES ASSUME NEW b \in Thread, thread'[b].at \in {"enrol", "activate"}
               PROVE  proc'[thread'[b].pid].stage = "launched"
    BY DEF Launched
  <2>1. b # a /\ thread'[b] = thread[b]
    BY DEF QuietThread
  <2>2. thread[b].pid \in Pid /\ proc[thread[b].pid].stage = "launched"
    BY <2>1 DEF Launched, LifecycleTypes, ThreadsFit, Fits
  <2> QED
    BY <2>1, <2>2 DEF QuietWorld
<1>5. ManagedTracked'
  BY DEF ManagedTracked, QuietWorld, LifecycleTypes, ProcTyped, MayPid
<1>6. LiveKnown'
  BY DEF LiveKnown, InHands, QuietWorld, QuietThread
<1>7. Enrolled'
  <2> SUFFICES ASSUME NEW b \in Thread, thread'[b].at = "activate", thread'[b].pid \in live', degraded' = {}
               PROVE  row'.pid = thread'[b].pid
    BY DEF Enrolled, At
  <2>1. b # a /\ thread'[b] = thread[b] /\ degraded = {} /\ live' = live
    BY DEF QuietThread, QuietWorld
  <2>2. row.pid = thread[b].pid
    BY <2>1 DEF Enrolled, At
  <2> QED
    BY <2>1, <2>2 DEF QuietWorld
<1>8. Registered'
  BY DEF Registered, QuietWorld
<1>9. Marked'
  <2> SUFFICES ASSUME NEW b \in Thread, thread'[b].at \in {"mark", "kill"}
               PROVE  /\ proc'[thread'[b].wait].stage \notin {"unborn", "launched"}
                      /\ proc'[thread'[b].wait].stopping
    BY DEF Marked
  <2>1. CASE b = a
    BY <2>1 DEF QuietThread
  <2>2. CASE b # a
    <3>1. thread'[b] = thread[b]
      BY <2>2 DEF QuietThread
    <3>2. thread[b].wait \in Pid
      BY <3>1 DEF LifecycleTypes, ThreadsFit, Fits
    <3> QED
      BY <3>1, <3>2 DEF QuietWorld, Marked
  <2> QED
    BY <2>1, <2>2
<1>10. KilledWasStopped'
  BY DEF KilledWasStopped, QuietWorld
<1>11. Fresh'
  <2> SUFFICES ASSUME NEW p \in Pid, p > MaxSpawns - budget'.spawns PROVE proc'[p] = Unborn
    BY DEF Fresh
  <2>1. proc[p] = Unborn
    BY DEF Fresh, QuietWorld
  <2>2. p # managed
    BY <2>1 DEF ManagedTracked, Unborn, Pid, None
  <2> QED
    BY <2>1, <2>2 DEF QuietWorld
<1> QED
  BY <1>1, <1>2, <1>3, <1>4, <1>5, <1>6, <1>7, <1>8, <1>9, <1>10, <1>11

(* The kinds of quiet steps. *)
LEMMA LeavesQuietly ==
  ASSUME NEW a \in Thread, Leaves(a), thread[a].at \notin {"enrol", "activate"}
  PROVE  QuietThread(a)
BY DEF Leaves, QuietThread

LEMMA GoesQuietly ==
  ASSUME NEW a \in Thread, NEW place, Goes(a, place),
         place \in Launching \cup {"queued", "ending", "inspect", "pass", "done"},
         place \notin {"enrol", "activate"},
         place \in {"owner", "clear", "spawn"} => managed = None,
         thread[a].at \notin {"enrol", "activate"},
         place # "queued" =>
           \/ thread[a].at \notin {"doctor", "queued", "blocked", "decide"}
           \/ thread[a].op = "restart"
           \/ \A b \in Thread \ {a} : Working(b) => thread[a].op # "restart" /\ thread[b].op # "restart",
         place = "queued" => thread[a].op # "restart" /\ thread[a].op # "stop"
  PROVE  QuietThread(a)
BY DEF Goes, QuietThread, Working, Launching

(* A stop begins: what it marks is managed. *)
LEMMA BeginsQuietly ==
  ASSUME LifecycleTypes, Sole, NEW a \in Thread, NEW from \in ThreadRecord, Begins(a, from),
         thread[a].at \notin {"enrol", "activate"},
         \/ from.op \in {"none", "install", "shutdown"}
         \/ Working(a) /\ from.op = thread[a].op
         \/ \A b \in Thread \ {a} : Working(b) => from.op # "restart" /\ thread[b].op # "restart"
  PROVE  QuietThread(a)
<1>1. ASSUME thread'[a].at = "mark"
      PROVE  /\ proc'[thread'[a].wait].stage \notin {"unborn", "launched"}
             /\ proc'[thread'[a].wait].stopping
  <2>1. managed # None /\ thread'[a].wait = managed
    BY <1>1 DEF Begins, StopTarget, HasManagedProcess, Sole, NoneAdopted
  <2>2. managed \in Pid /\ proc[managed].stage = "tracked"
    BY <2>1 DEF Sole, ManagedTracked, LifecycleTypes, ProcTyped, MayPid
  <2> QED
    BY <2>1, <2>2 DEF Begins
<1> QED
  BY <1>1 DEF Begins, QuietThread, Working

LEMMA BeginsQuietWorld ==
  ASSUME NEW a \in Thread, NEW from, Begins(a, from), live' = live, managed' = managed,
         budget'.spawns = budget.spawns, degraded \subseteq degraded', row' = row
  PROVE  QuietWorld
BY DEF Begins, QuietWorld

LEMMA StillWorld ==
  ASSUME UNCHANGED <<live, proc, tables>>, budget'.spawns = budget.spawns, degraded \subseteq degraded',
         row'.pid = row.pid \/ row.pid \notin live \/ degraded' # {}
  PROVE  QuietWorld
BY DEF QuietWorld, tables

(* The quiet steps of a launch and of a stop. *)
LEMMA PreparingKeepsSole ==
  ASSUME LifecycleTypes, LifecycleTypes', ConstantsAssumption, TurnInv, Sole, NEW a \in Thread,
         Doctoring(a) \/ Preparing(a), ~overlapped'
  PROVE  Sole'
<1>0. thread[a] \in ThreadRecord /\ Fits(a, thread[a])
  BY DEF LifecycleTypes, ThreadsTyped, ThreadsFit
<1>1. CASE DoctorAllows(a)
  <2>1. At(a, "doctor") /\ (thread[a].op = "restart" => Working(a))
    BY <1>1 DEF DoctorAllows, Working
  <2>2. CASE thread[a].was
    <3>1. Begins(a, thread[a]) /\ Working(a)
      BY <1>0, <1>1, <2>1, <2>2, PreparingGoes DEF Fits, At
    <3>2. QuietWorld
      BY <1>1, <3>1, BeginsQuietWorld DEF DoctorAllows, history
    <3> QED
      BY <1>0, <2>1, <3>1, <3>2, BeginsQuietly, QuietKeepsSole DEF At
  <2>3. CASE ~thread[a].was
    <3>1. QuietThread(a)
      BY <1>0, <1>1, <2>1, <2>3, PreparingGoes, GoesQuietly DEF At, Fits, Launching
    <3>2. QuietWorld
      BY <1>1, <2>3, StillWorld DEF DoctorAllows, history, tables
    <3> QED
      BY <3>1, <3>2, QuietKeepsSole
  <2> QED
    BY <2>2, <2>3
<1>2. CASE DoctorRefuses(a)
  <2>1. QuietThread(a)
    BY <1>2, PreparingGoes, LeavesQuietly DEF DoctorRefuses, At
  <2>2. QuietWorld
    BY <1>2, StillWorld, SpendTypes DEF DoctorRefuses, history, LifecycleTypes, StoreTyped
  <2> QED
    BY <2>1, <2>2, QuietKeepsSole
<1>3. CASE EnterStart(a)
  <2>1. \A b \in Thread \ {a} : Working(b) => thread[a].op # "restart" /\ thread[b].op # "restart"
    BY <1>3 DEF EnterStart, Overlap
  <2>2. QuietThread(a)
    <3>1. CASE record.running
      BY <1>3, <3>1, PreparingGoes, LeavesQuietly DEF EnterStart, MyTurn, At
    <3>2. CASE ~record.running
      BY <1>3, <2>1, <3>2, PreparingGoes, GoesQuietly DEF EnterStart, MyTurn, At, Launching
    <3> QED
      BY <3>1, <3>2
  <2>3. row'.pid = row.pid \/ row.pid \notin live
    BY <1>3 DEF EnterStart, OwnedByOthers
  <2>4. QuietWorld
    BY <1>3, <2>3, StillWorld DEF EnterStart
  <2> QED
    BY <2>2, <2>4, QuietKeepsSole
<1>4. CASE Adopt(a)
  <2>1. /\ row.pid \in live /\ managed = None
        /\ Head(starting) = a /\ At(a, "queued")
        /\ \A b \in Thread \ {a} : Working(b) => thread[b].op # "restart"
    BY <1>4 DEF Adopt, OwnedByOthers, HasManagedProcess, MyTurn, Overlap
  <2>0. row.pid # managed
    BY <2>1 DEF LifecycleTypes, ProcTyped, Pid, None
  <2>2. PICK b \in Thread : thread[b].at \in {"enrol", "activate"} /\ thread[b].pid = row.pid
    BY <2>0, <2>1 DEF Sole, LiveKnown, InHands
  <2>3. b # a /\ Working(b) /\ thread[b].op \in {"start", "supervise"}
    <3>1. Fits(b, thread[b])
      BY DEF LifecycleTypes, ThreadsFit
    <3> QED
      BY <2>1, <2>2, <3>1 DEF Fits, Launching, Working, At
  <2> QED
    BY <2>1, <2>3 DEF TurnInv, Turn, Holds
<1>5. CASE Negotiate(a)
  <2>1. Working(a)
    BY <1>0, <1>5 DEF Negotiate, At, Fits, Launching, Working
  <2>2. QuietThread(a)
    BY <1>5, <2>1, NegotiateBecomes DEF Negotiate, At, Becomes, QuietThread
  <2>3. QuietWorld
    BY <1>5, StillWorld DEF Negotiate, history
  <2> QED
    BY <2>2, <2>3, QuietKeepsSole
<1>6. CASE Check(a)
  <2>1. QuietThread(a)
    <3>1. CASE HasManagedProcess
      BY <1>6, <3>1, PreparingGoes, LeavesQuietly DEF Check, At
    <3>2. CASE ~HasManagedProcess
      BY <1>6, <3>2, PreparingGoes, GoesQuietly DEF Check, At, Launching, HasManagedProcess
    <3> QED
      BY <3>1, <3>2
  <2>2. QuietWorld
    BY <1>6, StillWorld DEF Check, history
  <2> QED
    BY <2>1, <2>2, QuietKeepsSole
<1>7. CASE Classify(a)
  <2>0. At(a, "owner") /\ managed = None
    BY <1>7 DEF Classify, At, Sole, Cleared
  <2>1. QuietThread(a)
    <3>1. CASE row.pid \in live
      BY <1>7, <2>0, <3>1, PreparingGoes, LeavesQuietly DEF At
    <3>2. CASE row.pid \notin live
      BY <1>7, <2>0, <3>2, PreparingGoes, GoesQuietly DEF At, Launching
    <3> QED
      BY <3>1, <3>2
  <2>2. QuietWorld
    BY <1>7, StillWorld DEF Classify, history
  <2> QED
    BY <2>1, <2>2, QuietKeepsSole
<1>8. CASE Clear(a)
  <2>0. At(a, "clear") /\ managed = None
    BY <1>8 DEF Clear, At, Sole, Cleared
  <2>1. QuietThread(a)
    BY <1>8, <2>0, PreparingGoes, GoesQuietly DEF At, Launching
  <2>2. row.pid \notin live
    <3>1. ASSUME row.pid \in live PROVE FALSE
      <4>0. row.pid # managed
        BY <2>0, <3>1 DEF LifecycleTypes, ProcTyped, Pid, None
      <4>1. PICK b \in Thread : thread[b].at \in {"enrol", "activate"} /\ thread[b].pid = row.pid
        BY <3>1, <4>0 DEF Sole, LiveKnown, InHands
      <4> QED
        BY <2>0, <4>1, OneLaunch DEF At, Launching, Sole
    <3> QED
      BY <3>1
  <2>3. QuietWorld
    BY <1>8, <2>2, StillWorld DEF Clear, history
  <2> QED
    BY <2>1, <2>3, QuietKeepsSole
<1> QED
  BY <1>1, <1>2, <1>3, <1>4, <1>5, <1>6, <1>7, <1>8 DEF Doctoring, Preparing

LEMMA StoppingKeepsSole ==
  ASSUME LifecycleTypes, LifecycleTypes', ConstantsAssumption, TurnInv, Sole, NEW a \in Thread, Stopping(a)
  PROVE  Sole'
<1>0. /\ thread[a] \in ThreadRecord /\ Fits(a, thread[a])
      /\ row \in RowRecord /\ budget \in Budget
      /\ thread[a].at # "expel"
  BY DEF LifecycleTypes, ThreadsTyped, ThreadsFit, StoreTyped, Sole, NoneAdopted
<1>1. CASE Mark(a)
  <2>1. At(a, "mark") /\ thread[a].wait \in Pid
    BY <1>0, <1>1 DEF Mark, At, Fits
  <2>2. Goes(a, "kill")
    BY <1>1, <2>1, StoppingGoes DEF Sole, NoneAdopted, Pid, None
  <2>3. QuietWorld
    BY <1>0, <1>1, TransitionTypes, StillWorld DEF Mark, history
  <2>4. /\ proc'[thread'[a].wait].stage \notin {"unborn", "launched"}
        /\ proc'[thread'[a].wait].stopping
    BY <1>1, <2>1, <2>2 DEF Mark, Goes, Sole, Marked, At
  <2>5. QuietThread(a)
    BY <2>1, <2>2, <2>4 DEF Goes, QuietThread, Working, At
  <2> QED
    BY <2>3, <2>5, QuietKeepsSole
<1>2. CASE Kill(a)
  <2>1. /\ thread[a].at = "kill" /\ thread[a].wait \in Pid
        /\ proc[thread[a].wait].stage \notin {"unborn", "launched"}
        /\ proc[thread[a].wait].stopping
    BY <1>0, <1>2 DEF Kill, At, Fits, Sole, Marked
  <2> DEFINE w == thread[a].wait
  <2>2. /\ live' = live \ {w} /\ UNCHANGED <<tables, row, starting, budget, degraded>>
        /\ Killed(w)
    BY <1>2 DEF Kill, history
  <2>3. \A p \in Pid : /\ proc'[p].stage = proc[p].stage /\ proc'[p].stopping = proc[p].stopping
                       /\ p # w => proc'[p] = proc[p]
                       /\ w \notin live => proc'[p] = proc[p]
    <3>1. proc \in [Pid -> ProcRecord] /\ w \in Pid
      BY <2>1 DEF LifecycleTypes, ProcTyped
    <3>2. proc[w] \in ProcRecord
      BY <3>1
    <3>3. PICK exit : proc' = [proc EXCEPT ![w] = [proc[w] EXCEPT !.exit = exit]] /\ (w \notin live => exit = proc[w].exit)
      BY <2>2 DEF Killed
    <3> QED
      BY <3>1, <3>2, <3>3 DEF ProcRecord
  <2>4. PICK r \in ThreadRecord : Becomes(a, r) /\ r.at = "await" /\ r.op = thread[a].op
    BY <1>2, StoppingGoes
  <2>5. /\ \A b \in Thread : b # a => thread'[b] = thread[b]
        /\ thread'[a].at = "await" /\ thread'[a].op = thread[a].op
    BY <2>4 DEF Becomes
  <2>6. w \in live => proc[w].stage = "tracked"
    <3>1. ASSUME w \in live PROVE managed = w
      <4>1. CASE InHands(w)
        BY <2>1, <4>1 DEF InHands, Sole, Launched
      <4> QED
        BY <3>1, <4>1 DEF Sole, LiveKnown
    <3> QED
      BY <3>1, <2>1 DEF Sole, ManagedTracked, Pid, None
  <2> HIDE DEF w
  <2>7. Alone'
    BY <2>1, <2>5 DEF Sole, Alone, Working
  <2>8. Cleared' /\ NoneAdopted'
    BY <2>2, <2>5 DEF Sole, Cleared, NoneAdopted, tables
  <2>9. Launched' /\ Marked'
    <3>1. \A b \in Thread : /\ thread'[b].at \in {"enrol", "activate"} => thread'[b] = thread[b] /\ thread[b].pid \in Pid
                            /\ thread'[b].at \in {"mark", "kill"} => thread'[b] = thread[b] /\ thread[b].wait \in Pid
      BY <2>5 DEF LifecycleTypes, ThreadsFit, Fits
    <3> QED
      BY <2>3, <3>1 DEF Sole, Launched, Marked
  <2>10. ManagedTracked'
    BY <2>2, <2>3 DEF Sole, ManagedTracked, tables, LifecycleTypes, ProcTyped, MayPid
  <2>11. LiveKnown'
    BY <2>1, <2>2, <2>5 DEF Sole, LiveKnown, InHands, tables
  <2>12. Enrolled' /\ Registered'
    BY <2>2, <2>5 DEF Sole, Enrolled, Registered, tables, At
  <2>13. KilledWasStopped'
    BY <2>1, <2>3, <2>6 DEF Sole, KilledWasStopped, w
  <2>14. Fresh'
    BY <2>1, <2>2, <2>3 DEF Sole, Fresh, Unborn, w
  <2> QED
    BY <2>7, <2>8, <2>9, <2>10, <2>11, <2>12, <2>13, <2>14 DEF Sole
<1>3. CASE Expel(a)
  BY <1>0, <1>3 DEF Expel, At
<1>4. CASE StopFails(a)
  <2>1. QuietThread(a)
    BY <1>4, StoppingGoes, LeavesQuietly DEF StopFails
  <2>2. QuietWorld
    BY <1>0, <1>4, StillWorld, SpendTypes DEF StopFails
  <2> QED
    BY <2>1, <2>2, QuietKeepsSole
<1>5. CASE GivesUp(a)
  <2>1. QuietThread(a)
    BY <1>5, StoppingGoes, LeavesQuietly DEF GivesUp, At
  <2>2. budget'.spawns = budget.spawns
    BY <1>0, <1>5, SpendTypes DEF GivesUp
  <2>3. QuietWorld
    BY <1>5, <2>2 DEF GivesUp, QuietWorld
  <2> QED
    BY <2>1, <2>3, QuietKeepsSole
<1>6. CASE StopRecords(a) \/ NewStopped(a)
  <2>1. QuietThread(a)
    BY <1>6, StoppingGoes, LeavesQuietly DEF StopRecords, NewStopped, StoppedFor, At
  <2>2. QuietWorld
    BY <1>6, StillWorld DEF StopRecords, NewStopped, history
  <2> QED
    BY <2>1, <2>2, QuietKeepsSole
<1>7. CASE StopEnds(a) \/ OldStopped(a)
  <2>1. QuietThread(a)
    BY <1>7, StoppingGoes, GoesQuietly DEF StopEnds, OldStopped, StoppedFor, At, Launching
  <2>2. QuietWorld
    BY <1>7, StillWorld DEF StopEnds, OldStopped, history
  <2> QED
    BY <2>1, <2>2, QuietKeepsSole
<1> QED
  BY <1>1, <1>2, <1>3, <1>4, <1>5, <1>6, <1>7 DEF Stopping

(* A launch: the process is spawned, enrolled and activated, or contained. *)

(* While a thread launches, nothing is managed and it launches alone. *)
LEMMA LaunchAlone ==
  ASSUME LifecycleTypes, TurnInv, Sole, NEW a \in Thread,
         thread[a].at \in {"spawn", "enrol", "activate"}
  PROVE  /\ managed = None
         /\ \A b \in Thread : b # a => thread[b].at \notin Launching
         /\ \A p \in live : /\ thread[a].at \in {"enrol", "activate"} /\ p = thread[a].pid
BY OneLaunch DEF Sole, Cleared, LiveKnown, InHands, LifecycleTypes, ProcTyped, Pid, None, Launching

LEMMA SpawnKeepsSole ==
  ASSUME LifecycleTypes, LifecycleTypes', ConstantsAssumption, TurnInv, Sole, NEW a \in Thread, Spawn(a)
  PROVE  Sole'
<1>1. At(a, "spawn") /\ Working(a)
  BY DEF Spawn, At, LifecycleTypes, ThreadsFit, Fits, Launching, Working
<1>2. /\ managed = None
      /\ \A b \in Thread : b # a => thread[b].at \notin Launching
      /\ live = {}
  BY <1>1, LaunchAlone DEF At
<1> DEFINE q == SpawnedPid
<1>3. /\ q \in Pid
      /\ budget.spawns \in Nat /\ budget'.spawns = budget.spawns - 1
      /\ q = MaxSpawns - budget.spawns + 1
  BY SpawnBecomes DEF SpawnedPid, LifecycleTypes, StoreTyped, Budget
<1>4. /\ thread'[a].at = "enrol" /\ thread'[a].op = thread[a].op /\ thread'[a].pid = q
      /\ \A b \in Thread : b # a => thread'[b] = thread[b]
  BY SpawnBecomes DEF Becomes
<1>5. /\ live' = live \cup {q} /\ proc' = [proc EXCEPT ![q].stage = "launched"]
      /\ UNCHANGED <<tables, row, starting, degraded>>
  BY DEF Spawn, SpawnedPid
<1> HIDE DEF q
<1>6. proc[q] = Unborn
  BY <1>3, ConstantsAssumption DEF Sole, Fresh
<1>7. /\ proc'[q].stage = "launched" /\ proc'[q].exit = "none"
      /\ \A p \in Pid : p # q => proc'[p] = proc[p]
  BY <1>3, <1>5, <1>6 DEF LifecycleTypes, ProcTyped, Unborn
<1>8. Alone'
  BY <1>1, <1>4 DEF Sole, Alone, Working, At
<1>9. Cleared' /\ NoneAdopted' /\ ManagedTracked' /\ LiveKnown'
  BY <1>2, <1>4, <1>5 DEF Cleared, Sole, NoneAdopted, ManagedTracked, LiveKnown, InHands, tables
<1>10. Launched'
  BY <1>2, <1>4, <1>7 DEF Launched, Launching
<1>11. Enrolled' /\ Registered'
  BY <1>2, <1>3, <1>4, <1>5 DEF Enrolled, Registered, At, Launching, tables, Pid, None
<1>12. Marked'
  <2> SUFFICES ASSUME NEW b \in Thread, thread'[b].at \in {"mark", "kill"}
               PROVE  /\ proc'[thread'[b].wait].stage \notin {"unborn", "launched"}
                      /\ proc'[thread'[b].wait].stopping
    BY DEF Marked
  <2>1. b # a /\ thread'[b] = thread[b]
    BY <1>4
  <2>2. thread[b].wait \in Pid /\ proc[thread[b].wait].stage # "unborn"
    BY <2>1 DEF Sole, Marked, LifecycleTypes, ThreadsFit, Fits
  <2>3. thread[b].wait # q
    BY <1>6, <2>2 DEF Unborn
  <2> QED
    BY <1>7, <2>1, <2>2, <2>3 DEF Sole, Marked
<1>13. KilledWasStopped'
  BY <1>7 DEF Sole, KilledWasStopped
<1>14. Fresh'
  BY <1>3, <1>7, ConstantsAssumption DEF Sole, Fresh, Pid
<1> QED
  BY <1>8, <1>9, <1>10, <1>11, <1>12, <1>13, <1>14 DEF Sole

LEMMA EnrolKeepsSole ==
  ASSUME LifecycleTypes, LifecycleTypes', ConstantsAssumption, TurnInv, Sole, NEW a \in Thread, Enrol(a)
  PROVE  Sole'
<1>1. At(a, "enrol") /\ Working(a) /\ thread[a].pid \in live
  BY DEF Enrol, At, LifecycleTypes, ThreadsFit, Fits, Launching, Working
<1>2. /\ managed = None
      /\ \A b \in Thread : b # a => thread[b].at \notin Launching
      /\ \A p \in live : p = thread[a].pid
  BY <1>1, LaunchAlone DEF At
<1>3. /\ thread'[a].at = "activate" /\ thread'[a].op = thread[a].op /\ thread'[a].pid = thread[a].pid
      /\ \A b \in Thread : b # a => thread'[b] = thread[b]
  BY LaunchingGoes DEF Goes
<1>4. /\ UNCHANGED <<live, proc, tables, starting, budget, history>>
      /\ row' = [pid |-> thread[a].pid, state |-> "launching"]
  BY DEF Enrol
<1>5. Alone'
  BY <1>1, <1>3 DEF Sole, Alone, Working, At
<1>6. Cleared' /\ NoneAdopted' /\ ManagedTracked' /\ LiveKnown'
  BY <1>1, <1>2, <1>3, <1>4 DEF Cleared, Sole, NoneAdopted, ManagedTracked, LiveKnown, InHands, tables
<1>7. Launched'
  BY <1>1, <1>3, <1>4 DEF Sole, Launched, At
<1>8. Enrolled'
  BY <1>2, <1>3, <1>4 DEF Enrolled, At, Launching
<1>9. Registered'
  BY <1>2, <1>4 DEF Registered, tables, LifecycleTypes, ProcTyped, Pid, None
<1>10. Marked' /\ KilledWasStopped' /\ Fresh'
  BY <1>3, <1>4 DEF Sole, Marked, KilledWasStopped, Fresh
<1> QED
  BY <1>5, <1>6, <1>7, <1>8, <1>9, <1>10 DEF Sole

(* The process is contained, and the thread leaves. *)
LEMMA ContainKeepsSole ==
  ASSUME LifecycleTypes, LifecycleTypes', ConstantsAssumption, TurnInv, Sole, NEW a \in Thread, Contain(a)
  PROVE  Sole'
<1> DEFINE q == thread[a].pid
<1>1. thread[a].at \in {"enrol", "activate"} /\ q \in Pid
  BY DEF Contain, LifecycleTypes, ThreadsFit, Fits
<1>2. /\ managed = None
      /\ \A b \in Thread : b # a => thread[b].at \notin Launching
      /\ \A p \in live : p = q
  BY <1>1, LaunchAlone
<1>3. /\ thread'[a].at \in {"idle", "decide", "pass"} /\ ~Working(a)'
      /\ \A b \in Thread : b # a => thread'[b] = thread[b]
  BY LaunchingGoes DEF Leaves
<1>4. /\ live' = live \ {q} /\ UNCHANGED <<tables, degraded>>
      /\ proc' = [proc EXCEPT ![q].stage = "done", ![q].exit = "killed"]
  BY DEF Contain, Dies, history
<1>5. proc[q].stage = "launched"
  BY <1>1 DEF Sole, Launched
<1>6. budget'.spawns = budget.spawns
  BY SpendTypes DEF Contain, LifecycleTypes, StoreTyped
<1> HIDE DEF q
<1>7. /\ proc'[q].stage = "done"
      /\ \A p \in Pid : p # q => proc'[p] = proc[p]
  BY <1>1, <1>4 DEF LifecycleTypes, ProcTyped, ProcRecord
<1>8. live' = {}
  BY <1>2, <1>4
<1>9. Alone'
  BY <1>3 DEF Sole, Alone, Working
<1>10. Cleared' /\ NoneAdopted' /\ ManagedTracked'
  BY <1>2, <1>3, <1>4 DEF Cleared, Sole, NoneAdopted, ManagedTracked, tables
<1>11. LiveKnown' /\ Enrolled' /\ Registered'
  BY <1>8 DEF LiveKnown, Enrolled, Registered
<1>12. Launched'
  BY <1>2, <1>3 DEF Launched, Launching
<1>13. Marked'
  <2> SUFFICES ASSUME NEW b \in Thread, thread'[b].at \in {"mark", "kill"}
               PROVE  /\ proc'[thread'[b].wait].stage \notin {"unborn", "launched"}
                      /\ proc'[thread'[b].wait].stopping
    BY DEF Marked
  <2>1. b # a /\ thread'[b] = thread[b]
    BY <1>3
  <2>2. thread[b].wait \in Pid /\ proc[thread[b].wait].stage # "launched"
    BY <2>1 DEF Sole, Marked, LifecycleTypes, ThreadsFit, Fits
  <2> QED
    BY <1>5, <1>7, <2>1, <2>2 DEF Sole, Marked
<1>14. KilledWasStopped'
  BY <1>7 DEF Sole, KilledWasStopped
<1>15. Fresh'
  BY <1>5, <1>6, <1>7 DEF Sole, Fresh, Unborn
<1> QED
  BY <1>9, <1>10, <1>11, <1>12, <1>13, <1>14, <1>15 DEF Sole

(* The process is tracked: it is managed from here on. *)
LEMMA TrackKeepsSole ==
  ASSUME LifecycleTypes, LifecycleTypes', ConstantsAssumption, TurnInv, Sole, NEW a \in Thread,
         Retain(a) \/ Activate(a)
  PROVE  Sole'
<1> DEFINE q == thread[a].pid
<1>1. thread[a].at \in {"enrol", "activate"} /\ q \in Pid
  BY DEF Retain, Activate, At, LifecycleTypes, ThreadsFit, Fits
<1>2. /\ managed = None
      /\ \A b \in Thread : b # a => thread[b].at \notin Launching
      /\ \A p \in live : p = q
  BY <1>1, LaunchAlone
<1>3. /\ thread'[a].at \notin {"owner", "clear", "spawn", "enrol", "activate", "mark", "kill", "expel"}
      /\ Working(a)' => Working(a) /\ thread'[a].op = thread[a].op
      /\ \A b \in Thread : b # a => thread'[b] = thread[b]
  <2>1. Working(a)
    BY <1>1 DEF LifecycleTypes, ThreadsFit, Fits, Launching, Working
  <2> QED
    BY <2>1, LaunchingGoes DEF Leaves, Goes
<1>4. /\ live' = live /\ managed' = q /\ adopted' = adopted
      /\ proc' = [proc EXCEPT ![q].stage = "tracked"]
      /\ row' = row
  BY DEF Retain, Activate, Track
<1>5. /\ budget'.spawns = budget.spawns
      /\ (degraded' = degraded /\ Activate(a)) \/ degraded' # {}
  BY SpendTypes DEF Retain, Activate, LifecycleTypes, StoreTyped, history
<1>6. proc[q].stage = "launched"
  BY <1>1 DEF Sole, Launched
<1>7. degraded' = {} /\ q \in live => row.pid = q
  BY <1>5 DEF Sole, Enrolled, Activate, At
<1> HIDE DEF q
<1>8. /\ proc'[q].stage = "tracked" /\ proc'[q].exit = proc[q].exit
      /\ \A p \in Pid : p # q => proc'[p] = proc[p]
  BY <1>1, <1>4 DEF LifecycleTypes, ProcTyped, ProcRecord
<1>9. Alone'
  BY <1>3 DEF Sole, Alone, Working
<1>10. Cleared' /\ NoneAdopted' /\ ManagedTracked'
  BY <1>2, <1>3, <1>4, <1>8 DEF Cleared, Sole, NoneAdopted, ManagedTracked, Launching
<1>11. LiveKnown'
  BY <1>2, <1>4 DEF LiveKnown
<1>12. Enrolled' /\ Registered'
  BY <1>2, <1>3, <1>4, <1>7 DEF Enrolled, Registered, At, Launching
<1>13. Launched'
  BY <1>2, <1>3 DEF Launched, Launching
<1>14. Marked'
  <2> SUFFICES ASSUME NEW b \in Thread, thread'[b].at \in {"mark", "kill"}
               PROVE  /\ proc'[thread'[b].wait].stage \notin {"unborn", "launched"}
                      /\ proc'[thread'[b].wait].stopping
    BY DEF Marked
  <2>1. b # a /\ thread'[b] = thread[b]
    BY <1>3
  <2>2. thread[b].wait \in Pid /\ proc[thread[b].wait].stage # "launched"
    BY <2>1 DEF Sole, Marked, LifecycleTypes, ThreadsFit, Fits
  <2> QED
    BY <1>6, <1>8, <2>1, <2>2 DEF Sole, Marked
<1>15. KilledWasStopped'
  BY <1>1, <1>6, <1>8 DEF Sole, KilledWasStopped
<1>16. Fresh'
  BY <1>5, <1>6, <1>8 DEF Sole, Fresh, Unborn
<1> QED
  BY <1>9, <1>10, <1>11, <1>12, <1>13, <1>14, <1>15, <1>16 DEF Sole

LEMMA LaunchingKeepsSole ==
  ASSUME LifecycleTypes, LifecycleTypes', ConstantsAssumption, TurnInv, Sole, NEW a \in Thread,
         Spawning(a) \/ Confirming(a)
  PROVE  Sole'
<1>0. thread[a] \in ThreadRecord /\ Fits(a, thread[a]) /\ row \in RowRecord
  BY DEF LifecycleTypes, ThreadsTyped, ThreadsFit, StoreTyped
<1>1. CASE SpawnFails(a) \/ Settle(a)
  <2>1. QuietThread(a)
    BY <1>1, LaunchingGoes, LeavesQuietly DEF SpawnFails, Settle, At
  <2>2. QuietWorld
    BY <1>1, StillWorld DEF SpawnFails, Settle, history
  <2> QED
    BY <2>1, <2>2, QuietKeepsSole
<1>2. CASE Ready(a)
  <2>1. QuietThread(a)
    BY <1>2, LaunchingGoes, GoesQuietly DEF Ready, At, Launching
  <2>2. QuietWorld
    BY <1>2, StillWorld DEF Ready, history
  <2> QED
    BY <2>1, <2>2, QuietKeepsSole
<1>3. CASE Own(a)
  <2>1. QuietThread(a)
    BY <1>3, LaunchingGoes, GoesQuietly DEF Own, At, Launching
  <2>2. QuietWorld
    BY <1>0, <1>3, TransitionTypes, StillWorld DEF Own, history
  <2> QED
    BY <2>1, <2>2, QuietKeepsSole
<1>4. CASE Unready(a)
  <2>1. Working(a) /\ At(a, "ready")
    BY <1>0, <1>4 DEF Unready, At, Fits, Launching, Working
  <2>2. Begins(a, thread[a])
    BY <1>4, LaunchingGoes
  <2>3. QuietWorld
    BY <1>4, <2>2, BeginsQuietWorld DEF Unready, history
  <2> QED
    BY <1>0, <2>1, <2>2, <2>3, BeginsQuietly, QuietKeepsSole DEF At
<1> QED
  BY <1>1, <1>2, <1>3, <1>4, SpawnKeepsSole, EnrolKeepsSole, ContainKeepsSole, TrackKeepsSole
  DEF Spawning, Confirming

(* A process ends by itself, or its finalizer goes on: the threads stay. *)
LEMMA ProcessKeepsSole ==
  ASSUME LifecycleTypes, LifecycleTypes', ConstantsAssumption, Sole, NEW p \in Pid, Exits(p) \/ Finalizing(p)
  PROVE  Sole'
<1>0. /\ proc[p] \in ProcRecord /\ row \in RowRecord
  BY DEF LifecycleTypes, ProcTyped, StoreTyped
<1>1. /\ thread' = thread /\ adopted' = adopted /\ degraded' = degraded
      /\ live' \subseteq live /\ (p \in live => Exits(p))
      /\ managed' = managed \/ (managed' = None /\ managed = p /\ p \notin live)
      /\ row'.pid = row.pid \/ row.pid \notin live
      /\ budget'.spawns = budget.spawns
  <2>1. CASE Exits(p)
    BY <2>1, SpendTypes DEF Exits, tables, history, LifecycleTypes, StoreTyped
  <2>2. CASE Remove(p)
    BY <1>0, <2>2, TransitionTypes DEF Remove, history
  <2>3. CASE PersistExit(p) \/ Supervise(p) \/ Schedule(p)
    <3>1. /\ thread' = thread /\ adopted' = adopted /\ degraded' = degraded
          /\ live' = live /\ managed' = managed /\ row' = row /\ budget' = budget
      BY <2>3 DEF PersistExit, Supervise, Schedule, tables, history
    <3>2. p \notin live
      <4>1. proc[p].stage \in {"removed", "persisted", "scheduling"}
        BY <2>3 DEF PersistExit, Supervise, Schedule
      <4> QED
        BY <4>1 DEF Sole, LiveKnown, InHands, Launched, ManagedTracked, Pid, None
    <3> QED
      BY <3>1, <3>2
  <2> QED
    BY <2>1, <2>2, <2>3 DEF Finalizing
<1>2. /\ proc[p].stage \notin {"unborn", "launched"} \/ Exits(p)
      /\ proc'[p].stopping = proc[p].stopping
      /\ \/ Exits(p) /\ proc'[p].stage = proc[p].stage /\ proc'[p].exit \in {"crashed", "exited"}
         \/ /\ Finalizing(p) /\ proc[p].stage \notin {"unborn", "launched"}
            /\ proc'[p].stage \notin {"unborn", "launched", "tracked"} /\ proc'[p].exit = proc[p].exit
            /\ proc[p].stage = "tracked" /\ proc[p].stopping => proc'[p].stage = "done"
            /\ proc[p].stage = "tracked" => managed' # p
      /\ \A q \in Pid : q # p => proc'[q] = proc[q]
  <2>1. CASE Exits(p)
    <3>1. PICK how \in {"crashed", "exited"} : proc' = [proc EXCEPT ![p].exit = how]
      BY <2>1 DEF Exits
    <3> QED
      BY <1>0, <2>1, <3>1 DEF LifecycleTypes, ProcTyped, ProcRecord
  <2>2. CASE Remove(p)
    BY <1>0, <2>2 DEF Finalizing, Remove, LifecycleTypes, ProcTyped, ProcRecord, Pid, None
  <2>3. CASE PersistExit(p)
    BY <1>0, <2>3 DEF Finalizing, PersistExit, LifecycleTypes, ProcTyped, ProcRecord
  <2>4. CASE Supervise(p)
    <3>1. CASE Blocks(p)
      BY <1>0, <2>4, <3>1 DEF Finalizing, Supervise, LifecycleTypes, ProcTyped, ProcRecord
    <3>2. CASE ~Blocks(p)
      <4>1. proc' = [proc EXCEPT ![p].stage = "scheduling", ![p].attempt = record.attempts + 1]
        BY <2>4, <3>2 DEF Supervise
      <4>2. proc[p].stage = "persisted"
        BY <2>4 DEF Supervise
      <4> QED
        BY <1>0, <2>4, <4>1, <4>2 DEF Finalizing, LifecycleTypes, ProcTyped, ProcRecord
    <3> QED
      BY <3>1, <3>2
  <2>5. CASE Schedule(p)
    BY <1>0, <2>5 DEF Finalizing, Schedule, LifecycleTypes, ProcTyped, ProcRecord
  <2> QED
    BY <2>1, <2>2, <2>3, <2>4, <2>5 DEF Finalizing
<1>3. Alone' /\ NoneAdopted'
  BY <1>1 DEF Sole, Alone, NoneAdopted, Working
<1>4. Cleared'
  BY <1>1 DEF Sole, Cleared
<1>5. Launched'
  <2> SUFFICES ASSUME NEW b \in Thread, thread'[b].at \in {"enrol", "activate"}
               PROVE  proc'[thread'[b].pid].stage = "launched"
    BY DEF Launched
  <2>1. thread[b].pid \in Pid /\ proc[thread[b].pid].stage = "launched" /\ thread'[b] = thread[b]
    BY <1>1 DEF Sole, Launched, LifecycleTypes, ThreadsFit, Fits
  <2> QED
    BY <1>2, <2>1
<1>6. ManagedTracked'
  <2> SUFFICES ASSUME managed' # None PROVE proc'[managed'].stage = "tracked"
    BY DEF ManagedTracked
  <2>1. managed' = managed /\ managed \in Pid /\ proc[managed].stage = "tracked"
    BY <1>1 DEF Sole, ManagedTracked, LifecycleTypes, ProcTyped, MayPid
  <2> QED
    BY <1>2, <2>1
<1>7. LiveKnown'
  BY <1>1 DEF Sole, LiveKnown, InHands
<1>8. Enrolled' /\ Registered'
  <2>1. Enrolled'
    BY <1>1 DEF Sole, Enrolled, At
  <2>2. managed' \in live => managed' = managed
    BY <1>1 DEF LifecycleTypes, ProcTyped, Pid, None
  <2> QED
    BY <1>1, <2>1, <2>2 DEF Sole, Registered
<1>9. Marked'
  <2> SUFFICES ASSUME NEW b \in Thread, thread'[b].at \in {"mark", "kill"}
               PROVE  /\ proc'[thread'[b].wait].stage \notin {"unborn", "launched"}
                      /\ proc'[thread'[b].wait].stopping
    BY DEF Marked
  <2>1. /\ thread[b].wait \in Pid /\ thread'[b] = thread[b]
        /\ proc[thread[b].wait].stage \notin {"unborn", "launched"}
        /\ proc[thread[b].wait].stopping
    BY <1>1 DEF Sole, Marked, LifecycleTypes, ThreadsFit, Fits
  <2> QED
    BY <1>2, <2>1
<1>10. KilledWasStopped'
  <2>1. proc'[p].exit = "killed" => proc'[p].stage = "done"
    <3> SUFFICES ASSUME proc'[p].exit = "killed" PROVE proc'[p].stage = "done"
      OBVIOUS
    <3>1. proc[p].exit = "killed" /\ ~(proc[p].stage = "done")
      <4>1. Finalizing(p) /\ proc[p].exit = "killed"
        BY <1>2
      <4> QED
        BY <4>1 DEF Finalizing, Remove, PersistExit, Supervise, Schedule
    <3>2. proc[p].stage = "tracked" /\ proc[p].stopping
      BY <3>1 DEF Sole, KilledWasStopped
    <3> QED
      BY <1>2, <3>2
  <2> QED
    BY <1>2, <2>1 DEF Sole, KilledWasStopped
<1>11. Fresh'
  <2>1. p \in live => proc[p].stage # "unborn"
    BY DEF Sole, LiveKnown, InHands, Launched, ManagedTracked, Pid, None
  <2>2. proc[p].stage # "unborn"
    BY <1>2, <2>1 DEF Exits
  <2> QED
    BY <1>1, <1>2, <2>2 DEF Sole, Fresh, Unborn
<1> QED
  BY <1>3, <1>4, <1>5, <1>6, <1>7, <1>8, <1>9, <1>10, <1>11 DEF Sole

LEMMA RestKeepsSole ==
  ASSUME LifecycleTypes, LifecycleTypes', ConstantsAssumption, TurnInv, Sole,
         \/ Calling \/ Install \/ MonitorLooks \/ Monitoring
         \/ AdoptedExits
         \/ \E r \in Restarter : Supervising(r)
         \/ ShutDown \/ ShuttingDown,
         ~overlapped'
  PROVE  Sole'
<1>0. {"operator", "monitor", "shutdown"} \subseteq Thread /\ budget \in Budget
  BY DEF Thread, LifecycleTypes, StoreTyped
<1>1. CASE CallStart \/ CallInstall
  <2>1. At("operator", "idle") /\ budget'.spawns = budget.spawns
    BY <1>0, <1>1, SpendTypes DEF CallStart, CallInstall, Calls
  <2>2. QuietThread("operator")
    BY <1>0, <1>1, <2>1, CallingGoes DEF Becomes, QuietThread, Working, At
  <2>3. QuietWorld
    BY <1>1, <2>1, StillWorld DEF CallStart, CallInstall
  <2> QED
    BY <1>0, <2>2, <2>3, QuietKeepsSole
<1>2. CASE CallStop
  <2>1. At("operator", "idle") /\ budget'.spawns = budget.spawns
    BY <1>0, <1>2, SpendTypes DEF CallStop, Calls
  <2>2. \A b \in Thread \ {"operator"} : Working(b) => thread[b].op # "restart"
    BY <1>2 DEF CallStop, Overlap
  <2>3. CASE record.running
    <3>1. PICK from \in ThreadRecord : Begins("operator", from) /\ from.op = "stop"
      BY <1>2, <2>3, CallingGoes
    <3>2. QuietThread("operator")
      BY <1>0, <2>1, <2>2, <3>1, BeginsQuietly DEF At
    <3>3. QuietWorld
      BY <1>0, <1>2, <2>1, <3>1, BeginsQuietWorld DEF CallStop
    <3> QED
      BY <1>0, <3>2, <3>3, QuietKeepsSole
  <2>4. CASE ~record.running
    <3>1. UNCHANGED <<proc, adopted, thread>>
      BY <1>2, <2>4 DEF CallStop
    <3>2. QuietThread("operator")
      BY <2>1, <3>1 DEF QuietThread, Working, At
    <3>3. QuietWorld
      BY <1>2, <2>1, <3>1, StillWorld DEF CallStop, tables
    <3> QED
      BY <1>0, <3>2, <3>3, QuietKeepsSole
  <2> QED
    BY <2>3, <2>4
<1>3. ASSUME NEW a \in Thread, RestartBegins(a), thread[a].at \in {"idle", "inspect"},
             budget'.spawns = budget.spawns
      PROVE  Sole'
  <2>1. \A b \in Thread \ {a} : ~Working(b)
    BY <1>3 DEF RestartBegins, Overlap
  <2>2. QuietThread(a)
    BY <1>3, <2>1, CallingGoes DEF Becomes, QuietThread
  <2>3. QuietWorld
    BY <1>3, StillWorld DEF RestartBegins
  <2> QED
    BY <2>2, <2>3, QuietKeepsSole
<1>4. CASE CallRestart
  BY <1>0, <1>3, <1>4, SpendTypes DEF CallRestart, Calls, At
<1>5. CASE MonitorRestarts
  BY <1>0, <1>3, <1>5 DEF MonitorRestarts, At
<1>6. CASE MonitorLooks
  <2>1. budget'.spawns = budget.spawns
    BY <1>0, <1>6, SpendTypes DEF MonitorLooks
  <2>2. QuietThread("monitor")
    BY <1>0, <1>6, CallingGoes, GoesQuietly DEF MonitorLooks, At
  <2>3. QuietWorld
    BY <1>6, <2>1, StillWorld DEF MonitorLooks, history
  <2> QED
    BY <1>0, <2>2, <2>3, QuietKeepsSole
<1>7. CASE Install
  <2>1. QuietThread("operator")
    BY <1>0, <1>7, CallingGoes, LeavesQuietly DEF Install, At
  <2>2. QuietWorld
    BY <1>7, StillWorld DEF Install, history
  <2> QED
    BY <1>0, <2>1, <2>2, QuietKeepsSole
<1>8. CASE MonitorPasses
  <2>1. QuietThread("monitor")
    BY <1>0, <1>8, CallingGoes, LeavesQuietly DEF MonitorPasses, At
  <2>2. QuietWorld
    BY <1>8, StillWorld DEF MonitorPasses, history
  <2> QED
    BY <1>0, <2>1, <2>2, QuietKeepsSole
<1>9. CASE AdoptedExits
  BY <1>9 DEF AdoptedExits, Sole, NoneAdopted
<1>10. ASSUME NEW r \in Restarter, Supervising(r) PROVE Sole'
  <2>0. r \in Thread
    BY DEF Thread
  <2>1. CASE TimerFires(r)
    <3>1. QuietThread(r)
      BY <2>0, <2>1, SupervisingGoes DEF TimerFires, Becomes, QuietThread, Working, At
    <3>2. QuietWorld
      BY <2>1, StillWorld DEF TimerFires
    <3> QED
      BY <2>0, <3>1, <3>2, QuietKeepsSole
  <2>2. CASE Blocked(r) \/ Decide(r)
    <3>1. Becomes(r, Idle) /\ thread[r].at \in {"blocked", "decide"}
      BY <2>2, SupervisingGoes DEF Blocked, Decide, At
    <3>2. QuietThread(r)
      BY <2>0, <3>1 DEF Becomes, QuietThread, Working, Idle
    <3>3. QuietWorld
      BY <2>2, StillWorld DEF Blocked, Decide, history
    <3> QED
      BY <2>0, <3>2, <3>3, QuietKeepsSole
  <2> QED
    BY <1>10, <2>1, <2>2 DEF Supervising
<1>11. CASE ShutDown
  <2>1. QuietThread("shutdown")
    BY <1>0, <1>11, ShuttingDownGoes DEF ShutDown, Becomes, QuietThread, Working, At
  <2>2. QuietWorld
    BY <1>11, StillWorld DEF ShutDown
  <2> QED
    BY <1>0, <2>1, <2>2, QuietKeepsSole
<1>12. CASE MonitorStops
  <2>1. QuietThread("shutdown")
    BY <1>0, <1>12, ShuttingDownGoes, GoesQuietly DEF MonitorStops, At
  <2>2. QuietWorld
    BY <1>12, StillWorld DEF MonitorStops, history
  <2> QED
    BY <1>0, <2>1, <2>2, QuietKeepsSole
<1>13. CASE Quiesce
  <2>1. QuietThread("shutdown")
    BY <1>0, <1>13, ShuttingDownGoes DEF Quiesce, Becomes, QuietThread, Working, At
  <2>2. QuietWorld
    BY <1>13, StillWorld DEF Quiesce, history
  <2> QED
    BY <1>0, <2>1, <2>2, QuietKeepsSole
<1>14. CASE Drained
  <2>0. /\ thread["shutdown"] \in ThreadRecord /\ thread["shutdown"].at = "drain"
    BY <1>0, <1>14 DEF Drained, At, LifecycleTypes, ThreadsTyped
  <2>1. CASE thread["shutdown"].was
    <3>1. Begins("shutdown", thread["shutdown"])
      BY <1>14, <2>1, ShuttingDownGoes
    <3>2. \/ thread["shutdown"].op = "shutdown"
          \/ Working("shutdown")
          \/ thread["shutdown"].op \in {"none", "install"}
      BY <2>0 DEF ThreadRecord, Ops, Working
    <3>3. QuietThread("shutdown")
      BY <1>0, <2>0, <3>1, <3>2, BeginsQuietly DEF Begins, QuietThread, Working
    <3>4. QuietWorld
      BY <1>0, <1>14, <3>1, BeginsQuietWorld DEF Drained, history
    <3> QED
      BY <1>0, <3>3, <3>4, QuietKeepsSole
  <2>2. CASE ~thread["shutdown"].was
    <3>1. QuietThread("shutdown")
      BY <1>0, <1>14, <2>0, <2>2, ShuttingDownGoes, GoesQuietly
    <3>2. QuietWorld
      BY <1>14, <2>2, StillWorld DEF Drained, history, tables
    <3> QED
      BY <1>0, <3>1, <3>2, QuietKeepsSole
  <2> QED
    BY <2>1, <2>2
<1>15. CASE PassEnds
  <2>1. QuietThread("shutdown")
    BY <1>0, <1>15, ShuttingDownGoes, LeavesQuietly DEF PassEnds, StoppedFor, At
  <2>2. QuietWorld
    BY <1>15, StillWorld DEF PassEnds, history
  <2> QED
    BY <1>0, <2>1, <2>2, QuietKeepsSole
<1> QED
  BY <1>1, <1>2, <1>4, <1>5, <1>6, <1>7, <1>8, <1>9, <1>10, <1>11, <1>12, <1>13, <1>14, <1>15
  DEF Calling, Monitoring, ShuttingDown

LEMMA OverlappedStays ==
  ASSUME LifecycleTypes, [Next]_vars, overlapped
  PROVE  overlapped'
<1>0. overlapped = TRUE
  BY DEF LifecycleTypes, StoreTyped
<1>1. ASSUME NEW a \in Thread, Doctoring(a) \/ Preparing(a) PROVE overlapped'
  BY <1>0, <1>1 DEF Doctoring, DoctorAllows, DoctorRefuses, Preparing, EnterStart, Adopt, Negotiate, Check,
     Classify, Clear, Overlap, history
<1>2. ASSUME NEW a \in Thread, Spawning(a) \/ Confirming(a) PROVE overlapped'
  BY <1>0, <1>2 DEF Spawning, Spawn, SpawnFails, Enrol, Contain, Retain, Activate,
     Confirming, Ready, Unready, Own, Settle, history
<1>3. ASSUME NEW a \in Thread, Stopping(a) PROVE overlapped'
  BY <1>0, <1>3 DEF Stopping, Mark, Kill, Expel, StopFails, GivesUp, StopEnds, StopRecords, OldStopped,
     NewStopped, history
<1>4. CASE Calling \/ Install \/ MonitorLooks \/ Monitoring
  BY <1>0, <1>4 DEF Calling, CallStart, CallStop, CallRestart, CallInstall, RestartBegins, Install,
     MonitorLooks, Monitoring, MonitorRestarts, MonitorPasses, Overlap, history
<1>5. CASE AdoptedExits \/ \E p \in Pid : Exits(p) \/ Finalizing(p)
  BY <1>0, <1>5 DEF AdoptedExits, Exits, Finalizing, Remove, PersistExit, Supervise, Schedule, history
<1>6. CASE ShutDown \/ ShuttingDown \/ \E r \in Restarter : Supervising(r)
  BY <1>0, <1>6 DEF ShutDown, ShuttingDown, MonitorStops, Quiesce, Drained, PassEnds,
     Supervising, TimerFires, Blocked, Decide, history
<1>7. CASE UNCHANGED vars
  BY <1>0, <1>7 DEF vars, history
<1> QED
  BY <1>1, <1>2, <1>3, <1>4, <1>5, <1>6, <1>7 DEF Next, Step

LEMMA SoleStays ==
  ASSUME SoleInv, [Next]_vars, ConstantsAssumption
  PROVE  SoleInv'
<1>1. LifecycleTypes /\ LifecycleTypes'
  BY TypesStay DEF SoleInv
<1>2. TurnInv'
  <2>1. CASE Next
    BY <1>1, <2>1, StepKeepsTurns, RestKeepsTurns DEF SoleInv, Next
  <2>2. CASE UNCHANGED vars
    BY <2>2 DEF SoleInv, TurnInv, Turn, Waits, Holds, Working, At, vars
  <2> QED
    BY <2>1, <2>2
<1>3. ASSUME ~overlapped' PROVE Sole'
  <2>0. Sole /\ TurnInv
    BY <1>1, <1>3, OverlappedStays DEF SoleInv
  <2>1. CASE \E a \in Thread : Step(a)
    BY <1>1, <1>3, <2>0, <2>1, PreparingKeepsSole, LaunchingKeepsSole, StoppingKeepsSole DEF Step
  <2>2. CASE \E p \in Pid : Exits(p) \/ Finalizing(p)
    BY <1>1, <2>0, <2>2, ProcessKeepsSole
  <2>3. CASE \/ Calling \/ Install \/ MonitorLooks \/ Monitoring
             \/ AdoptedExits
             \/ \E r \in Restarter : Supervising(r)
             \/ ShutDown \/ ShuttingDown
    BY <1>1, <1>3, <2>0, <2>3, RestKeepsSole
  <2>4. CASE UNCHANGED vars
    <3>1. UNCHANGED <<live, proc, managed, adopted, row, thread, budget, degraded>>
      BY <2>4 DEF vars, tables, history
    <3>2. Alone' /\ Cleared' /\ NoneAdopted'
      BY <2>0, <3>1 DEF Sole, Alone, Working, Cleared, NoneAdopted
    <3>3. Launched' /\ ManagedTracked' /\ LiveKnown'
      BY <2>0, <3>1 DEF Sole, Launched, ManagedTracked, LiveKnown, InHands
    <3>4. Enrolled' /\ Registered' /\ Marked' /\ KilledWasStopped' /\ Fresh'
      BY <2>0, <3>1 DEF Sole, Enrolled, Registered, At, Marked, KilledWasStopped, Fresh
    <3> QED
      BY <3>2, <3>3, <3>4 DEF Sole
  <2> QED
    BY <2>1, <2>2, <2>3, <2>4 DEF Next
<1> QED
  BY <1>1, <1>2, <1>3 DEF SoleInv

LEMMA InitSole == ASSUME Init, ConstantsAssumption PROVE SoleInv
<1>1. \A a \in Thread : thread[a].at = "idle" /\ thread[a].op = "none"
  BY DEF Init, Idle
<1>2. TurnInv
  BY <1>1 DEF TurnInv, Turn, Waits, Holds, At
<1>3. Alone /\ Cleared /\ NoneAdopted /\ Launched
  BY <1>1 DEF Alone, Working, Cleared, NoneAdopted, Launched, Init, NotAdopted
<1>4. ManagedTracked /\ LiveKnown /\ Enrolled /\ Registered
  BY DEF Init, ManagedTracked, LiveKnown, Enrolled, Registered
<1>5. Marked /\ KilledWasStopped /\ Fresh
  BY <1>1 DEF Init, Marked, KilledWasStopped, Fresh, Unborn
<1> QED
  BY <1>2, <1>3, <1>4, <1>5, InitTypes DEF SoleInv, Sole

LEMMA SoleInvariant == Spec => []SoleInv
<1>1. Init => SoleInv
  BY InitSole, ConstantsAssumption
<1>2. SoleInv /\ [Next]_vars => SoleInv'
  BY SoleStays, ConstantsAssumption
<1> QED
  BY <1>1, <1>2, PTL DEF Spec

(* The service never runs twice: the start turns                           *)
(* (src/src/runtime/lifecycle/start-serialization.ts), the finalizer a     *)
(* launch awaits and the tables it asks (startManagedProcess in            *)
(* src/src/runtime/execution/supervisor.ts) allow one process at a time,   *)
(* however many commands, supervised restarts and exits there are, unless  *)
(* a restart ran together with another launch or stop.                     *)
THEOREM ServiceRunsOnce == Spec => []OneProcess
<1>1. ASSUME SoleInv PROVE OneProcess
  <2> SUFFICES ASSUME ~overlapped PROVE Cardinality(live) <= 1
    BY DEF OneProcess
  <2>1. Sole /\ LifecycleTypes /\ TurnInv
    BY <1>1 DEF SoleInv
  <2>2. \A p, q \in live : p = q
    <3> SUFFICES ASSUME NEW p \in live, NEW q \in live PROVE p = q
      OBVIOUS
    <3>1. CASE managed = p /\ managed = q
      BY <3>1
    <3>2. CASE InHands(p) \/ InHands(q)
      <4>1. PICK a \in Thread : /\ thread[a].at \in {"enrol", "activate"}
                                /\ thread[a].pid \in {p, q}
        BY <3>2 DEF InHands
      <4>2. p = thread[a].pid /\ q = thread[a].pid
        BY <2>1, <4>1, LaunchAlone
      <4> QED
        BY <4>2
    <3> QED
      BY <2>1, <3>1, <3>2 DEF Sole, LiveKnown
  <2>3. CASE live = {}
    BY <2>3, FS_EmptySet
  <2>4. CASE live # {}
    <3>1. PICK p \in live : live = {p}
      BY <2>2, <2>4
    <3> QED
      BY <3>1, FS_Singleton
  <2> QED
    BY <2>3, <2>4
<1> QED
  BY <1>1, SoleInvariant, PTL

(* Unless a stop, an enrolment or a finalizer failed on the way, the       *)
(* ownership registry names the process that the supervisor manages: a     *)
(* launch writes the row before it activates the process                   *)
(* (recordProcessOwnership in src/src/runtime/execution/supervisor.ts),    *)
(* and nothing that runs later clears the row of a process that lives.     *)
THEOREM RegistryIsRight == Spec => []RegistryNamesProcess
<1>1. SoleInv => RegistryNamesProcess
  BY DEF SoleInv, Sole, Registered, RegistryNamesProcess
<1> QED
  BY <1>1, SoleInvariant, PTL

(* A process that the runtime has killed never goes on to the crash path   *)
(* of its finalizer (finalizeLifecycle in                                  *)
(* src/src/runtime/execution/supervisor.ts): whoever kills it has marked   *)
(* it as stopping first, and the mark stays.                               *)
THEOREM StopsAreNoCrashes == Spec => []StopIsNoCrash
<1>1. SoleInv => StopIsNoCrash
  BY DEF SoleInv, Sole, KilledWasStopped, StopIsNoCrash
<1> QED
  BY <1>1, SoleInvariant, PTL

-----------------------------------------------------------------------------
(***************************************************************************)
(* For any number of restarts, attempts and processes: when nothing is     *)
(* under way the store says running exactly when there is a process, and   *)
(* names it.                                                               *)
(*                                                                         *)
(* On the way the store and the tables do differ, and the invariant says   *)
(* who will bring them together: the finalizer of a process that is gone,  *)
(* or the thread that has stopped it.                                      *)
(*                                                                         *)
(* The second half is about the shutdown: when it is done and has given up *)
(* nothing, no process, no timer and no registered owner is left.          *)
(***************************************************************************)

(* Before a launch has its process, and between the two ends of a stop. *)
Before == {"negotiate", "check", "owner", "clear", "spawn", "enrol", "activate"}
Stops == {"mark", "kill", "expel", "await", "ending"}

(* Who asks for what. *)
Role(a, r) ==
  /\ a = "shutdown" => r.at = "idle" \/ r.op = "shutdown"
  /\ r.op = "shutdown" => a = "shutdown"
  /\ r.op \in {"start", "stop", "install"} => a = "operator"
  /\ r.op = "restart" => a \in {"operator", "monitor"}
  /\ r.at = "ending" => r.op = "stop"
  /\ a # "shutdown" /\ r.at \in Stops => r.op \in {"start", "supervise", "restart", "stop"}
Roles ==
  /\ \A a \in Thread : Role(a, thread[a])
  /\ overtaken \in BOOLEAN

(* When what the store says is sure: no shutdown has begun, nothing has    *)
(* failed, and no launch has run into a restart.                           *)
Calm == At("shutdown", "idle") /\ ~overlapped /\ ~overtaken /\ degraded = {}

-----------------------------------------------------------------------------
(* A step of a thread leaves the others alone, and the shutdown, once it   *)
(* has begun, does not go back.                                            *)
RoleStep(a) ==
  /\ \A b \in Thread : b # a => thread'[b] = thread[b]
  /\ Role(a, thread'[a])
  /\ thread[a].at # "idle"
  /\ thread[a].op = "shutdown" => thread'[a].at # "idle"

LEMMA LeaveRole ==
  ASSUME LifecycleTypes, NEW a \in Thread, Role(a, thread[a]), thread[a].at # "idle",
         NEW ok \in BOOLEAN, Leave(a, ok)
  PROVE  /\ \A b \in Thread : b # a => thread'[b] = thread[b]
         /\ Role(a, thread'[a])
         /\ thread[a].op = "shutdown" => thread'[a].at # "idle"
         /\ thread'[a].at = "pass" => thread[a].op = "shutdown"
<1>0. thread[a] \in ThreadRecord /\ ThreadsTyped
  BY DEF LifecycleTypes, ThreadsTyped
<1>4. \A b \in Thread : b # a => thread'[b] = thread[b]
  BY <1>0 DEF Leave, ThreadsTyped
<1>1. CASE thread[a].op = "supervise"
  <2>1. thread'[a] = [thread[a] EXCEPT !.at = "decide", !.ok = ok]
    BY <1>0, <1>1 DEF Leave, ThreadsTyped
  <2>2. thread'[a].at = "decide" /\ thread'[a].op = "supervise"
    BY <1>0, <1>1, <2>1 DEF ThreadRecord
  <2> QED
    BY <1>1, <1>4, <2>2 DEF Role, Stops
<1>2. CASE thread[a].op = "shutdown"
  <2>1. thread'[a] = [thread[a] EXCEPT !.at = "pass", !.ok = ok]
    BY <1>0, <1>2 DEF Leave, ThreadsTyped
  <2>2. thread'[a].at = "pass" /\ thread'[a].op = "shutdown"
    BY <1>0, <1>2, <2>1 DEF ThreadRecord
  <2> QED
    BY <1>2, <1>4, <2>2 DEF Role, Stops
<1>3. CASE thread[a].op \notin {"supervise", "shutdown"}
  <2>1. thread' = [thread EXCEPT ![a] = Idle]
    BY <1>3 DEF Leave
  <2>2. /\ thread'[a] = Idle
        /\ \A b \in Thread : b # a => thread'[b] = thread[b]
    BY <1>0, <2>1 DEF ThreadsTyped
  <2>3. Role(a, Idle) /\ Idle.at = "idle"
    BY DEF Role, Stops, Idle
  <2> QED
    BY <1>3, <2>2, <2>3
<1> QED
  BY <1>1, <1>2, <1>3

(* The thread goes on with the same work. *)
LEMMA SameWorkRole ==
  ASSUME NEW a \in Thread, Role(a, thread[a]),
         thread'[a].op = thread[a].op,
         thread[a].at # "idle", thread'[a].at # "idle",
         thread'[a].at = "ending" => thread[a].op = "stop",
         thread'[a].at \in Stops =>
           thread[a].at \in Stops \/ thread[a].op \in {"start", "supervise", "restart", "stop"},
         \A b \in Thread : b # a => thread'[b] = thread[b]
  PROVE  RoleStep(a)
BY DEF Role, RoleStep

LEMMA StepRole ==
  ASSUME LifecycleTypes, ConstantsAssumption, Roles, NEW a \in Thread, Step(a)
  PROVE  RoleStep(a)
<1>0. thread[a] \in ThreadRecord /\ Fits(a, thread[a]) /\ Role(a, thread[a])
  BY DEF LifecycleTypes, ThreadsTyped, ThreadsFit, Roles
<1>1. CASE DoctorAllows(a)
  BY <1>0, <1>1, PreparingGoes, SameWorkRole
  DEF DoctorAllows, At, Goes, Begins, Fits, Stops
<1>2. CASE DoctorRefuses(a) \/ Adopt(a) \/ SpawnFails(a) \/ Contain(a) \/ Retain(a) \/ Settle(a)
  BY <1>0, <1>2, LeaveRole DEF DoctorRefuses, Adopt, SpawnFails, Contain, Retain, Settle, MyTurn, At, RoleStep
<1>3. CASE StopFails(a) \/ GivesUp(a) \/ StopRecords(a) \/ NewStopped(a)
  <2>1. \E ok \in BOOLEAN : Leave(a, ok)
    BY <1>3 DEF StopFails, GivesUp, StopRecords, NewStopped
  <2>2. thread[a].at # "idle"
    BY <1>3 DEF StopFails, GivesUp, StopRecords, NewStopped, StoppedFor, At
  <2> QED
    BY <1>0, <2>1, <2>2, LeaveRole DEF RoleStep
<1>4. CASE EnterStart(a) \/ Check(a) \/ Classify(a)
  <2>1. thread[a].at \notin {"idle", "ending"} \cup Stops
    BY <1>4 DEF EnterStart, Check, Classify, MyTurn, At, Stops
  <2>2. CASE Leave(a, FALSE)
    BY <1>0, <2>1, <2>2, LeaveRole DEF RoleStep
  <2>3. CASE ~Leave(a, FALSE)
    <3>1. \E place \in {"negotiate", "owner", "spawn", "clear"} : Goes(a, place)
      BY <1>4, <2>3, PreparingGoes DEF EnterStart, Check, Classify
    <3> QED
      BY <1>0, <2>1, <3>1, SameWorkRole DEF Goes, Stops
  <2> QED
    BY <2>2, <2>3
<1>5. CASE Clear(a) \/ Enrol(a) \/ Activate(a) \/ Ready(a) \/ Own(a)
  <2>1. \E place \in {"spawn", "activate", "ready", "own", "settle"} : Goes(a, place)
    BY <1>5, PreparingGoes, LaunchingGoes
  <2> QED
    BY <1>0, <1>5, <2>1, SameWorkRole DEF Clear, Enrol, Activate, Ready, Own, At, Goes, Stops
<1>6. CASE Negotiate(a)
  BY <1>0, <1>6, NegotiateBecomes, SameWorkRole DEF Negotiate, At, Becomes, Stops
<1>7. CASE Spawn(a)
  <2>1. PICK r \in ThreadRecord : Becomes(a, r) /\ r.at = "enrol" /\ r.op = thread[a].op
    BY <1>7, SpawnBecomes
  <2>2. thread[a].at = "spawn"
    BY <1>7 DEF Spawn, At
  <2> QED
    BY <1>0, <2>1, <2>2, SameWorkRole DEF Becomes, Stops
<1>8. CASE Unready(a)
  BY <1>0, <1>8, LaunchingGoes, SameWorkRole DEF Unready, At, Begins, Fits, Launching
<1>9. CASE Mark(a)
  BY <1>0, <1>9, StoppingGoes, SameWorkRole DEF Mark, At, Goes, Stops
<1>10. CASE Kill(a) \/ Expel(a)
  BY <1>0, <1>10, StoppingGoes, SameWorkRole DEF Kill, Expel, At, Becomes, Stops
<1>11. CASE StopEnds(a) \/ OldStopped(a)
  BY <1>0, <1>11, StoppingGoes, SameWorkRole DEF StopEnds, OldStopped, StoppedFor, At, Goes, Stops
<1> QED
  BY <1>1, <1>2, <1>3, <1>4, <1>5, <1>6, <1>7, <1>8, <1>9, <1>10, <1>11
  DEF Step, Doctoring, Preparing, Spawning, Confirming, Stopping

LEMMA RestRoles ==
  ASSUME LifecycleTypes, ConstantsAssumption, Roles,
         \/ Calling \/ Install \/ MonitorLooks \/ Monitoring
         \/ \E p \in Pid : Exits(p) \/ Finalizing(p)
         \/ AdoptedExits
         \/ \E r \in Restarter : Supervising(r)
         \/ ShutDown \/ ShuttingDown
  PROVE  /\ \A a \in Thread : Role(a, thread'[a])
         /\ At("shutdown", "idle")' => At("shutdown", "idle")
<1>0. /\ {"operator", "monitor", "shutdown"} \subseteq Thread
      /\ "shutdown" \notin Restarter /\ Restarter \subseteq Thread
      /\ \A a \in Thread : thread[a] \in ThreadRecord /\ Fits(a, thread[a]) /\ Role(a, thread[a])
  BY ConstantsAssumption DEF Thread, LifecycleTypes, ThreadsTyped, ThreadsFit, Roles
<1>1. CASE CallStart \/ CallInstall
  <2>1. PICK r \in ThreadRecord : /\ Becomes("operator", r) /\ r.op \in {"start", "install"}
                                  /\ r.at \in {"queued", "install"}
    BY <1>1, CallingGoes
  <2>2. Role("operator", r)
    BY <2>1 DEF Role, Stops
  <2> QED
    BY <1>0, <2>1, <2>2 DEF Becomes, At
<1>2. CASE CallStop
  <2>1. CASE record.running
    <3>1. PICK from \in ThreadRecord : Begins("operator", from) /\ from.op = "stop"
      BY <1>2, <2>1, CallingGoes
    <3>2. Role("operator", thread'["operator"])
      BY <3>1 DEF Begins, Role, Stops
    <3> QED
      BY <1>0, <3>1, <3>2 DEF Begins, At
  <2>2. CASE ~record.running
    BY <1>0, <1>2, <2>2 DEF CallStop, At
  <2> QED
    BY <2>1, <2>2
<1>3. ASSUME NEW a \in {"operator", "monitor"}, RestartBegins(a)
      PROVE  /\ \A b \in Thread : Role(b, thread'[b])
             /\ At("shutdown", "idle")' => At("shutdown", "idle")
  <2>1. PICK r \in ThreadRecord : Becomes(a, r) /\ r.op = "restart" /\ r.at = "doctor"
    BY <1>0, <1>3, CallingGoes
  <2>2. Role(a, r)
    BY <2>1 DEF Role, Stops
  <2> QED
    BY <1>0, <2>1, <2>2 DEF Becomes, At
<1>4. CASE CallRestart \/ MonitorRestarts
  BY <1>3, <1>4 DEF CallRestart, MonitorRestarts
<1>5. CASE Install \/ MonitorPasses
  <2>1. PICK a \in {"operator", "monitor"} : /\ thread[a].at # "idle"
                                             /\ \E ok \in BOOLEAN : Leave(a, ok)
    BY <1>5 DEF Install, MonitorPasses, At
  <2> QED
    BY <1>0, <2>1, LeaveRole DEF At
<1>6. CASE MonitorLooks
  <2>1. Goes("monitor", "inspect")
    BY <1>6, CallingGoes
  <2>2. Role("monitor", thread'["monitor"])
    BY <1>0, <2>1 DEF Goes, Role, Stops
  <2> QED
    BY <1>0, <2>1, <2>2 DEF Goes, At
<1>7. CASE (\E p \in Pid : Exits(p) \/ Finalizing(p)) \/ AdoptedExits
  <2>1. thread' = thread
    BY <1>7 DEF Exits, Finalizing, Remove, PersistExit, Supervise, Schedule, AdoptedExits
  <2> QED
    BY <1>0, <2>1 DEF At
<1>8. ASSUME NEW r \in Restarter, Supervising(r)
      PROVE  /\ \A a \in Thread : Role(a, thread'[a])
             /\ At("shutdown", "idle")' => At("shutdown", "idle")
  <2>1. PICK x \in ThreadRecord : /\ Becomes(r, x)
                                  /\ x = Idle \/ (x.op = "supervise" /\ x.at \in {"blocked", "doctor"})
    <3>1. Idle \in ThreadRecord
      BY ConstantsAssumption DEF Idle, ThreadRecord, Ops, Place, MayPid
    <3> QED
      BY <1>8, <3>1, SupervisingGoes DEF Supervising
  <2>2. Role(r, x)
    BY <1>0, <2>1 DEF Role, Stops, Idle
  <2> QED
    BY <1>0, <2>1, <2>2 DEF Becomes, At
<1>9. CASE ShutDown \/ Quiesce
  <2>0. Quiesce => thread["shutdown"].op = "shutdown"
    BY <1>0 DEF Quiesce, At, Role
  <2>1. PICK r \in ThreadRecord : Becomes("shutdown", r) /\ r.op = "shutdown" /\ r.at \in {"monitor", "drain"}
    BY <1>9, <2>0, ShuttingDownGoes
  <2>2. Role("shutdown", r)
    BY <2>1 DEF Role, Stops
  <2> QED
    BY <1>0, <2>1, <2>2 DEF Becomes, At
<1>10. CASE MonitorStops \/ Drained
  <2>1. /\ thread'["shutdown"].op = "shutdown"
        /\ thread'["shutdown"].at \in {"pass", "done", "mark", "await"}
        /\ \A b \in Thread : b # "shutdown" => thread'[b] = thread[b]
    BY <1>0, <1>10, ShuttingDownGoes DEF MonitorStops, Drained, At, Role, Goes, Begins
  <2>2. Role("shutdown", thread'["shutdown"])
    BY <2>1 DEF Role
  <2> QED
    BY <1>0, <2>1, <2>2 DEF At
<1>11. CASE PassEnds
  <2>1. Leave("shutdown", TRUE) /\ thread["shutdown"].at = "await" /\ thread["shutdown"].op = "shutdown"
    BY <1>0, <1>11 DEF PassEnds, StoppedFor, At, Role
  <2> QED
    BY <1>0, <2>1, LeaveRole DEF At
<1> QED
  BY <1>1, <1>2, <1>4, <1>5, <1>6, <1>7, <1>8, <1>9, <1>10, <1>11
  DEF Calling, Monitoring, ShuttingDown

(* What has failed stays failed, what was overtaken stays so. *)
LEMMA HistoryGrows ==
  ASSUME Roles, [Next]_vars
  PROVE  /\ overtaken' \in BOOLEAN
         /\ overtaken => overtaken'
         /\ degraded \subseteq degraded'
<1>0. overtaken \in BOOLEAN
  BY DEF Roles
<1>1. ASSUME NEW a \in Thread, Doctoring(a) \/ Preparing(a)
      PROVE  overtaken' = overtaken /\ degraded' = degraded
  BY <1>1 DEF Doctoring, DoctorAllows, DoctorRefuses, Preparing, EnterStart, Adopt, Negotiate, Check,
     Classify, Clear, history
<1>2. ASSUME NEW a \in Thread, Spawning(a) \/ Confirming(a)
      PROVE  overtaken' = overtaken /\ degraded \subseteq degraded'
  BY <1>2 DEF Spawning, Spawn, SpawnFails, Enrol, Contain, Retain, Activate,
     Confirming, Ready, Unready, Own, Settle, history
<1>3. ASSUME NEW a \in Thread, Stopping(a)
      PROVE  overtaken' = overtaken /\ degraded \subseteq degraded'
  BY <1>3 DEF Stopping, Mark, Kill, Expel, StopFails, GivesUp, StopEnds, StopRecords, OldStopped,
     NewStopped, history
<1>4. ASSUME Calling \/ Install \/ MonitorLooks \/ Monitoring
      PROVE  overtaken' = overtaken /\ degraded \subseteq degraded'
  BY <1>4 DEF Calling, CallStart, CallStop, CallRestart, CallInstall, RestartBegins, Install,
     MonitorLooks, Monitoring, MonitorRestarts, MonitorPasses, history
<1>5. ASSUME AdoptedExits \/ \E p \in Pid : Exits(p) \/ Finalizing(p)
      PROVE  overtaken' = overtaken /\ degraded' = degraded
  BY <1>5 DEF AdoptedExits, Exits, Finalizing, Remove, PersistExit, Supervise, Schedule, history
<1>6. ASSUME NEW r \in Restarter, Supervising(r)
      PROVE  overtaken' \in BOOLEAN /\ (overtaken => overtaken') /\ degraded' = degraded
  BY <1>0, <1>6 DEF Supervising, TimerFires, Blocked, Decide, history
<1>7. ASSUME ShutDown \/ ShuttingDown
      PROVE  overtaken' = overtaken /\ degraded' = degraded
  BY <1>7 DEF ShutDown, ShuttingDown, MonitorStops, Quiesce, Drained, PassEnds, history
<1>8. ASSUME UNCHANGED vars
      PROVE  overtaken' = overtaken /\ degraded' = degraded
  BY <1>8 DEF vars, history
<1> QED
  BY <1>0, <1>1, <1>2, <1>3, <1>4, <1>5, <1>6, <1>7, <1>8 DEF Next, Step

LEMMA RolesStay ==
  ASSUME LifecycleTypes, ConstantsAssumption, Roles, [Next]_vars
  PROVE  /\ Roles'
         /\ At("shutdown", "idle")' => At("shutdown", "idle")
<1>0. /\ "shutdown" \in Thread
      /\ \A a \in Thread : Role(a, thread[a])
  BY DEF Thread, Roles
<1>1. /\ \A a \in Thread : Role(a, thread'[a])
      /\ At("shutdown", "idle")' => At("shutdown", "idle")
  <2>1. ASSUME NEW a \in Thread, Step(a)
        PROVE  /\ \A b \in Thread : Role(b, thread'[b])
               /\ At("shutdown", "idle")' => At("shutdown", "idle")
    <3>1. RoleStep(a)
      BY <2>1, StepRole
    <3>2. \A b \in Thread : Role(b, thread'[b])
      BY <1>0, <3>1 DEF RoleStep
    <3>3. At("shutdown", "idle")' => At("shutdown", "idle")
      BY <1>0, <3>1 DEF RoleStep, Role, At
    <3> QED
      BY <3>2, <3>3
  <2>2. CASE UNCHANGED vars
    BY <1>0, <2>2 DEF vars, At
  <2> QED
    BY <2>1, <2>2, RestRoles DEF Next
<1> QED
  BY <1>1, HistoryGrows DEF Roles, Role

LEMMA CalmStays ==
  ASSUME LifecycleTypes, ConstantsAssumption, Roles, [Next]_vars, Calm'
  PROVE  Calm
<1>1. ~overtaken /\ degraded = {}
  BY HistoryGrows DEF Calm
<1>2. At("shutdown", "idle")
  BY RolesStay DEF Calm
<1>3. ~overlapped
  BY OverlappedStays DEF Calm
<1> QED
  BY <1>1, <1>2, <1>3 DEF Calm

-----------------------------------------------------------------------------
(***************************************************************************)
(* The invariant.  What holds the store and the tables together:           *)
(*   - one finalizer is under way, and it is known: a launch waits for it; *)
(*   - a launch begins when the store says not running, and nothing is     *)
(*     managed until it has its process;                                   *)
(*   - what is managed is recorded;                                        *)
(*   - a record that says running with nothing managed is about to be      *)
(*     corrected, by the finalizer of a process that ended unexpectedly or *)
(*     by the thread that stopped it;                                      *)
(*   - while the operator's stop is under way, nothing is launched, so that*)
(*     what the stop records in the end is right.                          *)
(***************************************************************************)
Busy(p) == proc[p].stage \in {"tracked", "removed", "persisted", "scheduling"}

OneRestart == \A r \in Restarter : ~At(r, "idle") => active = r

Finalized == \A p \in Pid : Busy(p) => finalizer = p
TrackedManaged == \A p \in Pid : proc[p].stage = "tracked" => managed = p
Unmarked == \A p \in Pid : proc[p].stage \in {"unborn", "launched"} => ~proc[p].stopping

(* What a thread knows at the place it is at. *)
Awaits(a) ==
  /\ At(a, "check") => \A p \in Pid : Busy(p) => thread[a].wait = p
  /\ thread[a].at \in {"owner", "clear", "spawn", "enrol", "activate"} => \A p \in Pid : ~Busy(p)
MayLaunch(a) ==
  \/ thread[a].at \in Before
  \/ At(a, "doctor") /\ thread[a].op = "restart" /\ ~thread[a].was
Owns(a) == thread[a].at \in {"ready", "own", "settle"} => managed \in {None, thread[a].pid}
Stopped(a) ==
  a # "shutdown" => /\ At(a, "await") => managed \in {None, thread[a].wait}
                    /\ At(a, "ending") => managed = None
Knows(a) == Awaits(a) /\ (MayLaunch(a) => ~record.running) /\ Owns(a) /\ Stopped(a)

ManagedRecorded == managed # None => record.running /\ record.pid = managed
SomeStop == \E a \in Thread : thread[a].at \in Stops
RunningExplained ==
  (record.running /\ managed = None) => SomeStop \/ \E p \in Pid : proc[p].stage = "removed"
StoppingExplained == \A p \in Pid : (proc[p].stage = "tracked" /\ proc[p].stopping) => SomeStop

(* The operator's stop is under way. *)
StopHeld == thread["operator"].op = "stop" /\ thread["operator"].at \in Stops
StopHolds == StopHeld =>
  /\ timer = 0
  /\ \A p \in Pid : Busy(p) => proc[p].stage = "tracked" /\ proc[p].stopping
  /\ \A a \in Thread : thread[a].at \notin Before
  /\ ~record.running => \A r \in Restarter : thread[r].at \in {"idle", "decide", "blocked"}

StoreKept ==
  /\ Finalized /\ TrackedManaged /\ Unmarked
  /\ \A a \in Thread : Knows(a)
  /\ ManagedRecorded /\ RunningExplained /\ StoppingExplained
  /\ StopHolds

StoreInv == SoleInv /\ Roles /\ (Calm => OneRestart /\ StoreKept)

(* What the steps below start from. *)
SureStore == LifecycleTypes /\ TurnInv /\ Sole /\ Roles /\ Calm /\ OneRestart /\ StoreKept

-----------------------------------------------------------------------------
(* The managed process is the one whose finalizer is under way. *)
LEMMA ManagedBusy ==
  ASSUME SureStore
  PROVE  /\ managed # None => managed \in Pid /\ Busy(managed) /\ finalizer = managed
         /\ \A p \in Pid : Busy(p) /\ managed # None => p = managed
<1>1. managed # None => managed \in Pid /\ proc[managed].stage = "tracked"
  BY DEF SureStore, LifecycleTypes, ProcTyped, MayPid, Sole, ManagedTracked
<1> QED
  BY <1>1 DEF SureStore, StoreKept, Finalized, Busy

(* Before a launch has its process, nothing is managed. *)
LEMMA LaunchUnmanaged ==
  ASSUME SureStore, NEW a \in Thread, MayLaunch(a)
  PROVE  ~record.running /\ managed = None
BY DEF SureStore, StoreKept, Knows, ManagedRecorded

(* While a thread stops a process, no other launches one. *)
LEMMA StopAlone ==
  ASSUME SureStore, NEW a \in Thread, a # "shutdown", thread[a].at \in Stops,
         NEW b \in Thread, b # a, thread[b].at \in Before
  PROVE  FALSE
<1>1. /\ Fits(a, thread[a]) /\ Fits(b, thread[b]) /\ Role(a, thread[a])
      /\ thread[a].op \in {"start", "supervise", "restart", "stop"}
  BY DEF SureStore, LifecycleTypes, ThreadsFit, Roles, Role
<1>2. Working(a)
  BY <1>1 DEF Working, Stops
<1>3. thread[b].op \in {"start", "supervise", "restart"} /\ Working(b)
  BY <1>1 DEF Fits, Launching, Before, Working
<1>4. CASE thread[a].op = "restart" \/ thread[b].op = "restart"
  BY <1>2, <1>3, <1>4 DEF SureStore, Sole, Alone
<1>5. CASE thread[a].op \in {"start", "supervise"} /\ thread[b].op \in {"start", "supervise"}
  BY <1>2, <1>3, <1>5 DEF SureStore, TurnInv, Turn, Holds
<1>6. CASE thread[a].op = "stop"
  BY <1>1, <1>6 DEF Role, SureStore, StoreKept, StopHolds, StopHeld
<1> QED
  BY <1>1, <1>3, <1>4, <1>5, <1>6

(* What a step that records nothing and ends no finalizer does. *)
QuietStore ==
  /\ record'.running = record.running /\ record'.pid = record.pid
  /\ managed' = managed /\ finalizer' = finalizer
  /\ timer' \in {0, timer}
  /\ \A p \in Pid :
       \/ proc'[p].stage = proc[p].stage /\ (p # managed => proc'[p].stopping = proc[p].stopping)
       \/ proc[p].stage = "unborn" /\ proc'[p].stage = "launched" /\ proc'[p].stopping = proc[p].stopping
       \/ proc[p].stage = "launched" /\ proc'[p].stage = "done"
  /\ \A p \in Pid : proc[p].stopping => proc'[p].stopping

LEMMA QuietBusy ==
  ASSUME QuietStore, NEW p \in Pid
  PROVE  /\ Busy(p)' <=> Busy(p)
         /\ proc'[p].stage \in {"tracked", "removed"} \/ proc[p].stage \in {"tracked", "removed"}
              => proc'[p].stage = proc[p].stage
BY DEF QuietStore, Busy

(* What its thread knows then, in terms of the state before. *)
KnowsNext(a) ==
  /\ thread'[a].at = "check" => \A p \in Pid : Busy(p) => thread'[a].wait = p
  /\ thread'[a].at \in {"owner", "clear", "spawn", "enrol", "activate"} => \A p \in Pid : ~Busy(p)
  /\ MayLaunch(a)' => ~record.running
  /\ thread'[a].at \in {"ready", "own", "settle"} => managed \in {None, thread'[a].pid}
  /\ a # "shutdown" => /\ thread'[a].at = "await" => managed \in {None, thread'[a].wait}
                       /\ thread'[a].at = "ending" => managed = None

QuietStep(a) ==
  /\ \A b \in Thread : b # a => thread'[b] = thread[b]
  /\ KnowsNext(a)
  /\ thread[a].at \in Stops => thread'[a].at \in Stops
  /\ thread'[a].at \in Stops \/ \A p \in Pid : proc'[p].stopping = proc[p].stopping

(* A stop of the operator that is under way is not disturbed. *)
HoldsOn(a) ==
  /\ StopHeld' => StopHeld
  /\ StopHeld => /\ thread'[a].at \notin Before
                 /\ ~record.running /\ a \in Restarter => thread'[a].at \in {"idle", "decide", "blocked"}

LEMMA QuietKeepsStore ==
  ASSUME SureStore, NEW a \in Thread, QuietStore, QuietStep(a), StopHolds'
  PROVE  StoreKept'
<1> USE DEF SureStore, StoreKept
<1>1. Finalized' /\ TrackedManaged'
  BY QuietBusy DEF Finalized, TrackedManaged, QuietStore
<1>2. Unmarked'
  <2> SUFFICES ASSUME NEW p \in Pid, proc'[p].stage \in {"unborn", "launched"} PROVE ~proc'[p].stopping
    BY DEF Unmarked
  <2>1. proc[p].stage \in {"unborn", "launched"}
    BY DEF QuietStore
  <2>2. p # managed
    BY <2>1, ManagedBusy DEF Busy, Pid, None
  <2> QED
    BY <2>1, <2>2 DEF Unmarked, QuietStore
<1>3. ASSUME NEW b \in Thread PROVE Knows(b)'
  <2>1. CASE b # a
    <3>1. thread'[b] = thread[b] /\ Knows(b)
      BY <2>1 DEF QuietStep
    <3>2. Awaits(b)'
      BY <3>1, QuietBusy DEF Knows, Awaits, At
    <3>3. (MayLaunch(b)' => ~record'.running) /\ Owns(b)' /\ Stopped(b)'
      BY <3>1 DEF Knows, MayLaunch, Owns, Stopped, At, QuietStore
    <3> QED
      BY <3>2, <3>3 DEF Knows
  <2>2. CASE b = a
    <3>1. Awaits(a)'
      BY QuietBusy DEF QuietStep, KnowsNext, Awaits, At
    <3>2. (MayLaunch(a)' => ~record'.running) /\ Owns(a)' /\ Stopped(a)'
      BY DEF QuietStep, KnowsNext, Owns, Stopped, At, QuietStore
    <3> QED
      BY <2>2, <3>1, <3>2 DEF Knows
  <2> QED
    BY <2>1, <2>2
<1>4. ManagedRecorded'
  BY DEF ManagedRecorded, QuietStore
<1>5. SomeStop => SomeStop'
  BY DEF SomeStop, QuietStep
<1>6. RunningExplained'
  <2>1. (\E p \in Pid : proc[p].stage = "removed") => \E p \in Pid : proc'[p].stage = "removed"
    BY QuietBusy
  <2> QED
    BY <1>5, <2>1 DEF RunningExplained, QuietStore
<1>7. StoppingExplained'
  <2>1. CASE thread'[a].at \in Stops
    BY <2>1 DEF StoppingExplained, SomeStop
  <2>2. CASE \A p \in Pid : proc'[p].stopping = proc[p].stopping
    BY <1>5, <2>2, QuietBusy DEF StoppingExplained
  <2> QED
    BY <2>1, <2>2 DEF QuietStep
<1> QED
  BY <1>1, <1>2, <1>3, <1>4, <1>6, <1>7

LEMMA QuietHolds ==
  ASSUME SureStore, NEW a \in Thread, QuietStore, HoldsOn(a),
         \A b \in Thread : b # a => thread'[b] = thread[b]
  PROVE  StopHolds'
<1> SUFFICES ASSUME StopHeld'
             PROVE  /\ timer' = 0
                    /\ \A p \in Pid : Busy(p)' => proc'[p].stage = "tracked" /\ proc'[p].stopping
                    /\ \A b \in Thread : thread'[b].at \notin Before
                    /\ ~record'.running => \A r \in Restarter : thread'[r].at \in {"idle", "decide", "blocked"}
  BY DEF StopHolds
<1>1. /\ timer = 0
      /\ \A p \in Pid : Busy(p) => proc[p].stage = "tracked" /\ proc[p].stopping
      /\ \A b \in Thread : thread[b].at \notin Before
      /\ ~record.running => \A r \in Restarter : thread[r].at \in {"idle", "decide", "blocked"}
  BY DEF HoldsOn, SureStore, StoreKept, StopHolds
<1>2. \A p \in Pid : Busy(p)' => proc'[p].stage = "tracked" /\ proc'[p].stopping
  BY <1>1, QuietBusy DEF QuietStore
<1>3. \A b \in Thread : thread'[b].at \notin Before
  BY <1>1 DEF HoldsOn
<1>4. ~record'.running => \A r \in Restarter : thread'[r].at \in {"idle", "decide", "blocked"}
  <2>1. Restarter \subseteq Thread
    BY DEF Thread
  <2> QED
    BY <1>1, <2>1 DEF HoldsOn, QuietStore
<1> QED
  BY <1>1, <1>2, <1>3, <1>4 DEF QuietStore

-----------------------------------------------------------------------------
(* The kinds of quiet steps. *)
LEMMA StillQuiet ==
  ASSUME UNCHANGED <<proc, managed, finalizer>>,
         record'.running = record.running, record'.pid = record.pid, timer' \in {0, timer}
  PROVE  QuietStore
BY DEF QuietStore

LEMMA BeginQuiet ==
  ASSUME NEW a \in Thread, NEW from, Begins(a, from), UNCHANGED <<record, managed, finalizer>>,
         timer' \in {0, timer}
  PROVE  QuietStore
BY DEF Begins, QuietStore

(* With nothing managed there is nothing to await. *)
LEMMA BeginAwaits ==
  ASSUME SureStore, NEW a \in Thread, NEW from \in ThreadRecord, BeginStop(a, from),
         Begins(a, from), thread'[a].at = "await"
  PROVE  managed = None
<1> DEFINE r == [from EXCEPT !.at = IF HasManagedProcess THEN "mark" ELSE "await",
                             !.wait = StopTarget(a)]
<1>1. thread' = [thread EXCEPT ![a] = r] /\ thread \in [Thread -> ThreadRecord]
  BY DEF BeginStop, SureStore, LifecycleTypes, ThreadsTyped
<1>2. r.at = IF HasManagedProcess THEN "mark" ELSE "await"
  BY DEF ThreadRecord
<1> HIDE DEF r
<1>3. ~HasManagedProcess
  BY <1>1, <1>2
<1> QED
  BY <1>3 DEF HasManagedProcess

(* A thread that goes on does not disturb the operator's stop. *)
LEMMA HoldsGoes ==
  ASSUME SureStore, ConstantsAssumption, NEW a \in Thread,
         \A b \in Thread : b # a => thread'[b] = thread[b],
         thread[a].at \notin {"idle", "decide", "blocked"},
         thread'[a].op = "stop" /\ thread'[a].at \in Stops => thread[a].op = "stop" /\ thread[a].at \in Stops,
         thread'[a].at \in Before =>
           \/ thread[a].at \in Before \/ thread[a].op = "restart"
           \/ ~record.running /\ a \in Restarter \cup {"operator"} /\ thread[a].at \notin Stops
  PROVE  HoldsOn(a)
<1>0. "operator" \in Thread
  BY DEF Thread
<1>1. StopHeld' => StopHeld
  BY <1>0 DEF StopHeld
<1>2. ASSUME StopHeld PROVE thread[a].op # "restart"
  <2>1. Working("operator") /\ thread["operator"].op = "stop"
    BY <1>2 DEF StopHeld, Working
  <2> QED
    BY <1>0, <2>1 DEF SureStore, Sole, Alone, Working
<1>3. ASSUME StopHeld, ~record.running PROVE a \notin Restarter
  BY <1>3 DEF SureStore, StoreKept, StopHolds
<1>4. ASSUME StopHeld PROVE thread'[a].at \notin Before
  BY <1>2, <1>3, <1>4 DEF SureStore, StoreKept, StopHolds, StopHeld
<1> QED
  BY <1>1, <1>3, <1>4 DEF HoldsOn

LEMMA GoesKeepsStore ==
  ASSUME SureStore, ConstantsAssumption, NEW a \in Thread, QuietStore, QuietStep(a),
         thread[a].at \notin {"idle", "decide", "blocked"},
         thread'[a].op = "stop" /\ thread'[a].at \in Stops => thread[a].op = "stop" /\ thread[a].at \in Stops,
         thread'[a].at \in Before =>
           \/ thread[a].at \in Before \/ thread[a].op = "restart"
           \/ ~record.running /\ a \in Restarter \cup {"operator"} /\ thread[a].at \notin Stops
  PROVE  StoreKept'
<1>1. HoldsOn(a)
  BY HoldsGoes DEF QuietStep
<1> QED
  BY <1>1, QuietHolds, QuietKeepsStore DEF QuietStep

(* Work ends and nothing else changes. *)
LEMMA LeavesKeepsStore ==
  ASSUME SureStore, ConstantsAssumption, NEW a \in Thread, QuietStore, Leaves(a),
         thread[a].at \notin Stops \cup {"idle", "decide", "blocked"},
         \A p \in Pid : proc'[p].stopping = proc[p].stopping
  PROVE  StoreKept'
<1>1. KnowsNext(a) /\ thread'[a].at \notin Before \cup Stops
  BY DEF Leaves, KnowsNext, MayLaunch, At, Before, Stops
<1>2. QuietStep(a)
  BY DEF QuietStep, Leaves, KnowsNext, MayLaunch, At, Before
<1> QED
  BY <1>1, <1>2, GoesKeepsStore

LEMMA BeginsKeepsStore ==
  ASSUME SureStore, ConstantsAssumption, NEW a \in Thread, NEW from \in ThreadRecord,
         BeginStop(a, from), Begins(a, from), from.op # "stop",
         UNCHANGED <<record, managed, finalizer, timer>>,
         thread[a].at \notin {"idle", "decide", "blocked"}
  PROVE  StoreKept'
<1>1. QuietStore
  BY BeginQuiet
<1>2. thread'[a].at \in {"mark", "await"} /\ thread'[a].op # "stop"
  BY DEF Begins
<1>3. KnowsNext(a)
  BY <1>2, BeginAwaits DEF KnowsNext, MayLaunch, At, Before
<1>4. QuietStep(a)
  BY <1>2, <1>3 DEF QuietStep, Begins, Stops
<1> QED
  BY <1>1, <1>2, <1>4, GoesKeepsStore DEF Before

LEMMA PreparingKeepsStore ==
  ASSUME SureStore, ConstantsAssumption, LifecycleTypes', Sole', NEW a \in Thread,
         Doctoring(a) \/ Preparing(a)
  PROVE  StoreKept'
<1>0. /\ thread[a] \in ThreadRecord /\ Fits(a, thread[a]) /\ Role(a, thread[a])
      /\ LifecycleTypes
      /\ Knows(a)
  BY DEF SureStore, LifecycleTypes, ThreadsTyped, ThreadsFit, Roles, StoreKept
<1>1. CASE DoctorAllows(a)
  <2>1. thread[a].at = "doctor" /\ UNCHANGED <<record, managed, finalizer, timer>>
    BY <1>1 DEF DoctorAllows, At, plans
  <2>2. CASE thread[a].was
    <3>1. BeginStop(a, thread[a]) /\ Begins(a, thread[a])
      BY <1>0, <1>1, <2>2, PreparingGoes DEF DoctorAllows
    <3> QED
      BY <1>0, <2>1, <3>1, BeginsKeepsStore DEF Fits
  <2>3. CASE ~thread[a].was
    <3>1. QuietStore /\ UNCHANGED proc
      BY <1>1, <2>1, <2>3, StillQuiet DEF DoctorAllows
    <3>2. CASE thread[a].op = "restart"
      <4>1. Goes(a, "negotiate")
        BY <1>0, <1>1, <2>3, <3>2, PreparingGoes
      <4>2. ~record.running
        BY <1>0, <2>1, <2>3, <3>2 DEF Knows, MayLaunch, At
      <4>3. QuietStep(a)
        BY <2>1, <3>1, <4>1, <4>2 DEF QuietStep, KnowsNext, Goes, Stops
      <4> QED
        BY <2>1, <3>1, <3>2, <4>1, <4>3, GoesKeepsStore DEF Goes, Stops
    <3>3. CASE thread[a].op # "restart"
      <4>1. Goes(a, "queued")
        BY <1>0, <1>1, <2>3, <3>3, PreparingGoes
      <4>2. QuietStep(a)
        BY <2>1, <3>1, <4>1 DEF QuietStep, KnowsNext, MayLaunch, At, Before, Goes, Stops
      <4> QED
        BY <2>1, <3>1, <4>1, <4>2, GoesKeepsStore DEF Goes, Stops, Before
    <3> QED
      BY <3>2, <3>3
  <2> QED
    BY <2>2, <2>3
<1>2. CASE DoctorRefuses(a)
  <2>1. /\ Leaves(a) /\ thread[a].at = "doctor"
        /\ UNCHANGED <<proc, managed, finalizer, record, timer>>
    BY <1>0, <1>2, PreparingGoes DEF DoctorRefuses, At, plans, tables
  <2> QED
    BY <2>1, StillQuiet, LeavesKeepsStore DEF Stops
<1>3. CASE EnterStart(a)
  <2>1. /\ thread[a].at = "queued" /\ Head(starting) = a
        /\ UNCHANGED <<proc, managed, finalizer, record>> /\ timer' \in {0, timer}
    BY <1>3 DEF EnterStart, MyTurn, At, tables, TakesBack
  <2>2. CASE record.running
    <3>1. Leaves(a)
      BY <1>0, <1>3, <2>2, PreparingGoes
    <3> QED
      BY <2>1, <3>1, StillQuiet, LeavesKeepsStore DEF Stops
  <2>3. CASE ~record.running
    <3>1. Goes(a, "negotiate")
      BY <1>0, <1>3, <2>3, PreparingGoes
    <3>2. a \in Restarter \cup {"operator"}
      BY <1>0, <2>1 DEF Fits, Role
    <3>3. QuietStep(a)
      BY <2>1, <2>3, <3>1 DEF QuietStep, KnowsNext, Goes, Stops
    <3> QED
      BY <2>1, <2>3, <3>1, <3>2, <3>3, StillQuiet, GoesKeepsStore DEF Goes, Stops
  <2> QED
    BY <2>2, <2>3
<1>4. CASE Adopt(a)
  <2>1. adopted' = [pid |-> row.pid, stopping |-> FALSE] /\ row.pid \in live
    BY <1>4 DEF Adopt, OwnedByOthers
  <2>2. adopted'.pid \in Pid
    BY <1>0, <2>1 DEF LifecycleTypes, ProcTyped
  <2> QED
    BY <2>2 DEF Sole, NoneAdopted, Pid, None
<1>5. CASE Negotiate(a)
  <2>1. /\ thread[a].at = "negotiate"
        /\ UNCHANGED <<proc, managed, finalizer, record, timer>>
    BY <1>5 DEF Negotiate, At, plans, tables
  <2>2. /\ thread'[a].at = "check" /\ thread'[a].op = thread[a].op /\ thread'[a].wait = finalizer
        /\ \A b \in Thread : b # a => thread'[b] = thread[b]
    BY <1>0, <1>5 DEF Negotiate, LifecycleTypes, ThreadsTyped, ThreadRecord
  <2>3. ~record.running
    BY <1>0, <2>1 DEF Knows, MayLaunch, Before
  <2>4. QuietStep(a)
    BY <2>1, <2>2, <2>3 DEF QuietStep, KnowsNext, Stops, SureStore, StoreKept, Finalized
  <2> QED
    BY <2>1, <2>2, <2>4, StillQuiet, GoesKeepsStore DEF Stops, Before
<1>6. CASE Check(a)
  <2>1. /\ thread[a].at = "check" /\ Finished(thread[a].wait)
        /\ UNCHANGED <<proc, managed, finalizer, record, timer>>
    BY <1>6 DEF Check, At, plans, tables
  <2>2. CASE HasManagedProcess
    BY <1>0, <1>6, <2>1, <2>2, PreparingGoes, StillQuiet, LeavesKeepsStore DEF Stops
  <2>3. CASE ~HasManagedProcess
    <3>1. Goes(a, "owner")
      BY <1>0, <1>6, <2>3, PreparingGoes
    <3>2. \A p \in Pid : ~Busy(p)
      BY <1>0, <2>1 DEF Knows, Awaits, At, Finished, Busy, Pid, None
    <3>3. ~record.running
      BY <1>0, <2>1 DEF Knows, MayLaunch, Before
    <3>4. QuietStep(a)
      BY <2>1, <3>1, <3>2, <3>3 DEF QuietStep, KnowsNext, Goes, Stops
    <3> QED
      BY <2>1, <3>1, <3>4, StillQuiet, GoesKeepsStore DEF Goes, Stops, Before
  <2> QED
    BY <2>2, <2>3
<1>7. CASE Classify(a) \/ Clear(a)
  <2>1. /\ thread[a].at \in {"owner", "clear"}
        /\ UNCHANGED <<proc, managed, finalizer, record, timer>>
    BY <1>7 DEF Classify, Clear, At, plans, tables
  <2>2. CASE Leaves(a)
    BY <2>1, <2>2, StillQuiet, LeavesKeepsStore DEF Stops
  <2>3. CASE ~Leaves(a)
    <3>1. PICK place \in {"clear", "spawn"} : Goes(a, place)
      BY <1>0, <1>7, <2>3, PreparingGoes
    <3>2. ~record.running /\ \A p \in Pid : ~Busy(p)
      BY <1>0, <2>1 DEF Knows, MayLaunch, Before, Awaits
    <3>3. QuietStep(a)
      BY <2>1, <3>1, <3>2 DEF QuietStep, KnowsNext, Goes, Stops
    <3> QED
      BY <2>1, <3>1, <3>3, StillQuiet, GoesKeepsStore DEF Goes, Stops, Before
  <2> QED
    BY <2>2, <2>3
<1> QED
  BY <1>1, <1>2, <1>3, <1>4, <1>5, <1>6, <1>7 DEF Doctoring, Preparing

-----------------------------------------------------------------------------
(* The store is corrected: it says not running, and nothing is managed. *)
LEMMA StoppedKeepsStore ==
  ASSUME SureStore, ConstantsAssumption, NEW a \in Thread,
         UNCHANGED <<proc, managed, finalizer, timer>>, ~record'.running, managed = None,
         \A b \in Thread : b # a => thread'[b] = thread[b],
         thread'[a].at \in {"idle", "decide", "pass", "negotiate"},
         a \in Restarter => thread'[a].at \in {"idle", "decide"},
         thread[a].at # "idle",
         StopHeld /\ a # "operator" => a \in Restarter
  PROVE  StoreKept'
<1> USE DEF SureStore, StoreKept
<1>1. Finalized' /\ TrackedManaged' /\ Unmarked'
  BY DEF Finalized, TrackedManaged, Unmarked, Busy
<1>2. ASSUME NEW b \in Thread PROVE Knows(b)'
  <2>1. CASE b # a
    <3>1. thread'[b] = thread[b] /\ Knows(b)
      BY <2>1
    <3>2. Awaits(b)' /\ Owns(b)' /\ Stopped(b)'
      BY <3>1 DEF Knows, Awaits, Owns, Stopped, At, Busy
    <3> QED
      BY <3>2 DEF Knows
  <2>2. CASE b = a
    BY <2>2 DEF Knows, Awaits, Owns, Stopped, At
  <2> QED
    BY <2>1, <2>2
<1>3. ManagedRecorded' /\ RunningExplained'
  BY DEF ManagedRecorded, RunningExplained
<1>4. StoppingExplained'
  BY DEF StoppingExplained, TrackedManaged, Pid, None
<1>5. StopHolds'
  <2> SUFFICES ASSUME StopHeld'
               PROVE  /\ timer' = 0
                      /\ \A p \in Pid : Busy(p)' => proc'[p].stage = "tracked" /\ proc'[p].stopping
                      /\ \A b \in Thread : thread'[b].at \notin Before
                      /\ \A r \in Restarter : thread'[r].at \in {"idle", "decide", "blocked"}
    BY DEF StopHolds
  <2>1. "operator" \in Thread /\ Restarter \subseteq Thread
    BY DEF Thread
  <2>2. a # "operator"
    BY DEF StopHeld, Stops
  <2>3. StopHeld /\ a \in Restarter
    BY <2>1, <2>2 DEF StopHeld
  <2>4. \A r \in Restarter : r # a => thread'[r].at = "idle"
    BY <2>1, <2>3 DEF OneRestart, At
  <2> QED
    BY <2>1, <2>3, <2>4 DEF StopHolds, Busy, Before
<1> QED
  BY <1>1, <1>2, <1>3, <1>4, <1>5

(* A launch has its process. *)
LEMMA TrackKeepsStore ==
  ASSUME SureStore, ConstantsAssumption, NEW a \in Thread, Activate(a)
  PROVE  StoreKept'
<1> DEFINE q == thread[a].pid
<1> USE DEF SureStore, StoreKept
<1>0. /\ thread[a].at = "activate" /\ q \in Pid
      /\ proc[q].stage = "launched"
      /\ LifecycleTypes
  BY DEF Activate, At, LifecycleTypes, ThreadsFit, Fits, Sole, Launched
<1>1. /\ managed' = q /\ finalizer' = q /\ timer' = timer
      /\ proc' = [proc EXCEPT ![q].stage = "tracked"]
      /\ record'.running = TRUE /\ record'.pid = q
  BY <1>0 DEF Activate, Track, RunningAs, LifecycleTypes, StoreTyped, StoreRecord, plans
<1>2. /\ thread'[a].at = "ready" /\ thread'[a].op = thread[a].op /\ thread'[a].pid = q
      /\ \A b \in Thread : b # a => thread'[b] = thread[b]
  BY <1>0, LaunchingGoes DEF Goes
<1>3. /\ managed = None /\ \A p \in Pid : ~Busy(p)
      /\ \A b \in Thread : b # a => thread[b].at \notin Launching
  BY <1>0, LaunchAlone DEF Knows, Awaits
<1>4. \A b \in Thread : b # a /\ b # "shutdown" => thread[b].at \notin Stops
  BY <1>0, StopAlone DEF Before
<1>5. \A b \in Thread : b # a => ~(At(b, "doctor") /\ thread[b].op = "restart")
  <2>1. Working(a)
    BY <1>0 DEF LifecycleTypes, ThreadsFit, Fits, Launching, Working
  <2> QED
    BY <2>1 DEF Sole, Alone, Working
<1> HIDE DEF q
<1>6. /\ proc'[q].stage = "tracked" /\ proc'[q].stopping = proc[q].stopping
      /\ \A p \in Pid : p # q => proc'[p] = proc[p]
  BY <1>0, <1>1 DEF LifecycleTypes, ProcTyped, ProcRecord
<1>7. \A p \in Pid : Busy(p)' => p = q
  BY <1>3, <1>6 DEF Busy
<1>8. Finalized' /\ TrackedManaged' /\ Unmarked'
  BY <1>1, <1>6, <1>7 DEF Finalized, TrackedManaged, Unmarked, Busy
<1>9. ASSUME NEW b \in Thread PROVE Knows(b)'
  <2>1. CASE b # a
    <3>1. thread'[b] = thread[b] /\ thread[b].at \notin Launching
      BY <1>2, <1>3, <2>1
    <3>2. Awaits(b)' /\ Owns(b)' /\ ~MayLaunch(b)'
      BY <1>5, <2>1, <3>1 DEF Awaits, Owns, MayLaunch, At, Launching, Before
    <3>3. Stopped(b)'
      BY <1>4, <2>1, <3>1 DEF Stopped, At, Stops
    <3> QED
      BY <3>2, <3>3 DEF Knows
  <2>2. CASE b = a
    BY <1>1, <1>2, <2>2 DEF Knows, Awaits, Owns, MayLaunch, Stopped, At, Before
  <2> QED
    BY <2>1, <2>2
<1>10. ManagedRecorded' /\ RunningExplained'
  BY <1>0, <1>1 DEF ManagedRecorded, RunningExplained, Pid, None
<1>11. StoppingExplained'
  BY <1>0, <1>3, <1>6 DEF StoppingExplained, Unmarked, Busy
<1>12. StopHolds'
  <2>1. ~StopHeld
    BY <1>0 DEF StopHolds, Before
  <2>2. "operator" \in Thread
    BY DEF Thread
  <2>3. ~StopHeld'
    BY <1>2, <2>1, <2>2 DEF StopHeld, Stops
  <2> QED
    BY <2>3 DEF StopHolds
<1> QED
  BY <1>8, <1>9, <1>10, <1>11, <1>12

LEMMA SpawnKeepsStore ==
  ASSUME SureStore, ConstantsAssumption, NEW a \in Thread, Spawn(a)
  PROVE  StoreKept'
<1>0. /\ thread[a].at = "spawn" /\ LifecycleTypes /\ Knows(a)
      /\ UNCHANGED <<record, managed, finalizer, timer>>
  BY DEF Spawn, At, SureStore, StoreKept, tables, plans
<1>1. /\ thread'[a].at = "enrol" /\ thread'[a].op = thread[a].op
      /\ \A b \in Thread : b # a => thread'[b] = thread[b]
  BY <1>0, SpawnBecomes DEF Becomes
<1>2. /\ SpawnedPid \in Pid /\ proc[SpawnedPid] = Unborn
      /\ proc' = [proc EXCEPT ![SpawnedPid].stage = "launched"]
  <2>1. SpawnedPid \in Pid /\ SpawnedPid > MaxSpawns - budget.spawns
    BY <1>0, SpawnBecomes, ConstantsAssumption DEF SpawnedPid, LifecycleTypes, StoreTyped, Budget
  <2> QED
    BY <2>1 DEF Spawn, SpawnedPid, SureStore, Sole, Fresh
<1>3. \A p \in Pid :
        /\ proc'[p].stopping = proc[p].stopping
        /\ \/ proc'[p].stage = proc[p].stage
           \/ proc[p].stage = "unborn" /\ proc'[p].stage = "launched"
  <2>1. \A p \in Pid : p # SpawnedPid => proc'[p] = proc[p]
    BY <1>0, <1>2 DEF LifecycleTypes, ProcTyped
  <2>2. /\ proc[SpawnedPid].stage = "unborn" /\ proc[SpawnedPid].stopping = FALSE
        /\ proc'[SpawnedPid].stage = "launched" /\ proc'[SpawnedPid].stopping = FALSE
    BY <1>0, <1>2 DEF LifecycleTypes, ProcTyped, Unborn
  <2> QED
    BY <1>2, <2>1, <2>2
<1>4. QuietStore
  BY <1>0, <1>3 DEF QuietStore
<1>5. QuietStep(a)
  BY <1>0, <1>1, <1>3 DEF QuietStep, KnowsNext, Knows, MayLaunch, Awaits, Before, Stops
<1> QED
  BY <1>0, <1>1, <1>4, <1>5, GoesKeepsStore DEF Before, Stops

LEMMA SettleKeepsStore ==
  ASSUME SureStore, ConstantsAssumption, degraded' = {}, NEW a \in Thread, Settle(a)
  PROVE  StoreKept'
<1>0. /\ thread[a] \in ThreadRecord /\ thread[a].at = "settle" /\ LifecycleTypes /\ Knows(a)
      /\ Fits(a, thread[a]) /\ Role(a, thread[a]) /\ adopted.pid = None
      /\ UNCHANGED <<proc, managed, finalizer, timer>>
  BY DEF Settle, At, SureStore, StoreKept, tables, plans, LifecycleTypes, ThreadsTyped, ThreadsFit, Roles,
     Sole, NoneAdopted
<1>1. Leaves(a)
  BY <1>0, LaunchingGoes
<1>2. thread[a].op = "restart" => HasManagedProcess
  <2> SUFFICES ASSUME thread[a].op = "restart", ~HasManagedProcess PROVE FALSE
    OBVIOUS
  <2>1. "stop" \in degraded'
    BY DEF Settle
  <2> QED
    BY <2>1
<1>3. HasManagedProcess <=> managed # None
  BY <1>0 DEF HasManagedProcess
<1>4. CASE managed # None
  <2>1. record'.running = TRUE /\ record'.pid = thread[a].pid
    BY <1>2, <1>3, <1>4 DEF Settle
  <2>2. record.running /\ record.pid = managed /\ thread[a].pid = managed
    BY <1>0, <1>4 DEF SureStore, StoreKept, ManagedRecorded, Knows, Owns
  <2>3. record.running = TRUE
    BY <1>0, <2>2 DEF LifecycleTypes, StoreTyped, StoreRecord
  <2>4. QuietStore
    BY <1>0, <2>1, <2>2, <2>3, StillQuiet
  <2> QED
    BY <1>0, <1>1, <2>4, LeavesKeepsStore DEF Stops
<1>5. CASE managed = None
  <2>1. ~record'.running
    BY <1>2, <1>3, <1>5 DEF Settle
  <2>2. /\ thread'[a].at \in {"idle", "decide", "pass"}
        /\ thread'[a].at = "pass" => thread[a].op = "shutdown"
        /\ \A b \in Thread : b # a => thread'[b] = thread[b]
    <3>1. Leave(a, TRUE)
      BY DEF Settle
    <3> QED
      BY <1>0, <1>1, <3>1, LeaveRole DEF Leaves
  <2>3. thread[a].op # "shutdown"
    BY <1>0 DEF Fits, Launching
  <2>4. StopHeld /\ a # "operator" => a \in Restarter
    <3>1. ASSUME StopHeld, thread[a].op = "restart" PROVE FALSE
      <4>1. Working("operator") /\ Working(a) /\ "operator" \in Thread /\ a # "operator"
        BY <3>1 DEF StopHeld, Working, Thread
      <4> QED
        BY <3>1, <4>1 DEF SureStore, Sole, Alone
    <3> QED
      BY <1>0, <3>1 DEF Fits, Launching, Role
  <2> QED
    BY <1>0, <1>5, <2>1, <2>2, <2>3, <2>4, StoppedKeepsStore
<1> QED
  BY <1>4, <1>5

LEMMA LaunchingKeepsStore ==
  ASSUME SureStore, ConstantsAssumption, degraded' = {}, NEW a \in Thread,
         Spawning(a) \/ Confirming(a)
  PROVE  StoreKept'
<1>0. /\ thread[a] \in ThreadRecord /\ Fits(a, thread[a]) /\ Role(a, thread[a])
      /\ LifecycleTypes
      /\ Knows(a)
  BY DEF SureStore, LifecycleTypes, ThreadsTyped, ThreadsFit, Roles, StoreKept
<1>1. CASE SpawnFails(a)
  <2>1. /\ thread[a].at = "spawn" /\ Leaves(a)
        /\ UNCHANGED <<proc, managed, finalizer, record, timer>>
    BY <1>0, <1>1, LaunchingGoes DEF SpawnFails, At, plans, tables
  <2> QED
    BY <2>1, StillQuiet, LeavesKeepsStore DEF Stops
<1>2. CASE Enrol(a)
  <2>1. /\ thread[a].at = "enrol" /\ Goes(a, "activate")
        /\ UNCHANGED <<proc, managed, finalizer, record, timer>>
    BY <1>0, <1>2, LaunchingGoes DEF Enrol, At, plans, tables
  <2>2. QuietStep(a)
    BY <1>0, <2>1 DEF QuietStep, KnowsNext, Knows, MayLaunch, Awaits, Before, Goes, Stops
  <2> QED
    BY <2>1, <2>2, StillQuiet, GoesKeepsStore DEF Goes, Stops, Before
<1>3. CASE Contain(a)
  <2>1. /\ thread[a].at \in {"enrol", "activate"} /\ Leaves(a)
        /\ UNCHANGED <<managed, finalizer, record, timer>>
        /\ thread[a].pid \in Pid /\ proc[thread[a].pid].stage = "launched"
        /\ proc' = [proc EXCEPT ![thread[a].pid].stage = "done", ![thread[a].pid].exit = "killed"]
    BY <1>0, <1>3, LaunchingGoes DEF Contain, Dies, plans, tables, Fits, SureStore, Sole, Launched
  <2>2. \A p \in Pid :
          /\ proc'[p].stopping = proc[p].stopping
          /\ \/ proc'[p].stage = proc[p].stage
             \/ proc[p].stage = "launched" /\ proc'[p].stage = "done"
    BY <1>0, <2>1 DEF LifecycleTypes, ProcTyped, ProcRecord
  <2>3. QuietStore
    BY <2>1, <2>2 DEF QuietStore
  <2> QED
    BY <2>1, <2>2, <2>3, LeavesKeepsStore DEF Stops
<1>4. CASE Retain(a)
  BY <1>4 DEF Retain
<1>5. CASE Ready(a) \/ Own(a)
  <2>1. PICK place \in {"own", "settle"} : Goes(a, place)
    BY <1>0, <1>5, LaunchingGoes
  <2>2. /\ thread[a].at \in {"ready", "own"}
        /\ UNCHANGED <<proc, managed, finalizer, record, timer>>
    BY <1>5 DEF Ready, Own, At, plans, tables
  <2>3. QuietStep(a)
    BY <1>0, <2>1, <2>2 DEF QuietStep, KnowsNext, Knows, MayLaunch, Owns, At, Before, Goes, Stops
  <2> QED
    BY <2>1, <2>2, <2>3, StillQuiet, GoesKeepsStore DEF Goes, Stops, Before
<1>6. CASE Unready(a)
  <2>1. /\ thread[a].at = "ready" /\ Begins(a, thread[a]) /\ BeginStop(a, thread[a])
        /\ UNCHANGED <<managed, finalizer, record, timer>>
    BY <1>0, <1>6, LaunchingGoes DEF Unready, At, plans
  <2>2. thread[a].op # "stop"
    BY <1>0, <2>1 DEF Fits, Launching
  <2> QED
    BY <1>0, <2>1, <2>2, BeginsKeepsStore
<1> QED
  BY <1>1, <1>2, <1>3, <1>4, <1>5, <1>6, SpawnKeepsStore, TrackKeepsStore, SettleKeepsStore
  DEF Spawning, Confirming

-----------------------------------------------------------------------------
(* What waited for the finalizer finds nothing managed. *)
LEMMA StopLeavesNothing ==
  ASSUME SureStore, NEW a \in Thread, StoppedFor(a), a # "shutdown"
  PROVE  managed = None
<1>1. managed \in {None, thread[a].wait} /\ Finished(thread[a].wait)
  BY DEF SureStore, StoreKept, Knows, Stopped, StoppedFor
<1>2. managed # None => managed \in Pid /\ proc[managed].stage = "tracked"
  BY DEF SureStore, Sole, ManagedTracked, LifecycleTypes, ProcTyped, MayPid
<1> QED
  BY <1>1, <1>2 DEF Finished

LEMMA StoppingKeepsStore ==
  ASSUME SureStore, ConstantsAssumption, degraded' = {}, NEW a \in Thread, Stopping(a)
  PROVE  StoreKept'
<1>0. /\ thread[a] \in ThreadRecord /\ Fits(a, thread[a]) /\ Role(a, thread[a])
      /\ LifecycleTypes
      /\ Knows(a)
  BY DEF SureStore, LifecycleTypes, ThreadsTyped, ThreadsFit, Roles, StoreKept
<1>1. CASE StopFails(a) \/ GivesUp(a)
  BY <1>1 DEF StopFails, GivesUp
<1>2. CASE Mark(a)
  <2>1. /\ thread[a].at = "mark" /\ thread[a].wait \in Pid
        /\ UNCHANGED <<proc, managed, finalizer, record, timer>>
    BY <1>0, <1>2 DEF Mark, At, Fits, plans, tables
  <2>2. Goes(a, "kill")
    BY <1>0, <1>2, <2>1, StoppingGoes DEF SureStore, Sole, NoneAdopted, Pid, None
  <2>3. QuietStep(a)
    BY <2>1, <2>2 DEF QuietStep, KnowsNext, MayLaunch, At, Before, Goes, Stops
  <2> QED
    BY <2>1, <2>2, <2>3, StillQuiet, GoesKeepsStore DEF Goes, Stops, Before
<1>3. CASE Kill(a)
  <2>1. /\ thread[a].at = "kill" /\ thread[a].wait \in Pid
        /\ UNCHANGED <<managed, finalizer, record, timer>>
        /\ Killed(thread[a].wait)
    BY <1>0, <1>3 DEF Kill, At, Fits, plans, tables
  <2>2. \A p \in Pid : proc'[p].stopping = proc[p].stopping /\ proc'[p].stage = proc[p].stage
    BY <1>0, <2>1 DEF Killed, LifecycleTypes, ProcTyped, ProcRecord
  <2>3. QuietStore
    BY <2>1, <2>2 DEF QuietStore
  <2>4. /\ thread'[a].at = "await" /\ thread'[a].op = thread[a].op /\ thread'[a].wait = finalizer
        /\ \A b \in Thread : b # a => thread'[b] = thread[b]
    BY <1>0, <1>3 DEF Kill, LifecycleTypes, ThreadsTyped, ThreadRecord
  <2>5. QuietStep(a)
    BY <2>1, <2>2, <2>4, ManagedBusy DEF QuietStep, KnowsNext, MayLaunch, At, Before, Stops
  <2> QED
    BY <2>1, <2>3, <2>4, <2>5, GoesKeepsStore DEF Stops, Before
<1>4. CASE Expel(a)
  BY <1>4 DEF Expel, At, SureStore, Sole, NoneAdopted
<1>5. ASSUME StoppedFor(a) PROVE managed = None /\ a # "shutdown" /\ thread[a].at = "await"
  BY <1>5, StopLeavesNothing DEF StoppedFor, At, SureStore, Calm
<1>6. CASE StopEnds(a)
  <2>1. /\ thread[a].at = "await" /\ thread[a].op = "stop" /\ managed = None
        /\ UNCHANGED <<proc, managed, finalizer, record, timer>>
    BY <1>5, <1>6 DEF StopEnds, plans, tables
  <2>2. Goes(a, "ending")
    BY <1>0, <1>6, StoppingGoes
  <2>3. QuietStep(a)
    BY <2>1, <2>2 DEF QuietStep, KnowsNext, MayLaunch, At, Before, Goes, Stops
  <2> QED
    BY <2>1, <2>2, <2>3, StillQuiet, GoesKeepsStore DEF Goes, Stops, Before
<1>7. CASE StopRecords(a) \/ NewStopped(a)
  <2>1. /\ thread[a].at \in {"ending", "await"} /\ managed = None /\ a # "shutdown"
        /\ UNCHANGED <<proc, managed, finalizer, timer>>
        /\ record' = EndedAs("stopped")
        /\ \E ok \in BOOLEAN : Leave(a, ok)
    BY <1>0, <1>5, <1>7 DEF StopRecords, NewStopped, At, plans, tables, Role, Knows, Stopped
  <2>2. /\ thread'[a].at \in {"idle", "decide", "pass"}
        /\ thread'[a].at = "pass" => thread[a].op = "shutdown"
        /\ \A b \in Thread : b # a => thread'[b] = thread[b]
    BY <1>0, <1>7, <2>1, LeaveRole, StoppingGoes DEF Leaves
  <2>3. ~record'.running
    BY <1>0, <2>1 DEF EndedAs, LifecycleTypes, StoreTyped, StoreRecord
  <2>4. thread[a].op \in {"start", "supervise", "restart", "stop"}
    BY <1>0, <2>1 DEF Role, Stops
  <2>5. StopHeld /\ a # "operator" => a \in Restarter
    <3>1. ASSUME StopHeld, thread[a].op = "restart" PROVE FALSE
      <4>1. Working("operator") /\ Working(a) /\ "operator" \in Thread /\ a # "operator"
        BY <3>1 DEF StopHeld, Working, Thread
      <4> QED
        BY <3>1, <4>1 DEF SureStore, Sole, Alone
    <3> QED
      BY <1>0, <2>4, <3>1 DEF Fits, Role
  <2> QED
    BY <2>1, <2>2, <2>3, <2>4, <2>5, StoppedKeepsStore
<1>8. CASE OldStopped(a)
  <2>1. /\ thread[a].at = "await" /\ thread[a].op = "restart" /\ managed = None
        /\ UNCHANGED <<proc, managed, finalizer, timer>>
        /\ record' = EndedAs("stopped")
    BY <1>5, <1>8 DEF OldStopped, plans, tables
  <2>2. Goes(a, "negotiate")
    BY <1>0, <1>8, StoppingGoes
  <2>3. ~record'.running
    BY <1>0, <2>1 DEF EndedAs, LifecycleTypes, StoreTyped, StoreRecord
  <2>4. a \notin Restarter
    BY <1>0, <2>1, ConstantsAssumption DEF Role
  <2>5. ASSUME StopHeld, a # "operator" PROVE FALSE
    <3>1. Working("operator") /\ Working(a) /\ "operator" \in Thread
      BY <2>1, <2>5 DEF StopHeld, Working, Thread
    <3> QED
      BY <2>1, <2>5, <3>1 DEF SureStore, Sole, Alone
  <2> QED
    BY <2>1, <2>2, <2>3, <2>4, <2>5, StoppedKeepsStore DEF Goes
<1> QED
  BY <1>1, <1>2, <1>3, <1>4, <1>6, <1>7, <1>8 DEF Stopping

-----------------------------------------------------------------------------
(* A finalizer goes on: what it finalizes is managed no more. *)
LEMMA FinalizerKeepsStore ==
  ASSUME SureStore, NEW p \in Pid, thread' = thread,
         \A q \in Pid : q # p => proc'[q] = proc[q],
         Busy(p), proc'[p].stage \in {"removed", "persisted", "scheduling", "done"},
         Busy(p)' => finalizer' = p,
         managed' = None,
         record'.running => record.running /\ (SomeStop \/ proc'[p].stage = "removed"),
         StopHeld => timer' = timer /\ ~Busy(p)' /\ record'.running = record.running
  PROVE  StoreKept'
<1> USE DEF SureStore, StoreKept
<1>1. \A q \in Pid : Busy(q) => q = p
  BY DEF Finalized
<1>2. \A q \in Pid : Busy(q)' => q = p
  BY <1>1 DEF Busy
<1>3. Finalized' /\ TrackedManaged' /\ Unmarked'
  BY <1>2 DEF Finalized, TrackedManaged, Unmarked, Busy
<1>4. ASSUME NEW b \in Thread PROVE Knows(b)'
  <2>1. Knows(b)
    OBVIOUS
  <2>2. Awaits(b)'
    BY <1>2, <2>1 DEF Knows, Awaits, At
  <2>3. (MayLaunch(b)' => ~record'.running) /\ Owns(b)' /\ Stopped(b)'
    BY <2>1 DEF Knows, MayLaunch, Owns, Stopped, At
  <2> QED
    BY <2>2, <2>3 DEF Knows
<1>5. ManagedRecorded' /\ RunningExplained'
  BY DEF ManagedRecorded, RunningExplained, SomeStop
<1>6. StoppingExplained'
  BY <1>2 DEF StoppingExplained, Busy
<1>7. StopHolds'
  <2>1. StopHeld' <=> StopHeld
    BY DEF StopHeld
  <2> QED
    BY <1>2, <2>1 DEF StopHolds
<1> QED
  BY <1>3, <1>4, <1>5, <1>6, <1>7

(* The threads stay, and so does the store. *)
LEMMA SameThreadsKeepStore ==
  ASSUME SureStore, ConstantsAssumption, QuietStore, thread' = thread,
         \A p \in Pid : proc'[p].stopping = proc[p].stopping
  PROVE  StoreKept'
<1> DEFINE o == "operator"
<1>0. o \in Thread /\ o \notin Restarter /\ Knows(o)
  BY ConstantsAssumption DEF Thread, SureStore, StoreKept
<1>1. QuietStep(o)
  BY <1>0 DEF QuietStep, KnowsNext, Knows, Awaits, MayLaunch, Owns, Stopped, At
<1>2. HoldsOn(o)
  BY <1>0 DEF HoldsOn, StopHeld, SureStore, StoreKept, StopHolds
<1> QED
  BY <1>0, <1>1, <1>2, QuietHolds, QuietKeepsStore

LEMMA ProcessKeepsStore ==
  ASSUME SureStore, ConstantsAssumption, NEW p \in Pid, Exits(p) \/ Finalizing(p)
  PROVE  StoreKept'
<1>0. /\ LifecycleTypes /\ proc \in [Pid -> ProcRecord] /\ proc[p] \in ProcRecord
      /\ Busy(p) => finalizer = p
      /\ record.running \in BOOLEAN
  BY DEF SureStore, LifecycleTypes, ProcTyped, StoreKept, Finalized, StoreTyped, StoreRecord
<1>1. CASE Exits(p)
  <2>1. /\ UNCHANGED <<managed, finalizer, record, timer>> /\ thread' = thread
        /\ \E how \in {"crashed", "exited"} : proc' = [proc EXCEPT ![p].exit = how]
    BY <1>1 DEF Exits, plans, tables
  <2>2. \A q \in Pid : proc'[q].stopping = proc[q].stopping /\ proc'[q].stage = proc[q].stage
    BY <1>0, <2>1 DEF ProcRecord
  <2>3. QuietStore
    BY <2>1, <2>2 DEF QuietStore
  <2> QED
    BY <2>1, <2>2, <2>3, SameThreadsKeepStore
<1>2. ASSUME Busy(p), proc[p].stage # "tracked" PROVE managed = None /\ ~StopHeld
  BY <1>2 DEF SureStore, StoreKept, Finalized, Busy, StopHolds, Sole, ManagedTracked,
     LifecycleTypes, ProcTyped, MayPid
<1>3. ASSUME NEW stage \in {"removed", "persisted", "scheduling", "done"},
             \/ proc' = [proc EXCEPT ![p].stage = stage]
             \/ \E n \in 0 .. MaxAttempts : proc' = [proc EXCEPT ![p].stage = stage, ![p].attempt = n]
      PROVE  /\ \A q \in Pid : q # p => proc'[q] = proc[q]
             /\ proc'[p].stage = stage
  BY <1>0, <1>3 DEF ProcRecord
<1>4. CASE Remove(p)
  <2>1. /\ proc[p].stage = "tracked" /\ Busy(p) /\ managed = p
        /\ thread' = thread /\ record' = record /\ timer' = timer /\ managed' = None
    BY <1>4 DEF Remove, Busy, plans, SureStore, StoreKept, TrackedManaged
  <2>2. CASE proc[p].stopping
    <3>1. proc' = [proc EXCEPT ![p].stage = "done"]
      BY <1>4, <2>2 DEF Remove
    <3>2. proc'[p].stage = "done" /\ \A q \in Pid : q # p => proc'[q] = proc[q]
      BY <1>3, <3>1
    <3>3. ~Busy(p)'
      BY <3>2 DEF Busy
    <3>4. SomeStop
      BY <2>1, <2>2 DEF SureStore, StoreKept, StoppingExplained
    <3> QED
      BY <2>1, <3>2, <3>3, <3>4, FinalizerKeepsStore
  <2>3. CASE ~proc[p].stopping
    <3>1. proc' = [proc EXCEPT ![p].stage = "removed"] /\ finalizer' = finalizer
      BY <1>4, <2>3 DEF Remove
    <3>2. proc'[p].stage = "removed" /\ \A q \in Pid : q # p => proc'[q] = proc[q]
      BY <1>3, <3>1
    <3>3. ~StopHeld
      BY <2>1, <2>3 DEF SureStore, StoreKept, StopHolds
    <3> QED
      BY <1>0, <2>1, <3>1, <3>2, <3>3, FinalizerKeepsStore
  <2> QED
    BY <2>2, <2>3
<1>5. CASE PersistExit(p)
  <2>1. /\ proc[p].stage = "removed" /\ Busy(p) /\ managed = None /\ ~StopHeld
        /\ thread' = thread /\ managed' = managed /\ finalizer' = finalizer
        /\ record' = EndedAs(Termination(p))
        /\ proc' = [proc EXCEPT ![p].stage = "persisted"]
    BY <1>2, <1>5 DEF PersistExit, Busy, tables
  <2>2. proc'[p].stage = "persisted" /\ \A q \in Pid : q # p => proc'[q] = proc[q]
    BY <1>3, <2>1
  <2>3. ~record'.running
    BY <1>0, <2>1 DEF EndedAs, LifecycleTypes, StoreTyped, StoreRecord
  <2> QED
    BY <1>0, <2>1, <2>2, <2>3, FinalizerKeepsStore
<1>6. CASE Supervise(p) \/ Schedule(p)
  <2>1. /\ proc[p].stage \in {"persisted", "scheduling"} /\ Busy(p) /\ managed = None /\ ~StopHeld
        /\ thread' = thread /\ managed' = managed
        /\ record'.running = record.running
    BY <1>0, <1>2, <1>6 DEF Supervise, Schedule, Busy, LifecycleTypes, StoreTyped, StoreRecord
  <2>2. /\ \A q \in Pid : q # p => proc'[q] = proc[q]
        /\ \/ proc'[p].stage = "done"
           \/ proc'[p].stage = "scheduling" /\ finalizer' = finalizer
    <3>1. CASE proc' = [proc EXCEPT ![p].stage = "done"]
      BY <1>3, <3>1
    <3>2. CASE proc' # [proc EXCEPT ![p].stage = "done"]
      <4>1. /\ finalizer' = finalizer
            /\ proc' = [proc EXCEPT ![p].stage = "scheduling", ![p].attempt = record.attempts + 1]
        BY <1>6, <3>2 DEF Supervise, Schedule
      <4>2. /\ proc'[p].stage = "scheduling"
            /\ \A q \in Pid : q # p => proc'[q] = proc[q]
        BY <1>0, <4>1 DEF ProcRecord
      <4> QED
        BY <4>1, <4>2
    <3> QED
      BY <3>1, <3>2
  <2>3. Busy(p)' => finalizer' = p
    BY <1>0, <2>1, <2>2 DEF Busy
  <2>4. record.running => SomeStop
    BY <2>1 DEF SureStore, StoreKept, RunningExplained, Finalized, Busy
  <2> QED
    BY <2>1, <2>2, <2>3, <2>4, FinalizerKeepsStore
<1> QED
  BY <1>1, <1>4, <1>5, <1>6 DEF Finalizing

-----------------------------------------------------------------------------
(* A thread that was idle takes up work. *)
LEMMA TakesUpKeepsStore ==
  ASSUME SureStore, ConstantsAssumption, NEW a \in Thread, NEW r \in ThreadRecord, Becomes(a, r),
         UNCHANGED <<proc, managed, finalizer, record>>, timer' \in {0, timer},
         thread[a].at \notin Stops,
         r.at \in {"idle", "queued", "install", "doctor", "blocked", "inspect"},
         r.at = "doctor" => r.op = "supervise" \/ (r.op = "restart" /\ r.was = record.running),
         StopHeld /\ a \in Restarter => r.at \in {"idle", "blocked"} \/ timer # 0
  PROVE  StoreKept'
<1>1. QuietStore
  BY StillQuiet
<1>2. thread'[a] = r /\ \A b \in Thread : b # a => thread'[b] = thread[b]
  BY DEF Becomes
<1>3. KnowsNext(a)
  BY <1>2 DEF KnowsNext, MayLaunch, At, Before
<1>4. QuietStep(a)
  BY <1>2, <1>3 DEF QuietStep
<1>5. StopHeld' => StopHeld
  BY <1>2 DEF StopHeld, Stops, Thread
<1>6. StopHeld => timer = 0
  BY DEF SureStore, StoreKept, StopHolds
<1>7. HoldsOn(a)
  BY <1>2, <1>5, <1>6 DEF HoldsOn, Before
<1> QED
  BY <1>1, <1>2, <1>4, <1>7, QuietHolds, QuietKeepsStore

LEMMA StopCallKeepsStore ==
  ASSUME SureStore, ConstantsAssumption, degraded' = {}, CallStop
  PROVE  StoreKept'
<1> DEFINE o == "operator"
<1> USE DEF SureStore, StoreKept
<1>0. /\ o \in Thread /\ o \notin Restarter /\ thread[o].at = "idle"
      /\ UNCHANGED <<managed, finalizer, record>> /\ timer' = 0
      /\ LifecycleTypes /\ thread \in [Thread -> ThreadRecord]
  BY ConstantsAssumption DEF Thread, CallStop, Calls, At, LifecycleTypes, ThreadsTyped
<1>1. CASE ~record.running
  <2>1. thread' = thread /\ proc' = proc
    BY <1>1 DEF CallStop
  <2> QED
    BY <1>0, <2>1, StillQuiet, SameThreadsKeepStore
<1>2. CASE record.running
  <2>1. HasManagedProcess
    <3> SUFFICES ASSUME ~HasManagedProcess PROVE FALSE
      OBVIOUS
    <3>1. "stop" \in degraded'
      BY <1>2 DEF CallStop
    <3> QED
      BY <3>1
  <2>2. managed # None
    BY <2>1 DEF HasManagedProcess, Sole, NoneAdopted
  <2>3. PICK from \in ThreadRecord : Begins(o, from) /\ from.op = "stop"
    BY <1>0, <1>2, CallingGoes
  <2>4. thread'[o].at = "mark"
    <3>1. thread' = [thread EXCEPT ![o] = [[Idle EXCEPT !.op = "stop"] EXCEPT
                       !.at = IF HasManagedProcess THEN "mark" ELSE "await", !.wait = StopTarget(o)]]
      BY <1>2 DEF CallStop, BeginStop
    <3> QED
      BY <1>0, <2>1, <3>1 DEF Idle
  <2>5. QuietStore
    BY <1>0, <2>3, BeginQuiet
  <2>6. QuietStep(o)
    BY <1>0, <2>3, <2>4 DEF QuietStep, KnowsNext, MayLaunch, At, Before, Begins, Stops
  <2>7. StopHolds'
    <3>1. \A p \in Pid : Busy(p)' => proc'[p].stage = "tracked" /\ proc'[p].stopping
      <4> SUFFICES ASSUME NEW p \in Pid, Busy(p)' PROVE proc'[p].stage = "tracked" /\ proc'[p].stopping
        OBVIOUS
      <4>1. p = managed
        BY <2>2, <2>5, QuietBusy, ManagedBusy
      <4> QED
        BY <2>2, <2>3, <4>1 DEF Begins, Sole, ManagedTracked
    <3>2. \A b \in Thread : thread'[b].at \notin Before
      <4>1. \A b \in Thread : thread[b].at \notin Before
        BY <2>2, LaunchUnmanaged DEF MayLaunch
      <4> QED
        BY <2>3, <2>4, <4>1 DEF Begins, Before
    <3> QED
      BY <1>0, <1>2, <3>1, <3>2 DEF StopHolds
  <2> QED
    BY <1>0, <2>5, <2>6, <2>7, QuietKeepsStore
<1> QED
  BY <1>1, <1>2

LEMMA RestKeepsStore ==
  ASSUME SureStore, ConstantsAssumption, Calm',
         \/ Calling \/ Install \/ MonitorLooks \/ Monitoring
         \/ AdoptedExits
         \/ \E r \in Restarter : Supervising(r)
         \/ ShutDown \/ ShuttingDown
  PROVE  StoreKept'
<1>0. /\ {"operator", "monitor", "shutdown"} \subseteq Thread
      /\ {"operator", "monitor", "shutdown"} \cap Restarter = {}
      /\ LifecycleTypes /\ thread \in [Thread -> ThreadRecord]
      /\ record \in StoreRecord /\ record.running \in BOOLEAN
      /\ thread["shutdown"].at = "idle" /\ degraded' = {}
  BY ConstantsAssumption DEF Thread, SureStore, LifecycleTypes, ThreadsTyped, StoreTyped, StoreRecord, Calm, At
<1>1. CASE CallStart \/ CallInstall
  <2>1. PICK r \in ThreadRecord : /\ Becomes("operator", r)
                                  /\ r.at \in {"queued", "install"}
    BY <1>0, <1>1, CallingGoes
  <2>2. /\ thread["operator"].at = "idle"
        /\ UNCHANGED <<proc, managed, finalizer, record, timer>>
    BY <1>1 DEF CallStart, CallInstall, Calls, At, plans, tables
  <2> QED
    BY <1>0, <2>1, <2>2, TakesUpKeepsStore DEF Stops
<1>2. CASE CallStop
  BY <1>0, <1>2, StopCallKeepsStore
<1>3. ASSUME NEW a \in {"operator", "monitor"}, RestartBegins(a), thread[a].at \in {"idle", "inspect"}
      PROVE  StoreKept'
  <2> DEFINE r == [Idle EXCEPT !.op = "restart", !.at = "doctor", !.was = record.running]
  <2>1. /\ UNCHANGED <<proc, managed, finalizer, record>> /\ timer' = 0
        /\ thread' = [thread EXCEPT ![a] = r]
    BY <1>3 DEF RestartBegins, tables
  <2>2. PICK x \in ThreadRecord : Becomes(a, x) /\ x.op = "restart" /\ x.at = "doctor"
    BY <1>0, <1>3, CallingGoes
  <2>3. x = r
    BY <1>0, <2>1, <2>2 DEF Becomes
  <2>4. x.was = record.running
    BY <2>3 DEF Idle
  <2> HIDE DEF r
  <2> QED
    BY <1>0, <1>3, <2>1, <2>2, <2>4, TakesUpKeepsStore DEF Stops
<1>4. CASE CallRestart \/ MonitorRestarts
  BY <1>3, <1>4 DEF CallRestart, MonitorRestarts, Calls, At
<1>5. CASE Install
  <2>1. /\ thread["operator"].at = "install" /\ Leaves("operator") /\ Leave("operator", TRUE)
        /\ UNCHANGED <<proc, managed, finalizer, timer>>
    BY <1>0, <1>5, CallingGoes DEF Install, At, plans, tables
  <2>2. CASE record.running /\ HasManagedProcess
    <3>1. UNCHANGED record
      BY <1>5, <2>2 DEF Install
    <3> QED
      BY <1>0, <2>1, <3>1, StillQuiet, LeavesKeepsStore DEF Stops
  <2>3. CASE ~(record.running /\ HasManagedProcess)
    <3>1. ~record'.running
      BY <1>0, <1>5, <2>3 DEF Install, StoreRecord
    <3>2. managed = None
      BY <2>3 DEF SureStore, StoreKept, ManagedRecorded, HasManagedProcess
    <3> QED
      BY <1>0, <2>1, <3>1, <3>2, StoppedKeepsStore DEF Leaves
  <2> QED
    BY <2>2, <2>3
<1>6. CASE MonitorLooks
  <2>1. /\ thread["monitor"].at = "idle" /\ Goes("monitor", "inspect")
        /\ UNCHANGED <<proc, managed, finalizer, record, timer>>
    BY <1>0, <1>6, CallingGoes DEF MonitorLooks, At, plans, tables
  <2>2. Becomes("monitor", thread'["monitor"]) /\ thread'["monitor"] \in ThreadRecord
    BY <1>0, <2>1 DEF Goes, Becomes, ThreadsTyped
  <2> QED
    BY <1>0, <2>1, <2>2, TakesUpKeepsStore DEF Goes, Stops
<1>7. CASE MonitorPasses
  <2>1. /\ thread["monitor"].at = "inspect" /\ Leaves("monitor")
        /\ UNCHANGED <<proc, managed, finalizer, record, timer>>
    BY <1>0, <1>7, CallingGoes DEF MonitorPasses, At, plans, tables
  <2> QED
    BY <1>0, <2>1, StillQuiet, LeavesKeepsStore DEF Stops
<1>8. CASE AdoptedExits
  BY <1>8 DEF AdoptedExits, SureStore, Sole, NoneAdopted
<1>9. ASSUME NEW r \in Restarter, TimerFires(r) PROVE StoreKept'
  <2>0. r \in Thread
    BY DEF Thread
  <2>1. PICK x \in ThreadRecord : Becomes(r, x) /\ x.op = "supervise" /\ x.at \in {"blocked", "doctor"}
    BY <1>0, <1>9, SupervisingGoes
  <2>2. /\ thread[r].at = "idle" /\ timer # 0 /\ timer' = 0
        /\ UNCHANGED <<proc, managed, finalizer, record>>
    BY <1>9 DEF TimerFires, At, tables
  <2> QED
    BY <2>0, <2>1, <2>2, TakesUpKeepsStore DEF Stops
<1>10. ASSUME NEW r \in Restarter, Blocked(r) \/ Decide(r) PROVE StoreKept'
  <2>0. r \in Thread /\ Idle \in ThreadRecord /\ Idle.at = "idle"
    BY ConstantsAssumption DEF Thread, Idle, ThreadRecord, Ops, Place, MayPid
  <2>1. Becomes(r, Idle)
    BY <1>0, <1>10, SupervisingGoes
  <2>2. /\ thread[r].at \in {"blocked", "decide"} /\ timer' = timer
        /\ UNCHANGED <<proc, managed, finalizer>>
        /\ record'.running = record.running /\ record'.pid = record.pid
    BY <1>0, <1>10 DEF Blocked, Decide, At, tables, StoreRecord
  <2>3. QuietStore
    BY <2>2, StillQuiet
  <2>4. thread'[r] = Idle /\ \A b \in Thread : b # r => thread'[b] = thread[b]
    BY <2>1 DEF Becomes
  <2>5. QuietStep(r)
    BY <2>0, <2>2, <2>4 DEF QuietStep, KnowsNext, MayLaunch, At, Before, Stops
  <2>6. HoldsOn(r)
    BY <1>0, <2>0, <2>4 DEF HoldsOn, StopHeld, Before
  <2> QED
    BY <2>0, <2>3, <2>4, <2>5, <2>6, QuietHolds, QuietKeepsStore
<1>11. CASE ShutDown
  <2>1. PICK r \in ThreadRecord : Becomes("shutdown", r) /\ r.at = "monitor"
    BY <1>0, <1>11, ShuttingDownGoes
  <2> QED
    BY <2>1 DEF Becomes, Calm, At
<1>12. CASE ShuttingDown
  BY <1>0, <1>12 DEF ShuttingDown, MonitorStops, Quiesce, Drained, PassEnds, StoppedFor, At
<1> QED
  BY <1>1, <1>2, <1>4, <1>5, <1>6, <1>7, <1>8, <1>9, <1>10, <1>11, <1>12
  DEF Calling, Monitoring, Supervising

-----------------------------------------------------------------------------
(* One supervised restart at a time, as long as none is overtaken. *)
LEMMA OneRestartStays ==
  ASSUME LifecycleTypes, ConstantsAssumption, Roles, OneRestart, Next, ~overtaken'
  PROVE  OneRestart'
<1>0. /\ Restarter \subseteq Thread
      /\ {"operator", "monitor", "shutdown", "none"} \cap Restarter = {}
  BY ConstantsAssumption DEF Thread
<1>1. ASSUME NEW a \in Thread, a \in Restarter => thread[a].at # "idle", active' = active,
             \A b \in Thread : b # a => thread'[b] = thread[b]
      PROVE  OneRestart'
  BY <1>0, <1>1 DEF OneRestart, At
<1>2. ASSUME NEW a \in Thread, Step(a) PROVE OneRestart'
  <2>1. /\ thread[a].at # "idle"
        /\ \A b \in Thread : b # a => thread'[b] = thread[b]
    BY <1>2, StepRole DEF RoleStep
  <2>2. active' = active
    <3>1. CASE Doctoring(a) \/ Preparing(a)
      BY <3>1 DEF Doctoring, DoctorAllows, DoctorRefuses, Preparing, EnterStart, Adopt, Negotiate, Check,
         Classify, Clear, plans
    <3>2. CASE Spawning(a) \/ Confirming(a)
      BY <3>2 DEF Spawning, Spawn, SpawnFails, Enrol, Contain, Retain, Activate,
         Confirming, Ready, Unready, Own, Settle, plans
    <3>3. CASE Stopping(a)
      BY <3>3 DEF Stopping, Mark, Kill, Expel, StopFails, GivesUp, StopEnds, StopRecords, OldStopped,
         NewStopped, plans
    <3> QED
      BY <1>2, <3>1, <3>2, <3>3 DEF Step
  <2> QED
    BY <1>1, <2>1, <2>2
<1>3. CASE Calling \/ Install \/ MonitorLooks \/ Monitoring \/ ShutDown \/ ShuttingDown
  <2>1. active' = active
    BY <1>3 DEF Calling, CallStart, CallStop, CallRestart, CallInstall, RestartBegins, Install,
       MonitorLooks, Monitoring, MonitorRestarts, MonitorPasses, ShutDown, ShuttingDown, MonitorStops,
       Quiesce, Drained, PassEnds, plans
  <2>2. \A r \in Restarter : thread'[r] = thread[r]
    <3>1. CASE Calling \/ Install \/ MonitorLooks \/ Monitoring
      BY <1>0, <3>1, CallingGoes
      DEF Calling, CallRestart, Monitoring, MonitorRestarts, Becomes, Begins, Leaves, Goes, Thread
    <3>2. CASE ShutDown \/ ShuttingDown
      BY <1>0, <3>2, ShuttingDownGoes DEF ShuttingDown, Becomes, Begins, Leaves, Goes
    <3> QED
      BY <1>3, <3>1, <3>2
  <2> QED
    BY <2>1, <2>2 DEF OneRestart, At
<1>4. CASE (\E p \in Pid : Exits(p) \/ Finalizing(p)) \/ AdoptedExits
  <2>1. thread' = thread /\ active' = active
    BY <1>4 DEF Exits, Finalizing, Remove, PersistExit, Supervise, Schedule, AdoptedExits, plans
  <2> QED
    BY <2>1 DEF OneRestart, At
<1>5. ASSUME NEW r \in Restarter, Supervising(r) PROVE OneRestart'
  <2>1. CASE TimerFires(r)
    <3>1. active = "none" /\ active' = r
      BY <2>1 DEF TimerFires
    <3>2. \A b \in Thread : b # r => thread'[b] = thread[b]
      BY <1>0, <2>1, SupervisingGoes DEF Becomes
    <3> QED
      BY <1>0, <3>1, <3>2 DEF OneRestart, At
  <2>2. CASE Blocked(r) \/ Decide(r)
    <3>1. /\ thread[r].at # "idle"
          /\ active' = IF active = r THEN "none" ELSE active
      BY <2>2 DEF Blocked, Decide, Settled, At
    <3>2. /\ thread'[r] = Idle
          /\ \A b \in Thread : b # r => thread'[b] = thread[b]
      BY <1>0, <2>2, SupervisingGoes DEF Becomes
    <3> QED
      BY <1>0, <3>1, <3>2 DEF OneRestart, At, Idle
  <2> QED
    BY <1>5, <2>1, <2>2 DEF Supervising
<1> QED
  BY <1>2, <1>3, <1>4, <1>5 DEF Next

LEMMA StoreStays ==
  ASSUME StoreInv, [Next]_vars, ConstantsAssumption
  PROVE  StoreInv'
<1>1. SoleInv /\ SoleInv' /\ LifecycleTypes /\ LifecycleTypes'
  BY SoleStays DEF StoreInv, SoleInv
<1>2. Roles /\ Roles'
  BY <1>1, RolesStay DEF StoreInv
<1>3. ASSUME Calm' PROVE OneRestart' /\ StoreKept'
  <2>1. Calm
    BY <1>1, <1>2, <1>3, CalmStays
  <2>2. SureStore /\ Sole' /\ degraded' = {} /\ ~overtaken'
    BY <1>1, <1>2, <1>3, <2>1 DEF StoreInv, SoleInv, SureStore, Calm
  <2>3. CASE Next
    <3>1. OneRestart'
      BY <1>1, <1>2, <2>2, <2>3, OneRestartStays DEF SureStore
    <3>2. ASSUME NEW a \in Thread, Step(a) PROVE StoreKept'
      BY <1>1, <2>2, <3>2, PreparingKeepsStore, LaunchingKeepsStore, StoppingKeepsStore DEF Step
    <3>3. ASSUME NEW p \in Pid, Exits(p) \/ Finalizing(p) PROVE StoreKept'
      BY <2>2, <3>3, ProcessKeepsStore
    <3>4. ASSUME \/ Calling \/ Install \/ MonitorLooks \/ Monitoring
                 \/ AdoptedExits
                 \/ \E r \in Restarter : Supervising(r)
                 \/ ShutDown \/ ShuttingDown
          PROVE  StoreKept'
      BY <1>3, <2>2, <3>4, RestKeepsStore
    <3> QED
      BY <2>3, <3>1, <3>2, <3>3, <3>4 DEF Next
  <2>4. CASE UNCHANGED vars
    <3>1. UNCHANGED <<proc, managed, finalizer, record, timer, thread, active>>
      BY <2>4 DEF vars, tables, plans
    <3>2. StoreKept'
      BY <2>2, <3>1, StillQuiet, SameThreadsKeepStore
    <3>3. OneRestart'
      BY <2>2, <3>1 DEF SureStore, OneRestart, At
    <3> QED
      BY <3>2, <3>3
  <2> QED
    BY <2>3, <2>4
<1> QED
  BY <1>1, <1>2, <1>3 DEF StoreInv

LEMMA InitStore == ASSUME Init, ConstantsAssumption PROVE StoreInv
<1>0. /\ \A a \in Thread : thread[a] = Idle
      /\ \A p \in Pid : proc[p] = Unborn
      /\ managed = None /\ record.running = FALSE /\ overtaken = FALSE
  BY DEF Init
<1>1. Roles
  <2>1. \A a \in Thread : Role(a, Idle)
    BY DEF Role, Idle, Stops
  <2> QED
    BY <1>0, <2>1 DEF Roles
<1>2. OneRestart
  <2>1. Restarter \subseteq Thread /\ Idle.at = "idle"
    BY DEF Idle, Thread
  <2>2. \A r \in Restarter : thread[r] = Idle
    BY <1>0, <2>1
  <2> QED
    BY <2>1, <2>2 DEF OneRestart, At
<1>3. Finalized /\ TrackedManaged /\ Unmarked /\ StoppingExplained
  BY <1>0 DEF Finalized, TrackedManaged, Unmarked, StoppingExplained, Busy, Unborn
<1>4. \A a \in Thread : Knows(a)
  BY <1>0 DEF Knows, Awaits, MayLaunch, Owns, Stopped, At, Before, Idle
<1>5. ManagedRecorded /\ RunningExplained
  BY <1>0 DEF ManagedRecorded, RunningExplained
<1>6. StopHolds
  BY <1>0 DEF StopHolds, StopHeld, Idle, Thread, Stops
<1> QED
  BY <1>1, <1>2, <1>3, <1>4, <1>5, <1>6, InitSole DEF StoreInv, StoreKept

(* When no command, restart, finalizer or shutdown is under way, the store *)
(* says running exactly when the service has a process, and names it       *)
(* (startService, stopService and restartService of                        *)
(* src/src/runtime/lifecycle/actions.ts with persistProcessExit of         *)
(* src/src/runtime/execution/supervisor.ts), unless something has failed,  *)
(* launches have run together, or a supervised restart was overtaken.      *)
THEOREM StoreTellsTheTruth == Spec => []StoreAgrees
<1>1. Init => StoreInv
  BY InitStore, ConstantsAssumption
<1>2. StoreInv /\ [Next]_vars => StoreInv'
  BY StoreStays, ConstantsAssumption
<1>3. ASSUME StoreInv PROVE StoreAgrees
  <2> SUFFICES ASSUME AtRest, degraded = {}, ~overlapped, ~overtaken
               PROVE  /\ record.running <=> live # {}
                      /\ record.running => record.pid \in live /\ record.pid \in {managed, adopted.pid}
    BY DEF StoreAgrees
  <2>1. StoreKept /\ Sole /\ LifecycleTypes
    BY <1>3 DEF StoreInv, SoleInv, Calm, AtRest
  <2>2. ~SomeStop /\ \A p \in Pid : proc[p].stage # "removed"
    BY DEF AtRest, SomeStop, Stops
  <2>3. record.running <=> managed # None
    BY <2>1, <2>2 DEF StoreKept, ManagedRecorded, RunningExplained, LifecycleTypes, StoreTyped, StoreRecord
  <2>4. managed # None => managed \in live /\ record.pid = managed
    BY <2>1 DEF StoreKept, ManagedRecorded, Sole, ManagedTracked, AtRest, LifecycleTypes, ProcTyped, MayPid
  <2>5. \A p \in live : managed = p /\ p # None
    BY <2>1 DEF Sole, LiveKnown, InHands, AtRest, LifecycleTypes, ProcTyped, Pid, None
  <2> QED
    BY <2>3, <2>4, <2>5
<1> QED
  BY <1>1, <1>2, <1>3, PTL DEF Spec

-----------------------------------------------------------------------------
(***************************************************************************)
(* The shutdown.  Here failures are allowed, and what holds is less:       *)
(*   - a finalizer that will take an end for unexpected is known, unless   *)
(*     the shutdown itself has given it up and says so in the end;         *)
(*   - a launch begins when there is none, and a stop that awaits one      *)
(*     finds none;                                                         *)
(*   - the registry's row is that of what is managed or about to be;       *)
(*   - once the quiescer has drained, supervised restarts are refused, so  *)
(*     that nothing is launched any more.                                  *)
(***************************************************************************)
Undisturbed == ~contested /\ ~overtaken /\ ~overlapped

(* The end of p is not that of a stop. *)
Supervised(p) ==
  \/ proc[p].stage \in {"removed", "persisted", "scheduling"}
  \/ proc[p].stage = "tracked" /\ ~proc[p].stopping

Quiet == \A r \in Restarter : thread[r].at \in {"idle", "blocked"}

(* The shutdown has given up a finalizer: its next pass is the last. *)
GaveUp ==
  /\ thread["shutdown"].at \in {"pass", "drain", "done"} /\ ~thread["shutdown"].ok
  /\ At("shutdown", "drain") => ~thread["shutdown"].was
  /\ managed = None /\ finalizer = None
  /\ shutdownRequested /\ Quiet
FinalizersKnown == \A p \in Pid : Supervised(p) => finalizer = p \/ GaveUp

OneFinalizer == managed # None => finalizer \in {None, managed}

(* What a launch knows, and a stop that waits for a finalizer. *)
Waited(a) ==
  /\ At(a, "check") => \A p \in Pid : Supervised(p) => thread[a].wait = p
  /\ thread[a].at \in {"owner", "clear", "spawn", "enrol", "activate"} => \A p \in Pid : ~Supervised(p)
Halts(a) == thread[a].at \in {"mark", "kill"} \/ (At(a, "await") /\ thread[a].wait # None)
Halted(a) == a # "shutdown" /\ Halts(a) => \A p \in Pid : ~Supervised(p)

LaunchesStopped == \A a \in Thread : MayLaunch(a) => ~record.running

OperatorStops == thread["operator"].op = "stop" /\ Halts("operator")
OperatorStopHolds == OperatorStops =>
  /\ timer = 0
  /\ \A a \in Thread : thread[a].at \notin Before
  /\ ~record.running => \A r \in Restarter : thread[r].at \in {"idle", "decide", "blocked"}

RowKnown ==
  row.pid # None =>
    row.pid = managed \/ \E a \in Thread : At(a, "activate") /\ thread[a].pid = row.pid

(* Where the shutdown is. *)
Late == thread["shutdown"].at \in {"pass", "drain", "mark", "kill", "await", "done"}
Drain ==
  /\ \A r \in Restarter : thread[r].at \in {"idle", "blocked"} \/ thread["shutdown"].drain = r
  /\ \/ shutdownRequested
     \/ /\ ~thread["shutdown"].was /\ timer = 0
        /\ \A r \in Restarter : At(r, "idle")
  /\ thread["shutdown"].ok /\ ~thread["shutdown"].was =>
       timer = 0 /\ \A p \in Pid : /\ proc[p].stage # "scheduling"
                                   /\ ~shutdownRequested => ~Supervised(p)
ShutdownHolds ==
  /\ ~At("shutdown", "idle") => At("operator", "idle")
  /\ At("shutdown", "monitor") => thread["shutdown"].ok
  /\ Late => At("monitor", "idle")
  /\ Late /\ ~thread["shutdown"].ok => shutdownRequested
  /\ At("shutdown", "drain") => Drain
  /\ thread["shutdown"].at \in {"mark", "kill", "await"} =>
       shutdownRequested /\ Quiet /\ (managed # None => proc[managed].stopping)
  /\ At("shutdown", "done") =>
       /\ Quiet /\ managed = None /\ finalizer = None
       /\ thread["shutdown"].ok => timer = 0

Launches ==
  /\ TrackedManaged /\ OneFinalizer
  /\ \A a \in Thread : Waited(a) /\ Halted(a)
  /\ LaunchesStopped /\ OperatorStopHolds /\ RowKnown

DrainInv ==
  /\ SoleInv /\ Roles /\ contested \in BOOLEAN
  /\ Undisturbed => OneRestart /\ Launches /\ FinalizersKnown /\ ShutdownHolds

SureDrain ==
  /\ LifecycleTypes /\ TurnInv /\ Sole /\ Roles
  /\ OneRestart /\ Launches /\ FinalizersKnown /\ ShutdownHolds

DrainKept == Launches /\ FinalizersKnown /\ ShutdownHolds

-----------------------------------------------------------------------------
LEMMA ContestedGrows ==
  ASSUME contested \in BOOLEAN, [Next]_vars
  PROVE  contested' \in BOOLEAN /\ (contested => contested')
<1>1. ASSUME NEW a \in Thread, Doctoring(a) \/ Preparing(a) PROVE contested' = contested
  BY <1>1 DEF Doctoring, DoctorAllows, DoctorRefuses, Preparing, EnterStart, Adopt, Negotiate, Check,
     Classify, Clear, history
<1>2. ASSUME NEW a \in Thread, Spawning(a) \/ Confirming(a) PROVE contested' = contested
  BY <1>2 DEF Spawning, Spawn, SpawnFails, Enrol, Contain, Retain, Activate,
     Confirming, Ready, Unready, Own, Settle, history
<1>3. ASSUME NEW a \in Thread, Stopping(a) PROVE contested' = contested
  BY <1>3 DEF Stopping, Mark, Kill, Expel, StopFails, GivesUp, StopEnds, StopRecords, OldStopped,
     NewStopped, history
<1>4. ASSUME Calling \/ ShutDown PROVE contested' \in BOOLEAN /\ (contested => contested')
  BY <1>4 DEF Calling, CallStart, CallStop, CallRestart, CallInstall, Calls, ShutDown
<1>5. ASSUME Install \/ MonitorLooks \/ Monitoring PROVE contested' = contested
  BY <1>5 DEF Install, MonitorLooks, Monitoring, MonitorRestarts, MonitorPasses, history
<1>6. ASSUME AdoptedExits \/ \E p \in Pid : Exits(p) \/ Finalizing(p) PROVE contested' = contested
  BY <1>6 DEF AdoptedExits, Exits, Finalizing, Remove, PersistExit, Supervise, Schedule, history
<1>7. ASSUME NEW r \in Restarter, Supervising(r) PROVE contested' = contested
  BY <1>7 DEF Supervising, TimerFires, Blocked, Decide, history
<1>8. ASSUME ShuttingDown PROVE contested' = contested
  BY <1>8 DEF ShuttingDown, MonitorStops, Quiesce, Drained, PassEnds, history
<1>9. ASSUME UNCHANGED vars PROVE contested' = contested
  BY <1>9 DEF vars, history
<1> QED
  BY <1>1, <1>2, <1>3, <1>4, <1>5, <1>6, <1>7, <1>8, <1>9 DEF Next, Step

-----------------------------------------------------------------------------
(* A thread that is under way meets no shutdown that has given up, and     *)
(* leaves the shutdown where it is.                                        *)
LEMMA ShutdownStands ==
  ASSUME SureDrain, ConstantsAssumption, NEW a \in Thread, a # "shutdown",
         thread[a].at \notin {"idle", "blocked"},
         \A b \in Thread : b # a => thread'[b] = thread[b],
         timer' \in {0, timer},
         a \in Restarter => shutdownRequested' = shutdownRequested,
         \A p \in Pid : proc'[p].stage = "scheduling" => proc[p].stage = "scheduling"
  PROVE  ShutdownHolds' /\ ~GaveUp
<1>0. /\ {"operator", "monitor", "shutdown"} \subseteq Thread /\ Restarter \subseteq Thread
      /\ "shutdown" \notin Restarter /\ "operator" \notin Restarter /\ "monitor" \notin Restarter
      /\ thread'["shutdown"] = thread["shutdown"]
      /\ ShutdownHolds
  BY ConstantsAssumption DEF Thread, SureDrain
<1>1. CASE a = "operator"
  <2>1. At("shutdown", "idle")
    BY <1>0, <1>1 DEF ShutdownHolds, At
  <2> QED
    BY <1>0, <2>1 DEF ShutdownHolds, GaveUp, Late, At
<1>2. CASE a = "monitor"
  <2>1. ~Late
    BY <1>0, <1>2 DEF ShutdownHolds, At
  <2>2. thread'["operator"] = thread["operator"]
    BY <1>0, <1>2
  <2> QED
    BY <1>0, <2>1, <2>2 DEF ShutdownHolds, GaveUp, Late, At
<1>3. CASE a \in Restarter
  <2>1. ~Quiet
    BY <1>3 DEF Quiet
  <2>2. thread["shutdown"].at \notin {"mark", "kill", "await", "done"}
    BY <1>0, <2>1 DEF ShutdownHolds, At
  <2>3. /\ thread'["operator"] = thread["operator"] /\ thread'["monitor"] = thread["monitor"]
        /\ shutdownRequested' = shutdownRequested
    BY <1>0, <1>3
  <2>4. ASSUME At("shutdown", "drain") PROVE Drain'
    <3>1. Drain /\ shutdownRequested
      BY <1>0, <1>3, <2>4 DEF ShutdownHolds, Drain, At
    <3>2. thread["shutdown"].drain = a
      BY <1>3, <3>1 DEF Drain
    <3>3. \A r \in Restarter : thread'[r].at \in {"idle", "blocked"} \/ thread'["shutdown"].drain = r
      BY <1>0, <3>1, <3>2 DEF Drain
    <3>4. thread'["shutdown"].ok /\ ~thread'["shutdown"].was =>
            timer' = 0 /\ \A p \in Pid : proc'[p].stage # "scheduling"
      BY <1>0, <3>1 DEF Drain
    <3> QED
      BY <2>3, <3>1, <3>3, <3>4 DEF Drain
  <2>5. ShutdownHolds'
    BY <1>0, <2>2, <2>3, <2>4 DEF ShutdownHolds, Late, At
  <2> QED
    BY <2>1, <2>5 DEF GaveUp
<1> QED
  BY <1>0, <1>1, <1>2, <1>3 DEF Thread

-----------------------------------------------------------------------------
(* A step that tracks no process and takes none for unexpected. *)
CalmTables ==
  /\ managed' \in {None, managed} /\ finalizer' \in {None, finalizer}
  /\ \A p \in Pid : /\ Supervised(p)' => Supervised(p)
                    /\ proc'[p].stage = "tracked" => proc[p].stage = "tracked" /\ managed' = managed

(* What its thread knows then. *)
Knowing(a) ==
  /\ \A b \in Thread : b # a => thread'[b] = thread[b]
  /\ At(a, "check")' => \A p \in Pid : Supervised(p) => thread'[a].wait = p
  /\ thread'[a].at \in {"owner", "clear", "spawn", "enrol", "activate"} => \A p \in Pid : ~Supervised(p)
  /\ a # "shutdown" /\ Halts(a)' => \A p \in Pid : ~Supervised(p)'

LEMMA CalmKeepsLaunches ==
  ASSUME SureDrain, NEW a \in Thread, CalmTables, Knowing(a),
         LaunchesStopped', OperatorStopHolds', RowKnown'
  PROVE  Launches'
<1>0. Launches
  BY DEF SureDrain
<1>1. TrackedManaged'
  BY <1>0 DEF CalmTables, Launches, TrackedManaged
<1>2. OneFinalizer'
  BY <1>0 DEF CalmTables, Launches, OneFinalizer
<1>3. ASSUME NEW b \in Thread PROVE Waited(b)' /\ Halted(b)'
  <2>1. CASE b = a
    BY <2>1 DEF CalmTables, Knowing, Waited, Halted, At
  <2>2. CASE b # a
    <3>1. thread'[b] = thread[b] /\ Waited(b) /\ Halted(b)
      BY <1>0, <2>2 DEF Knowing, Launches
    <3>2. Waited(b)'
      BY <3>1 DEF CalmTables, Waited, At
    <3>3. Halts(b)' => Halts(b)
      BY <3>1 DEF Halts, At
    <3> QED
      BY <3>1, <3>2, <3>3 DEF CalmTables, Halted
  <2> QED
    BY <2>1, <2>2
<1> QED
  BY <1>1, <1>2, <1>3 DEF Launches

(* The store does not come to say running. *)
LEMMA LaunchesStayStopped ==
  ASSUME SureDrain, NEW a \in Thread, \A b \in Thread : b # a => thread'[b] = thread[b],
         record'.running => record.running, MayLaunch(a)' => ~record'.running
  PROVE  LaunchesStopped'
<1>1. \A b \in Thread : b # a /\ MayLaunch(b)' => MayLaunch(b)
  BY DEF MayLaunch, At
<1> QED
  BY <1>1 DEF LaunchesStopped, SureDrain, Launches

(* A stop of the operator that is under way is not disturbed. *)
Undisturbing(a) ==
  /\ OperatorStops' => OperatorStops
  /\ OperatorStops =>
       /\ thread'[a].at \notin Before
       /\ ~record'.running /\ a \in Restarter => thread'[a].at \in {"idle", "decide", "blocked"}
       /\ ~record'.running => ~record.running \/ \A r \in Restarter \ {a} : At(r, "idle")

LEMMA OperatorStopStays ==
  ASSUME SureDrain, NEW a \in Thread, \A b \in Thread : b # a => thread'[b] = thread[b],
         timer' \in {0, timer}, Undisturbing(a)
  PROVE  OperatorStopHolds'
<1> SUFFICES ASSUME OperatorStops'
             PROVE  /\ timer' = 0
                    /\ \A b \in Thread : thread'[b].at \notin Before
                    /\ ~record'.running => \A r \in Restarter : thread'[r].at \in {"idle", "decide", "blocked"}
  BY DEF OperatorStopHolds
<1>1. /\ timer = 0
      /\ \A b \in Thread : thread[b].at \notin Before
      /\ ~record.running => \A r \in Restarter : thread[r].at \in {"idle", "decide", "blocked"}
  BY DEF Undisturbing, SureDrain, Launches, OperatorStopHolds
<1>2. \A b \in Thread : thread'[b].at \notin Before
  BY <1>1 DEF Undisturbing
<1>3. ~record'.running => \A r \in Restarter : thread'[r].at \in {"idle", "decide", "blocked"}
  <2>1. Restarter \subseteq Thread
    BY DEF Thread
  <2> QED
    BY <1>1, <2>1 DEF Undisturbing, At
<1> QED
  BY <1>1, <1>2, <1>3

(* The row is left, or loses its process. *)
LEMMA RowStays ==
  ASSUME SureDrain, NEW a \in Thread, \A b \in Thread : b # a => thread'[b] = thread[b],
         managed' = managed, row'.pid \in {None, row.pid}, thread[a].at # "activate"
  PROVE  RowKnown'
<1>1. RowKnown
  BY DEF SureDrain, Launches
<1>2. ASSUME NEW b \in Thread, At(b, "activate") PROVE thread'[b] = thread[b] /\ At(b, "activate")'
  BY <1>2 DEF At
<1> QED
  BY <1>1, <1>2 DEF RowKnown

-----------------------------------------------------------------------------
(* A finalizer that will take an end for unexpected is the known one. *)
LEMMA SupervisedUnmanaged ==
  ASSUME SureDrain, NEW p \in Pid, Supervised(p), finalizer = p, managed # None
  PROVE  p = managed /\ ~proc[p].stopping
<1>1. p # None
  BY DEF Pid, None
<1>2. p = managed
  BY <1>1 DEF SureDrain, Launches, OneFinalizer
<1>3. proc[p].stage = "tracked"
  BY <1>2 DEF SureDrain, Sole, ManagedTracked
<1> QED
  BY <1>2, <1>3 DEF Supervised

(* While a thread stops a process, no other launches one. *)
LEMMA HaltAlone ==
  ASSUME SureDrain, NEW a \in Thread, a # "shutdown", Halts(a),
         NEW b \in Thread, b # a, thread[b].at \in Before
  PROVE  FALSE
<1>1. /\ Fits(a, thread[a]) /\ Fits(b, thread[b]) /\ Role(a, thread[a])
      /\ thread[a].op \in {"start", "supervise", "restart", "stop"}
      /\ thread[a].at \in Stops
  BY DEF SureDrain, LifecycleTypes, ThreadsFit, Roles, Role, Halts, At, Stops
<1>2. Working(a)
  BY <1>1 DEF Working, Stops
<1>3. thread[b].op \in {"start", "supervise", "restart"} /\ Working(b)
  BY <1>1 DEF Fits, Launching, Before, Working
<1>4. CASE thread[a].op = "restart" \/ thread[b].op = "restart"
  BY <1>2, <1>3, <1>4 DEF SureDrain, Sole, Alone
<1>5. CASE thread[a].op \in {"start", "supervise"} /\ thread[b].op \in {"start", "supervise"}
  BY <1>2, <1>3, <1>5 DEF SureDrain, TurnInv, Turn, Holds
<1>6. CASE thread[a].op = "stop"
  BY <1>1, <1>6 DEF Role, SureDrain, Launches, OperatorStopHolds, OperatorStops
<1> QED
  BY <1>1, <1>3, <1>4, <1>5, <1>6

(* A thread that goes on does not disturb the operator's stop. *)
LEMMA GoingUndisturbed ==
  ASSUME SureDrain, ConstantsAssumption, NEW a \in Thread,
         \A b \in Thread : b # a => thread'[b] = thread[b],
         record'.running = record.running,
         thread[a].at \notin {"idle", "decide", "blocked"},
         thread'[a].op = "stop" /\ Halts(a)' => thread[a].op = "stop" /\ Halts(a),
         thread'[a].at \in Before =>
           \/ thread[a].at \in Before \/ thread[a].op = "restart"
           \/ ~record.running /\ a \in Restarter \cup {"operator"} /\ ~Halts(a)
  PROVE  Undisturbing(a)
<1>0. "operator" \in Thread
  BY DEF Thread
<1>1. OperatorStops' => OperatorStops
  BY <1>0 DEF OperatorStops, Halts, At
<1>2. ASSUME OperatorStops PROVE thread[a].op # "restart"
  <2>1. Working("operator") /\ thread["operator"].op = "stop"
    BY <1>2 DEF OperatorStops, Working
  <2> QED
    BY <1>0, <2>1 DEF SureDrain, Sole, Alone, Working
<1>3. ASSUME OperatorStops, ~record.running PROVE a \notin Restarter
  BY <1>3 DEF SureDrain, Launches, OperatorStopHolds
<1>4. ASSUME OperatorStops PROVE thread'[a].at \notin Before
  BY <1>2, <1>3, <1>4 DEF SureDrain, Launches, OperatorStopHolds, OperatorStops
<1> QED
  BY <1>1, <1>3, <1>4 DEF Undisturbing

(* The kinds of steps of a thread that is under way. *)
LEMMA GoingKeepsDrain ==
  ASSUME SureDrain, ConstantsAssumption, NEW a \in Thread, a # "shutdown",
         CalmTables, finalizer' = finalizer, Knowing(a), RowKnown',
         record'.running = record.running, timer' \in {0, timer},
         a \in Restarter => shutdownRequested' = shutdownRequested,
         \A p \in Pid : proc'[p].stage = "scheduling" => proc[p].stage = "scheduling",
         MayLaunch(a)' => ~record.running,
         thread[a].at \notin {"idle", "decide", "blocked"},
         thread'[a].op = "stop" /\ Halts(a)' => thread[a].op = "stop" /\ Halts(a),
         thread'[a].at \in Before =>
           \/ thread[a].at \in Before \/ thread[a].op = "restart"
           \/ ~record.running /\ a \in Restarter \cup {"operator"} /\ ~Halts(a)
  PROVE  DrainKept'
<1>0. \A b \in Thread : b # a => thread'[b] = thread[b]
  BY DEF Knowing
<1>1. Undisturbing(a)
  BY <1>0, GoingUndisturbed
<1>2. OperatorStopHolds'
  BY <1>0, <1>1, OperatorStopStays
<1>3. LaunchesStopped'
  BY <1>0, LaunchesStayStopped
<1>4. Launches'
  BY <1>2, <1>3, CalmKeepsLaunches
<1>5. ShutdownHolds' /\ ~GaveUp
  BY <1>0, ShutdownStands
<1>6. FinalizersKnown'
  BY <1>5 DEF SureDrain, FinalizersKnown, CalmTables
<1> QED
  BY <1>4, <1>5, <1>6 DEF DrainKept

LEMMA SameTables ==
  ASSUME UNCHANGED <<managed, finalizer>>,
         \A p \in Pid :
           /\ proc'[p].stopping = proc[p].stopping
           /\ \/ proc'[p].stage = proc[p].stage
              \/ proc[p].stage = "unborn" /\ proc'[p].stage = "launched"
              \/ proc[p].stage = "launched" /\ proc'[p].stage = "done"
  PROVE  /\ CalmTables
         /\ \A p \in Pid : proc'[p].stage = "scheduling" => proc[p].stage = "scheduling"
         /\ \A p \in Pid : Supervised(p)' = Supervised(p)
BY DEF CalmTables, Supervised

LEMMA LeavingKeepsDrain ==
  ASSUME SureDrain, ConstantsAssumption, NEW a \in Thread, a # "shutdown", Leaves(a),
         CalmTables, finalizer' = finalizer, RowKnown',
         record'.running = record.running, timer' \in {0, timer},
         a \in Restarter => shutdownRequested' = shutdownRequested,
         \A p \in Pid : proc'[p].stage = "scheduling" => proc[p].stage = "scheduling",
         thread[a].at \notin {"idle", "decide", "blocked"}
  PROVE  DrainKept'
<1>1. /\ ~Halts(a)' /\ ~MayLaunch(a)' /\ thread'[a].at \notin Before
      /\ Knowing(a)
  BY DEF Leaves, Knowing, Halts, MayLaunch, At, Before
<1> QED
  BY <1>1, GoingKeepsDrain

(* What is managed is marked, so that its end is that of a stop. *)
LEMMA BeginHalts ==
  ASSUME SureDrain, ~GaveUp, NEW a \in Thread, a # "shutdown", NEW from \in ThreadRecord,
         BeginStop(a, from), Begins(a, from)
  PROVE  /\ \A p \in Pid : Supervised(p)' => Supervised(p)
         /\ Halts(a)' => \A p \in Pid : ~Supervised(p)'
         /\ Halts(a)' => managed # None
<1> DEFINE r == [from EXCEPT !.at = IF HasManagedProcess THEN "mark" ELSE "await",
                             !.wait = StopTarget(a)]
<1>1. \A p \in Pid : Supervised(p)' => Supervised(p) /\ p # managed
  <2> TAKE p \in Pid
  <2>1. proc'[p].stage = proc[p].stage /\ proc'[p].stopping = (proc[p].stopping \/ p = managed)
    BY DEF Begins
  <2>2. p = managed => proc[p].stage = "tracked"
    BY DEF SureDrain, Sole, ManagedTracked, Pid, None
  <2> QED
    BY <2>1, <2>2 DEF Supervised
<1>2. adopted.pid = None
  BY DEF SureDrain, Sole, NoneAdopted
<1>3. thread' = [thread EXCEPT ![a] = r] /\ thread \in [Thread -> ThreadRecord]
  BY DEF BeginStop, SureDrain, LifecycleTypes, ThreadsTyped
<1>4. r.at = (IF HasManagedProcess THEN "mark" ELSE "await") /\ r.wait = StopTarget(a)
  BY DEF ThreadRecord
<1> HIDE DEF r
<1>5. thread'[a] = r
  BY <1>3
<1>6. Halts(a)' => managed # None
  BY <1>2, <1>4, <1>5 DEF Halts, At, HasManagedProcess, StopTarget
<1>7. Halts(a)' => \A p \in Pid : ~Supervised(p)'
  <2> SUFFICES ASSUME managed # None, NEW p \in Pid, Supervised(p)' PROVE FALSE
    BY <1>6
  <2>1. Supervised(p) /\ p # managed
    BY <1>1
  <2>2. finalizer = p
    BY <2>1 DEF SureDrain, FinalizersKnown
  <2> QED
    BY <2>1, <2>2, SupervisedUnmanaged
<1> QED
  BY <1>1, <1>6, <1>7

LEMMA BeginningKeepsDrain ==
  ASSUME SureDrain, ConstantsAssumption, NEW a \in Thread, a # "shutdown", NEW from \in ThreadRecord,
         BeginStop(a, from), Begins(a, from), from.op # "stop",
         UNCHANGED <<record, managed, finalizer, timer, shutdownRequested, row>>,
         thread[a].at \notin {"idle", "decide", "blocked", "activate"}
  PROVE  DrainKept'
<1>0. /\ \A b \in Thread : b # a => thread'[b] = thread[b]
      /\ \A p \in Pid : proc'[p].stage = proc[p].stage
      /\ thread'[a].at \in {"mark", "await"} /\ thread'[a].op # "stop"
  BY DEF Begins
<1>1. ~GaveUp
  BY <1>0, ShutdownStands
<1>2. CalmTables
  BY <1>0, <1>1, BeginHalts DEF CalmTables
<1>3. Knowing(a)
  BY <1>0, <1>1, BeginHalts DEF Knowing, At
<1>4. RowKnown'
  BY <1>0, RowStays
<1>5. ~MayLaunch(a)' /\ thread'[a].at \notin Before
  BY <1>0 DEF MayLaunch, At, Before
<1> QED
  BY <1>0, <1>2, <1>3, <1>4, <1>5, GoingKeepsDrain

-----------------------------------------------------------------------------
LEMMA PreparingKeepsDrain ==
  ASSUME SureDrain, ConstantsAssumption, LifecycleTypes', Sole', NEW a \in Thread,
         Doctoring(a) \/ Preparing(a)
  PROVE  DrainKept'
<1>0. /\ thread[a] \in ThreadRecord /\ Fits(a, thread[a]) /\ Role(a, thread[a])
      /\ LifecycleTypes
      /\ Waited(a) /\ (MayLaunch(a) => ~record.running)
  BY DEF SureDrain, LifecycleTypes, ThreadsTyped, ThreadsFit, Roles, Launches, LaunchesStopped
<1>a. /\ a # "shutdown"
      /\ thread[a].at \in {"doctor", "queued", "negotiate", "check", "owner", "clear"}
  <2>1. thread[a].at \in {"doctor", "queued", "negotiate", "check", "owner", "clear"}
    BY DEF Doctoring, DoctorAllows, DoctorRefuses, Preparing, EnterStart, Adopt, Negotiate, Check,
       Classify, Clear, MyTurn, At
  <2> QED
    BY <1>0, <2>1 DEF Role, Fits, Launching
<1>b. ~Halts(a)
  BY <1>a DEF Halts, At
<1>1. CASE DoctorAllows(a)
  <2>1. thread[a].at = "doctor" /\ UNCHANGED <<record, managed, finalizer, timer, shutdownRequested, row>>
    BY <1>1 DEF DoctorAllows, At, plans
  <2>2. CASE thread[a].was
    <3>1. BeginStop(a, thread[a]) /\ Begins(a, thread[a])
      BY <1>0, <1>1, <2>2, PreparingGoes DEF DoctorAllows
    <3> QED
      BY <1>0, <1>a, <2>1, <3>1, BeginningKeepsDrain DEF Fits
  <2>3. CASE ~thread[a].was
    <3>1. UNCHANGED proc
      BY <1>1, <2>3 DEF DoctorAllows
    <3>2. PICK place \in {"negotiate", "queued"} : /\ Goes(a, place)
                                                   /\ place = "negotiate" => thread[a].op = "restart"
      BY <1>0, <1>1, <2>3, PreparingGoes
    <3>3. place = "negotiate" => ~record.running
      BY <1>0, <2>1, <2>3, <3>2 DEF MayLaunch, At
    <3>4. Knowing(a) /\ ~Halts(a)' /\ (MayLaunch(a)' => ~record.running)
      BY <3>2, <3>3 DEF Knowing, Halts, MayLaunch, Goes, At, Before
    <3>5. RowKnown'
      BY <2>1, <3>2, RowStays DEF Goes
    <3> QED
      BY <1>a, <2>1, <3>1, <3>2, <3>4, <3>5, SameTables, GoingKeepsDrain DEF Goes, Before
  <2> QED
    BY <2>2, <2>3
<1>2. CASE DoctorRefuses(a)
  <2>1. /\ Leaves(a)
        /\ UNCHANGED <<proc, managed, finalizer, record, timer, shutdownRequested, row>>
    BY <1>0, <1>2, PreparingGoes DEF DoctorRefuses, plans, tables
  <2>2. RowKnown'
    BY <1>a, <2>1, RowStays DEF Leaves
  <2> QED
    BY <1>a, <2>1, <2>2, SameTables, LeavingKeepsDrain
<1>3. CASE EnterStart(a)
  <2>1. /\ thread[a].at = "queued"
        /\ UNCHANGED <<proc, managed, finalizer, record>> /\ timer' \in {0, timer}
        /\ thread[a].op = "supervise" => shutdownRequested' = shutdownRequested
        /\ row'.pid \in {None, row.pid}
    BY <1>3 DEF EnterStart, MyTurn, At, tables, TakesBack, Transition
  <2>2. a \in Restarter \cup {"operator"} /\ (a \in Restarter => thread[a].op = "supervise")
    BY <1>0, <2>1, ConstantsAssumption DEF Fits, Role
  <2>3. CASE record.running
    <3>1. Leaves(a)
      BY <1>0, <1>3, <2>3, PreparingGoes
    <3>2. RowKnown'
      BY <1>a, <2>1, <3>1, RowStays DEF Leaves
    <3> QED
      BY <1>a, <2>1, <2>2, <3>1, <3>2, SameTables, LeavingKeepsDrain
  <2>4. CASE ~record.running
    <3>1. Goes(a, "negotiate")
      BY <1>0, <1>3, <2>4, PreparingGoes
    <3>2. Knowing(a) /\ ~Halts(a)'
      BY <3>1 DEF Knowing, Halts, Goes, At
    <3>3. RowKnown'
      BY <1>a, <2>1, <3>1, RowStays DEF Goes
    <3> QED
      BY <1>a, <1>b, <2>1, <2>2, <2>4, <3>1, <3>2, <3>3, SameTables, GoingKeepsDrain DEF Goes
  <2> QED
    BY <2>3, <2>4
<1>4. CASE Adopt(a)
  <2>1. adopted' = [pid |-> row.pid, stopping |-> FALSE] /\ row.pid \in live
    BY <1>4 DEF Adopt, OwnedByOthers
  <2>2. adopted'.pid \in Pid
    BY <1>0, <2>1 DEF LifecycleTypes, ProcTyped
  <2> QED
    BY <2>2 DEF Sole, NoneAdopted, Pid, None
<1>5. CASE Negotiate(a)
  <2>1. /\ thread[a].at = "negotiate"
        /\ UNCHANGED <<proc, managed, finalizer, record, timer, shutdownRequested, row>>
    BY <1>5 DEF Negotiate, At, plans, tables
  <2>2. /\ thread'[a].at = "check" /\ thread'[a].op = thread[a].op /\ thread'[a].wait = finalizer
        /\ \A b \in Thread : b # a => thread'[b] = thread[b]
    BY <1>0, <1>5 DEF Negotiate, LifecycleTypes, ThreadsTyped, ThreadRecord
  <2>3. ~record.running
    BY <1>0, <2>1 DEF MayLaunch, Before
  <2>4. ~GaveUp
    BY <1>a, <2>1, <2>2, ShutdownStands
  <2>5. Knowing(a) /\ ~Halts(a)'
    BY <2>2, <2>4 DEF Knowing, Halts, At, SureDrain, FinalizersKnown
  <2>6. RowKnown'
    BY <1>a, <2>1, <2>2, RowStays
  <2> QED
    BY <1>a, <2>1, <2>2, <2>3, <2>5, <2>6, SameTables, GoingKeepsDrain DEF Before
<1>6. CASE Check(a)
  <2>1. /\ thread[a].at = "check" /\ Finished(thread[a].wait)
        /\ UNCHANGED <<proc, managed, finalizer, record, timer, shutdownRequested, row>>
    BY <1>6 DEF Check, At, plans, tables
  <2>2. CASE HasManagedProcess
    <3>1. Leaves(a)
      BY <1>0, <1>6, <2>2, PreparingGoes
    <3>2. RowKnown'
      BY <1>a, <2>1, <3>1, RowStays DEF Leaves
    <3> QED
      BY <1>a, <2>1, <3>1, <3>2, SameTables, LeavingKeepsDrain
  <2>3. CASE ~HasManagedProcess
    <3>1. Goes(a, "owner")
      BY <1>0, <1>6, <2>3, PreparingGoes
    <3>2. \A p \in Pid : ~Supervised(p)
      BY <1>0, <2>1 DEF Waited, At, Finished, Supervised, Pid, None
    <3>3. ~record.running
      BY <1>0, <2>1 DEF MayLaunch, Before
    <3>4. Knowing(a) /\ ~Halts(a)'
      BY <3>1, <3>2 DEF Knowing, Halts, Goes, At
    <3>5. RowKnown'
      BY <1>a, <2>1, <3>1, RowStays DEF Goes
    <3> QED
      BY <1>a, <2>1, <3>1, <3>3, <3>4, <3>5, SameTables, GoingKeepsDrain DEF Goes, Before
  <2> QED
    BY <2>2, <2>3
<1>7. CASE Classify(a) \/ Clear(a)
  <2>1. /\ thread[a].at \in {"owner", "clear"}
        /\ UNCHANGED <<proc, managed, finalizer, record, timer, shutdownRequested>>
        /\ row' \in {row, Unowned} /\ row'.pid \in {None, row.pid}
    <3>1. /\ thread[a].at \in {"owner", "clear"}
          /\ UNCHANGED <<proc, managed, finalizer, record, timer, shutdownRequested>>
      BY <1>7 DEF Classify, Clear, At, plans, tables
    <3>2. row' = row \/ row' = Unowned
      BY <1>7 DEF Classify, Clear
    <3>3. Unowned.pid = None
      BY DEF Unowned
    <3> QED
      BY <3>1, <3>2, <3>3
  <2>2. CASE Leaves(a)
    <3>1. RowKnown'
      BY <1>a, <2>1, <2>2, RowStays DEF Leaves
    <3> QED
      BY <1>a, <2>1, <2>2, <3>1, SameTables, LeavingKeepsDrain
  <2>3. CASE ~Leaves(a)
    <3>1. PICK place \in {"clear", "spawn"} : Goes(a, place)
      BY <1>0, <1>7, <2>3, PreparingGoes
    <3>2. ~record.running /\ \A p \in Pid : ~Supervised(p)
      BY <1>0, <2>1 DEF MayLaunch, Before, Waited
    <3>3. Knowing(a) /\ ~Halts(a)'
      BY <3>1, <3>2 DEF Knowing, Halts, Goes, At
    <3>4. RowKnown'
      BY <1>a, <2>1, <3>1, RowStays DEF Goes
    <3> QED
      BY <1>a, <2>1, <3>1, <3>2, <3>3, <3>4, SameTables, GoingKeepsDrain DEF Goes, Before
  <2> QED
    BY <2>2, <2>3
<1> QED
  BY <1>1, <1>2, <1>3, <1>4, <1>5, <1>6, <1>7 DEF Doctoring, Preparing

-----------------------------------------------------------------------------
(* A launch has its process. *)
LEMMA TrackKeepsDrain ==
  ASSUME SureDrain, ConstantsAssumption, NEW a \in Thread, Activate(a) \/ Retain(a)
  PROVE  DrainKept'
<1> DEFINE q == thread[a].pid
<1>0. /\ thread[a].at \in {"enrol", "activate"} /\ q \in Pid
      /\ proc[q].stage = "launched"
      /\ LifecycleTypes /\ Launches /\ Alone /\ TurnInv
      /\ Fits(a, thread[a]) /\ Role(a, thread[a]) /\ Waited(a)
      /\ "operator" \in Thread /\ "shutdown" \in Thread
  BY DEF Activate, Retain, At, SureDrain, LifecycleTypes, ThreadsFit, Fits, Sole, Launched, Roles, Launches, Thread
<1>a. a # "shutdown"
  BY <1>0 DEF Fits, Role, Launching
<1>1. /\ managed' = q /\ finalizer' = q
      /\ UNCHANGED <<timer, shutdownRequested, row>>
      /\ proc' = [proc EXCEPT ![q].stage = "tracked"]
      /\ record'.running = TRUE
  BY <1>0 DEF Activate, Retain, Track, RunningAs, LifecycleTypes, StoreTyped, StoreRecord, plans
<1>2. /\ thread'[a].at \in {"ready", "idle", "decide", "pass"}
      /\ \A b \in Thread : b # a => thread'[b] = thread[b]
  BY <1>0, LaunchingGoes DEF Goes, Leaves
<1>3. /\ managed = None /\ \A p \in Pid : ~Supervised(p)
  BY <1>0 DEF SureDrain, Sole, Cleared, Waited
<1>4. /\ \A b \in Thread : b # a => thread[b].at \notin Launching
      /\ \A b \in Thread : b # a => ~(At(b, "doctor") /\ thread[b].op = "restart")
  <2>1. Working(a) /\ thread[a].at \in Launching
    BY <1>0 DEF Fits, Launching, Working
  <2>2. \A b \in Thread : b # a => thread[b].at \notin Launching
    BY <1>0, <2>1, OneLaunch
  <2>3. \A b \in Thread : b # a => ~(At(b, "doctor") /\ thread[b].op = "restart")
    BY <1>0, <2>1 DEF Alone, Working
  <2> QED
    BY <2>2, <2>3
<1>5. \A b \in Thread : b # a /\ b # "shutdown" => ~Halts(b)
  BY <1>0, HaltAlone DEF Before
<1> HIDE DEF q
<1>6. /\ proc'[q].stage = "tracked"
      /\ \A p \in Pid : p # q => proc'[p] = proc[p]
  BY <1>0, <1>1 DEF LifecycleTypes, ProcTyped, ProcRecord
<1>7. \A p \in Pid : Supervised(p)' => p = q
  BY <1>3, <1>6 DEF Supervised
<1>8. TrackedManaged' /\ OneFinalizer'
  <2>1. \A p \in Pid : p # None
    BY DEF Pid, None
  <2> QED
    BY <1>0, <1>1, <1>3, <1>6, <2>1 DEF Launches, TrackedManaged, OneFinalizer
<1>9. ASSUME NEW b \in Thread PROVE Waited(b)' /\ Halted(b)' /\ ~MayLaunch(b)'
  <2>1. CASE b # a
    <3>1. thread'[b] = thread[b] /\ thread[b].at \notin Launching
      BY <1>2, <1>4, <2>1
    <3>2. Waited(b)' /\ ~MayLaunch(b)'
      BY <1>4, <2>1, <3>1 DEF Waited, MayLaunch, At, Launching, Before
    <3>3. Halted(b)'
      BY <1>5, <2>1, <3>1 DEF Halted, Halts, At
    <3> QED
      BY <3>2, <3>3
  <2>2. CASE b = a
    BY <1>2, <2>2 DEF Waited, MayLaunch, Halted, Halts, At, Before
  <2> QED
    BY <2>1, <2>2
<1>10. LaunchesStopped'
  BY <1>9 DEF LaunchesStopped
<1>11. OperatorStopHolds'
  <2>1. ~OperatorStops
    BY <1>0 DEF Launches, OperatorStopHolds, Before
  <2>2. ~OperatorStops'
    BY <1>0, <1>2, <2>1 DEF OperatorStops, Halts, At
  <2> QED
    BY <2>2 DEF OperatorStopHolds
<1>12. RowKnown'
  <2> SUFFICES ASSUME row'.pid # None PROVE row'.pid = managed'
    BY DEF RowKnown
  <2>1. PICK b \in Thread : At(b, "activate") /\ thread[b].pid = row.pid
    BY <1>0, <1>1, <1>3 DEF Launches, RowKnown
  <2>2. b = a
    BY <1>4, <2>1 DEF At, Launching
  <2> QED
    BY <1>1, <2>1, <2>2 DEF q
<1>13. ShutdownHolds' /\ ~GaveUp
  <2>1. \A p \in Pid : proc'[p].stage = "scheduling" => proc[p].stage = "scheduling"
    BY <1>6
  <2> QED
    BY <1>0, <1>a, <1>1, <1>2, <2>1, ShutdownStands
<1>14. FinalizersKnown'
  BY <1>1, <1>7 DEF FinalizersKnown
<1> QED
  BY <1>8, <1>9, <1>10, <1>11, <1>12, <1>13, <1>14 DEF DrainKept, Launches

-----------------------------------------------------------------------------
LEMMA SettleKeepsDrain ==
  ASSUME SureDrain, ConstantsAssumption, NEW a \in Thread, Settle(a)
  PROVE  DrainKept'
<1>0. /\ thread[a] \in ThreadRecord /\ thread[a].at = "settle" /\ LifecycleTypes
      /\ Fits(a, thread[a]) /\ Role(a, thread[a]) /\ Alone /\ TurnInv
      /\ UNCHANGED <<proc, managed, finalizer, timer, row, shutdownRequested>>
      /\ "operator" \in Thread /\ "shutdown" \in Thread
  BY DEF Settle, At, SureDrain, tables, plans, LifecycleTypes, ThreadsTyped, ThreadsFit, Roles, Sole, Thread
<1>1. Leaves(a)
  BY <1>0, LaunchingGoes
<1>a. a # "shutdown" /\ thread[a].op \in {"start", "supervise", "restart"} /\ Working(a)
  BY <1>0 DEF Fits, Role, Launching, Working
<1>2. /\ \A b \in Thread : b # a => thread'[b] = thread[b]
      /\ thread'[a].at \in {"idle", "decide", "pass"}
      /\ ~MayLaunch(a)' /\ ~Halts(a)' /\ Knowing(a)
  BY <1>1 DEF Leaves, MayLaunch, Halts, Knowing, At, Before
<1>3. CalmTables /\ \A p \in Pid : proc'[p].stage = "scheduling" => proc[p].stage = "scheduling"
  BY <1>0, SameTables
<1>4. RowKnown'
  BY <1>0, <1>2, RowStays
<1>5. LaunchesStopped'
  <2> SUFFICES ASSUME NEW b \in Thread, MayLaunch(b)' PROVE FALSE
    BY DEF LaunchesStopped
  <2>1. b # a /\ MayLaunch(b)
    BY <1>2 DEF MayLaunch, At
  <2>2. thread[b].at \notin Launching
    BY <1>0, <2>1, OneLaunch DEF Launching
  <2>3. thread[b].op = "restart" /\ Working(b)
    BY <2>1, <2>2 DEF MayLaunch, Before, Launching, Working
  <2> QED
    BY <1>0, <1>a, <2>1, <2>3 DEF Alone
<1>6. OperatorStopHolds'
  <2>1. OperatorStops' => OperatorStops /\ a # "operator"
    BY <1>0, <1>2 DEF OperatorStops, Halts, At
  <2> SUFFICES ASSUME OperatorStops, a # "operator" PROVE OperatorStopHolds'
    BY <2>1 DEF OperatorStopHolds
  <2>2. Working("operator")
    BY DEF OperatorStops, Working
  <2>3. thread[a].op = "supervise"
    BY <1>0, <1>a, <2>2 DEF Alone, Role
  <2>4. a \in Restarter
    BY <1>0, <2>3 DEF Fits
  <2>5. \A r \in Restarter \ {a} : At(r, "idle")
    BY <1>0, <2>4 DEF SureDrain, OneRestart, At
  <2>6. thread'[a].at \in {"idle", "decide"}
    <3>1. Leave(a, TRUE)
      BY DEF Settle
    <3> QED
      BY <1>0, <1>2, <2>3, <3>1, LeaveRole
  <2>7. Undisturbing(a)
    BY <2>1, <2>5, <2>6 DEF Undisturbing, Before
  <2> QED
    BY <1>0, <1>2, <2>7, OperatorStopStays
<1>7. Launches'
  BY <1>2, <1>3, <1>4, <1>5, <1>6, CalmKeepsLaunches
<1>8. ShutdownHolds' /\ ~GaveUp
  BY <1>0, <1>a, <1>2, <1>3, ShutdownStands
<1>9. FinalizersKnown'
  BY <1>0, <1>3, <1>8 DEF SureDrain, FinalizersKnown, CalmTables
<1> QED
  BY <1>7, <1>8, <1>9 DEF DrainKept

LEMMA LaunchingKeepsDrain ==
  ASSUME SureDrain, ConstantsAssumption, NEW a \in Thread, Spawning(a) \/ Confirming(a)
  PROVE  DrainKept'
<1>0. /\ thread[a] \in ThreadRecord /\ Fits(a, thread[a]) /\ Role(a, thread[a])
      /\ LifecycleTypes
      /\ Waited(a) /\ (MayLaunch(a) => ~record.running)
  BY DEF SureDrain, LifecycleTypes, ThreadsTyped, ThreadsFit, Roles, Launches, LaunchesStopped
<1>a. /\ a # "shutdown"
      /\ thread[a].at \in {"spawn", "enrol", "activate", "ready", "own", "settle"}
  <2>1. thread[a].at \in {"spawn", "enrol", "activate", "ready", "own", "settle"}
    BY DEF Spawning, Spawn, SpawnFails, Enrol, Contain, Retain, Activate, Confirming, Ready, Unready, Own, Settle, At
  <2> QED
    BY <1>0, <2>1 DEF Role, Fits, Launching
<1>1. CASE SpawnFails(a)
  <2>1. /\ thread[a].at = "spawn" /\ Leaves(a)
        /\ UNCHANGED <<proc, managed, finalizer, record, timer, shutdownRequested, row>>
    BY <1>0, <1>1, LaunchingGoes DEF SpawnFails, At, plans, tables
  <2>2. RowKnown'
    BY <2>1, RowStays DEF Leaves
  <2> QED
    BY <1>a, <2>1, <2>2, SameTables, LeavingKeepsDrain
<1>2. CASE Spawn(a)
  <2>0. /\ thread[a].at = "spawn"
        /\ UNCHANGED <<record, managed, finalizer, timer, shutdownRequested, row>>
    BY <1>2 DEF Spawn, At, tables, plans
  <2>1. /\ thread'[a].at = "enrol" /\ thread'[a].op = thread[a].op
        /\ \A b \in Thread : b # a => thread'[b] = thread[b]
    BY <1>0, <1>2, SpawnBecomes DEF Becomes
  <2>2. /\ SpawnedPid \in Pid /\ proc[SpawnedPid] = Unborn
        /\ proc' = [proc EXCEPT ![SpawnedPid].stage = "launched"]
    <3>1. SpawnedPid \in Pid /\ SpawnedPid > MaxSpawns - budget.spawns
      BY <1>0, <1>2, SpawnBecomes, ConstantsAssumption DEF SpawnedPid, LifecycleTypes, StoreTyped, Budget
    <3> QED
      BY <1>2, <3>1 DEF Spawn, SpawnedPid, SureDrain, Sole, Fresh
  <2>3. \A p \in Pid :
          /\ proc'[p].stopping = proc[p].stopping
          /\ \/ proc'[p].stage = proc[p].stage
             \/ proc[p].stage = "unborn" /\ proc'[p].stage = "launched"
    <3>1. \A p \in Pid : p # SpawnedPid => proc'[p] = proc[p]
      BY <1>0, <2>2 DEF LifecycleTypes, ProcTyped
    <3>2. /\ proc[SpawnedPid].stage = "unborn" /\ proc[SpawnedPid].stopping = FALSE
          /\ proc'[SpawnedPid].stage = "launched" /\ proc'[SpawnedPid].stopping = FALSE
      BY <1>0, <2>2 DEF LifecycleTypes, ProcTyped, Unborn
    <3> QED
      BY <2>2, <3>1, <3>2
  <2>4. /\ CalmTables
        /\ \A p \in Pid : proc'[p].stage = "scheduling" => proc[p].stage = "scheduling"
    BY <2>0, <2>3, SameTables
  <2>5. Knowing(a) /\ ~Halts(a)' /\ ~record.running
    BY <1>0, <2>0, <2>1 DEF Knowing, Halts, Waited, MayLaunch, At, Before
  <2>6. RowKnown'
    BY <2>0, <2>1, RowStays
  <2> QED
    BY <1>a, <2>0, <2>1, <2>4, <2>5, <2>6, GoingKeepsDrain DEF Before
<1>3. CASE Enrol(a)
  <2>1. /\ thread[a].at = "enrol" /\ Goes(a, "activate")
        /\ UNCHANGED <<proc, managed, finalizer, record, timer, shutdownRequested>>
        /\ row' = [pid |-> thread[a].pid, state |-> "launching"]
    BY <1>0, <1>3, LaunchingGoes DEF Enrol, At, plans, tables
  <2>2. Knowing(a) /\ ~Halts(a)' /\ ~record.running
    BY <1>0, <2>1 DEF Knowing, Waited, Halts, MayLaunch, At, Goes, Before
  <2>3. RowKnown'
    <3>1. row'.pid = thread'[a].pid /\ At(a, "activate")'
      BY <2>1 DEF Goes, At
    <3> QED
      BY <3>1 DEF RowKnown
  <2> QED
    BY <1>a, <2>1, <2>2, <2>3, SameTables, GoingKeepsDrain DEF Goes, Before
<1>4. CASE Contain(a)
  <2> DEFINE q == thread[a].pid
  <2>1. /\ thread[a].at \in {"enrol", "activate"} /\ Leaves(a)
        /\ UNCHANGED <<managed, finalizer, record, timer, shutdownRequested>>
        /\ q \in Pid /\ proc[q].stage = "launched"
        /\ proc' = [proc EXCEPT ![q].stage = "done", ![q].exit = "killed"]
        /\ row' = Transition(q, "stopped")
    BY <1>0, <1>4, LaunchingGoes DEF Contain, Dies, plans, tables, Fits, SureDrain, Sole, Launched
  <2>2. \A p \in Pid :
          /\ proc'[p].stopping = proc[p].stopping
          /\ \/ proc'[p].stage = proc[p].stage
             \/ proc[p].stage = "launched" /\ proc'[p].stage = "done"
    BY <1>0, <2>1 DEF LifecycleTypes, ProcTyped, ProcRecord
  <2>3. /\ CalmTables
        /\ \A p \in Pid : proc'[p].stage = "scheduling" => proc[p].stage = "scheduling"
    BY <2>1, <2>2, SameTables
  <2>4. RowKnown'
    <3>1. CASE row.pid = q
      BY <2>1, <3>1 DEF Transition, RowKnown
    <3>2. CASE row.pid # q
      <4>1. row' = row /\ RowKnown
        BY <2>1, <3>2 DEF Transition, SureDrain, Launches
      <4>2. \A b \in Thread : At(b, "activate") /\ thread[b].pid = row.pid
              => At(b, "activate")' /\ thread'[b].pid = row.pid
        BY <2>1, <3>2 DEF Leaves, At
      <4> QED
        BY <2>1, <4>1, <4>2 DEF RowKnown
    <3> QED
      BY <3>1, <3>2
  <2> QED
    BY <1>a, <2>1, <2>3, <2>4, LeavingKeepsDrain
<1>5. CASE Ready(a) \/ Own(a)
  <2>1. PICK place \in {"own", "settle"} : Goes(a, place)
    BY <1>0, <1>5, LaunchingGoes
  <2>2. /\ thread[a].at \in {"ready", "own"}
        /\ UNCHANGED <<proc, managed, finalizer, record, timer, shutdownRequested>>
        /\ row' \in {row, Transition(thread[a].pid, "running")}
    BY <1>5 DEF Ready, Own, At, plans, tables
  <2>3. row'.pid = row.pid
    BY <1>0, <2>2 DEF Transition, LifecycleTypes, StoreTyped, RowRecord
  <2>4. Knowing(a) /\ ~Halts(a)' /\ ~MayLaunch(a)'
    BY <2>1 DEF Knowing, MayLaunch, Halts, At, Before, Goes
  <2>5. RowKnown'
    BY <2>1, <2>2, <2>3, RowStays DEF Goes
  <2> QED
    BY <1>a, <2>1, <2>2, <2>4, <2>5, SameTables, GoingKeepsDrain DEF Goes, Before
<1>6. CASE Unready(a)
  <2>1. /\ thread[a].at = "ready" /\ Begins(a, thread[a]) /\ BeginStop(a, thread[a])
        /\ UNCHANGED <<managed, finalizer, record, timer, shutdownRequested, row>>
    BY <1>0, <1>6, LaunchingGoes DEF Unready, At, plans
  <2>2. thread[a].op # "stop"
    BY <1>0, <2>1 DEF Fits, Launching
  <2> QED
    BY <1>0, <1>a, <2>1, <2>2, BeginningKeepsDrain
<1> QED
  BY <1>1, <1>2, <1>3, <1>4, <1>5, <1>6, TrackKeepsDrain, SettleKeepsDrain
  DEF Spawning, Confirming

-----------------------------------------------------------------------------
(* The store is corrected: it says not running. *)
LEMMA StoppedKeepsDrain ==
  ASSUME SureDrain, ConstantsAssumption, NEW a \in Thread, a # "shutdown",
         UNCHANGED <<proc, managed, finalizer, timer, shutdownRequested, row>>, ~record'.running,
         \A b \in Thread : b # a => thread'[b] = thread[b],
         thread'[a].at \in {"idle", "decide", "pass", "negotiate"},
         a \in Restarter => thread'[a].at \in {"idle", "decide"},
         thread[a].at \notin {"idle", "blocked", "activate"},
         OperatorStops /\ a # "operator" => a \in Restarter
  PROVE  DrainKept'
<1>0. "operator" \in Thread /\ Restarter \subseteq Thread
  BY DEF Thread
<1>1. /\ CalmTables /\ Knowing(a) /\ RowKnown' /\ LaunchesStopped'
      /\ \A p \in Pid : proc'[p].stage = "scheduling" => proc[p].stage = "scheduling"
  <2>1. CalmTables /\ \A p \in Pid : proc'[p].stage = "scheduling" => proc[p].stage = "scheduling"
    BY SameTables
  <2>2. Knowing(a)
    BY DEF Knowing, Halts, At
  <2>3. RowKnown'
    BY RowStays
  <2>4. LaunchesStopped'
    BY LaunchesStayStopped
  <2> QED
    BY <2>1, <2>2, <2>3, <2>4
<1>2. OperatorStopHolds'
  <2> SUFFICES ASSUME OperatorStops' PROVE OperatorStopHolds'
    BY DEF OperatorStopHolds
  <2>1. OperatorStops /\ a # "operator" /\ a \in Restarter
    BY <1>0 DEF OperatorStops, Halts, At
  <2>2. \A r \in Restarter \ {a} : At(r, "idle")
    BY <2>1 DEF SureDrain, OneRestart, At
  <2>3. Undisturbing(a)
    BY <2>1, <2>2 DEF Undisturbing, Before
  <2> QED
    BY <2>3, OperatorStopStays
<1>3. Launches'
  BY <1>1, <1>2, CalmKeepsLaunches
<1>4. ShutdownHolds' /\ ~GaveUp
  BY <1>1, ShutdownStands
<1>5. FinalizersKnown'
  BY <1>1, <1>4 DEF SureDrain, FinalizersKnown, CalmTables
<1> QED
  BY <1>3, <1>4, <1>5 DEF DrainKept

(* With the operator's stop under way, no restart of a process is. *)
LEMMA OperatorStopsAlone ==
  ASSUME SureDrain, NEW a \in Thread, a # "operator", OperatorStops, thread[a].op = "restart"
  PROVE  FALSE
<1>1. Working("operator") /\ Working(a) /\ "operator" \in Thread
  BY DEF OperatorStops, Working, Thread
<1> QED
  BY <1>1 DEF SureDrain, Sole, Alone

LEMMA StoppingKeepsDrain ==
  ASSUME SureDrain, ConstantsAssumption, NEW a \in Thread, a # "shutdown", Stopping(a)
  PROVE  DrainKept'
<1>0. /\ thread[a] \in ThreadRecord /\ Fits(a, thread[a]) /\ Role(a, thread[a])
      /\ LifecycleTypes /\ Halted(a)
  BY DEF SureDrain, LifecycleTypes, ThreadsTyped, ThreadsFit, Roles, Launches
<1>a. thread[a].at \in {"mark", "kill", "await", "ending"}
  BY DEF Stopping, Mark, Kill, Expel, StopFails, GivesUp, StopEnds, StopRecords, OldStopped, NewStopped,
     StoppedFor, At, SureDrain, Sole, NoneAdopted
<1>1. CASE Mark(a)
  <2>1. /\ thread[a].at = "mark" /\ thread[a].wait \in Pid
        /\ UNCHANGED <<proc, managed, finalizer, record, timer, shutdownRequested>>
        /\ row' = Transition(thread[a].wait, "stopping")
    BY <1>0, <1>1 DEF Mark, At, Fits, plans, tables
  <2>2. Goes(a, "kill")
    BY <1>0, <1>1, <2>1, StoppingGoes DEF SureDrain, Sole, NoneAdopted, Pid, None
  <2>3. row'.pid = row.pid
    BY <1>0, <2>1 DEF Transition, LifecycleTypes, StoreTyped, RowRecord
  <2>4. \A p \in Pid : ~Supervised(p) /\ ~Supervised(p)'
    BY <1>0, <2>1 DEF Halted, Halts, Supervised
  <2>5. Knowing(a) /\ ~MayLaunch(a)' /\ Halts(a)
    BY <2>1, <2>2, <2>4 DEF Knowing, Halts, MayLaunch, Goes, At, Before
  <2>6. RowKnown'
    BY <2>1, <2>2, <2>3, RowStays DEF Goes
  <2> QED
    BY <1>a, <2>1, <2>2, <2>5, <2>6, SameTables, GoingKeepsDrain DEF Goes, Before
<1>2. CASE Kill(a)
  <2>1. /\ thread[a].at = "kill" /\ thread[a].wait \in Pid
        /\ UNCHANGED <<managed, finalizer, record, timer, shutdownRequested, row>>
        /\ Killed(thread[a].wait)
    BY <1>0, <1>2 DEF Kill, At, Fits, plans, tables
  <2>2. \A p \in Pid : proc'[p].stopping = proc[p].stopping /\ proc'[p].stage = proc[p].stage
    BY <1>0, <2>1 DEF Killed, LifecycleTypes, ProcTyped, ProcRecord
  <2>3. thread'[a].at = "await" /\ thread'[a].op = thread[a].op /\ \A b \in Thread : b # a => thread'[b] = thread[b]
    BY <1>0, <1>2, StoppingGoes DEF Becomes
  <2>4. \A p \in Pid : ~Supervised(p) /\ ~Supervised(p)'
    BY <1>0, <2>1, <2>2 DEF Halted, Halts, Supervised
  <2>5. Knowing(a) /\ ~MayLaunch(a)' /\ Halts(a)
    BY <2>1, <2>3, <2>4 DEF Knowing, Halts, MayLaunch, At, Before
  <2>6. RowKnown'
    BY <2>1, <2>3, RowStays
  <2>7. CalmTables /\ \A p \in Pid : proc'[p].stage = "scheduling" => proc[p].stage = "scheduling"
    BY <2>1, <2>2, SameTables
  <2> QED
    BY <1>a, <2>1, <2>3, <2>5, <2>6, <2>7, GoingKeepsDrain DEF Before
<1>3. CASE Expel(a)
  BY <1>3 DEF Expel, At, SureDrain, Sole, NoneAdopted
<1>4. CASE StopFails(a)
  <2>1. /\ Leaves(a)
        /\ UNCHANGED <<proc, managed, finalizer, record, timer, shutdownRequested, row>>
    BY <1>0, <1>4, StoppingGoes DEF StopFails, plans, tables
  <2>2. RowKnown'
    BY <1>a, <2>1, RowStays DEF Leaves
  <2> QED
    BY <1>a, <2>1, <2>2, SameTables, LeavingKeepsDrain
<1>5. CASE GivesUp(a)
  <2>1. /\ thread[a].at = "await" /\ thread[a].wait # None /\ Leaves(a)
        /\ UNCHANGED <<proc, managed, record, timer, shutdownRequested>>
        /\ finalizer' \in {None, finalizer}
        /\ row' = row \/ row' = Unowned
    BY <1>0, <1>5, StoppingGoes DEF GivesUp, Finished, At, plans
  <2>2. row'.pid \in {None, row.pid}
    BY <2>1 DEF Unowned
  <2>3. \A p \in Pid : ~Supervised(p) /\ ~Supervised(p)'
    BY <1>0, <2>1 DEF Halted, Halts, At, Supervised
  <2>4. CalmTables
    BY <2>1, <2>3 DEF CalmTables
  <2>5. Knowing(a) /\ ~Halts(a)' /\ ~MayLaunch(a)' /\ thread'[a].at \notin Before
        /\ \A b \in Thread : b # a => thread'[b] = thread[b]
    BY <2>1 DEF Leaves, Knowing, Halts, MayLaunch, At, Before
  <2>6. RowKnown'
    BY <2>1, <2>2, <2>5, RowStays
  <2>7. Undisturbing(a)
    BY <2>1, <2>5, GoingUndisturbed
  <2>8. OperatorStopHolds' /\ LaunchesStopped'
    BY <2>1, <2>5, <2>7, OperatorStopStays, LaunchesStayStopped
  <2>9. Launches'
    BY <2>4, <2>5, <2>6, <2>8, CalmKeepsLaunches
  <2>10. ShutdownHolds'
    BY <2>1, <2>5, ShutdownStands
  <2>11. FinalizersKnown'
    BY <2>3 DEF FinalizersKnown
  <2> QED
    BY <2>9, <2>10, <2>11 DEF DrainKept
<1>6. CASE StopEnds(a)
  <2>1. /\ thread[a].at = "await"
        /\ UNCHANGED <<proc, managed, finalizer, record, timer, shutdownRequested, row>>
    BY <1>6 DEF StopEnds, StoppedFor, At, plans, tables
  <2>2. Goes(a, "ending")
    BY <1>0, <1>6, StoppingGoes
  <2>3. Knowing(a) /\ ~MayLaunch(a)' /\ ~Halts(a)'
    BY <2>1, <2>2 DEF Knowing, Halts, MayLaunch, Goes, At, Before
  <2>4. RowKnown'
    BY <2>1, <2>2, RowStays DEF Goes
  <2> QED
    BY <1>a, <2>1, <2>2, <2>3, <2>4, SameTables, GoingKeepsDrain DEF Goes, Before
<1>7. CASE StopRecords(a) \/ NewStopped(a)
  <2>1. /\ UNCHANGED <<proc, managed, finalizer, timer, shutdownRequested, row>>
        /\ record' = EndedAs("stopped")
        /\ \E ok \in BOOLEAN : Leave(a, ok)
    BY <1>7 DEF StopRecords, NewStopped, plans, tables
  <2>2. /\ thread'[a].at \in {"idle", "decide", "pass"}
        /\ thread'[a].at = "pass" => thread[a].op = "shutdown"
        /\ \A b \in Thread : b # a => thread'[b] = thread[b]
    BY <1>0, <1>7, <1>a, <2>1, LeaveRole, StoppingGoes DEF Leaves
  <2>3. ~record'.running
    BY <1>0, <2>1 DEF EndedAs, LifecycleTypes, StoreTyped, StoreRecord
  <2>4. thread[a].op \in {"start", "supervise", "restart", "stop"}
    BY <1>0, <1>a DEF Role, Stops
  <2>5. OperatorStops /\ a # "operator" => a \in Restarter
    BY <1>0, <2>4, OperatorStopsAlone DEF Fits, Role
  <2> QED
    BY <1>a, <2>1, <2>2, <2>3, <2>4, <2>5, StoppedKeepsDrain
<1>8. CASE OldStopped(a)
  <2>1. /\ thread[a].at = "await" /\ thread[a].op = "restart"
        /\ UNCHANGED <<proc, managed, finalizer, timer, shutdownRequested, row>>
        /\ record' = EndedAs("stopped")
    BY <1>8 DEF OldStopped, StoppedFor, At, plans, tables
  <2>2. Goes(a, "negotiate")
    BY <1>0, <1>8, StoppingGoes
  <2>3. ~record'.running
    BY <1>0, <2>1 DEF EndedAs, LifecycleTypes, StoreTyped, StoreRecord
  <2>4. a \notin Restarter
    BY <1>0, <2>1, ConstantsAssumption DEF Role
  <2>5. OperatorStops /\ a # "operator" => a \in Restarter
    BY <2>1, OperatorStopsAlone
  <2> QED
    BY <2>1, <2>2, <2>3, <2>4, <2>5, StoppedKeepsDrain DEF Goes
<1> QED
  BY <1>1, <1>2, <1>3, <1>4, <1>5, <1>6, <1>7, <1>8 DEF Stopping

-----------------------------------------------------------------------------
(* The shutdown itself launches nothing. *)
LEMMA ShutdownLaunchesNothing ==
  ASSUME SureDrain, ConstantsAssumption, ~At("shutdown", "idle"),
         \A b \in Thread : b # "shutdown" => thread'[b] = thread[b],
         thread'["shutdown"].at \in {"pass", "drain", "mark", "kill", "await", "done"},
         CalmTables, record'.running => record.running, timer' \in {0, timer},
         row'.pid \in {None, row.pid}, managed' = managed
  PROVE  Launches'
<1> DEFINE s == "shutdown"
<1>0. s \in Thread /\ "operator" \in Thread
  BY DEF Thread
<1>1. thread[s].at # "activate"
  <2>1. Fits(s, thread[s]) /\ Role(s, thread[s])
    BY <1>0 DEF SureDrain, LifecycleTypes, ThreadsFit, Roles
  <2> QED
    BY <2>1 DEF Fits, Role, Launching
<1>2. Knowing(s) /\ ~MayLaunch(s)' /\ RowKnown'
  BY <1>0, <1>1, RowStays DEF Knowing, MayLaunch, At, Before
<1>3. ~OperatorStops /\ ~OperatorStops'
  BY <1>0 DEF SureDrain, ShutdownHolds, OperatorStops, Halts, At
<1>4. LaunchesStopped' /\ OperatorStopHolds'
  BY <1>0, <1>2, <1>3, LaunchesStayStopped DEF OperatorStopHolds
<1> QED
  BY <1>0, <1>2, <1>4, CalmKeepsLaunches

LEMMA ShutdownLeaves ==
  ASSUME LifecycleTypes, "shutdown" \in Thread, thread["shutdown"].op = "shutdown",
         NEW ok \in BOOLEAN, Leave("shutdown", ok)
  PROVE  /\ thread'["shutdown"].at = "pass" /\ thread'["shutdown"].ok = ok
         /\ \A b \in Thread : b # "shutdown" => thread'[b] = thread[b]
<1>0. thread \in [Thread -> ThreadRecord] /\ thread["shutdown"] \in ThreadRecord
  BY DEF LifecycleTypes, ThreadsTyped
<1>1. thread'["shutdown"] = [thread["shutdown"] EXCEPT !.at = "pass", !.ok = ok]
  BY <1>0 DEF Leave
<1>2. \A b \in Thread : b # "shutdown" => thread'[b] = thread[b]
  BY <1>0 DEF Leave
<1> QED
  BY <1>0, <1>1, <1>2 DEF ThreadRecord

(* The stop of a process by the shutdown. *)
LEMMA ShutdownStopsKeepDrain ==
  ASSUME SureDrain, ConstantsAssumption, Step("shutdown") \/ PassEnds
  PROVE  DrainKept'
<1> DEFINE s == "shutdown"
<1>0. /\ s \in Thread /\ "operator" \in Thread /\ "monitor" \in Thread
      /\ s \notin Restarter /\ Restarter \subseteq Thread
      /\ thread[s] \in ThreadRecord /\ Fits(s, thread[s]) /\ Role(s, thread[s])
      /\ LifecycleTypes /\ ShutdownHolds /\ FinalizersKnown
      /\ \A a \in Thread : thread[a].at # "expel"
  BY ConstantsAssumption DEF Thread, SureDrain, LifecycleTypes, ThreadsTyped, ThreadsFit, Roles, Sole, NoneAdopted
<1>1. /\ thread[s].op = "shutdown"
      /\ thread[s].at \notin Launching \cup {"idle", "doctor", "queued", "ending", "expel"}
  <2>1. thread[s].at # "idle"
    <3>1. CASE Step(s)
      BY <1>0, <3>1, StepRole DEF SureDrain, RoleStep
    <3>2. CASE PassEnds
      BY <3>2 DEF PassEnds, StoppedFor, At
    <3> QED
      BY <3>1, <3>2
  <2> QED
    BY <1>0, <2>1 DEF Role, Fits
<1>2. Mark(s) \/ Kill(s) \/ StopFails(s) \/ GivesUp(s) \/ NewStopped(s) \/ PassEnds
  BY <1>1 DEF Step, Doctoring, DoctorAllows, DoctorRefuses, Preparing, EnterStart, Adopt, Negotiate, Check,
     Classify, Clear, MyTurn, At, Spawning, Spawn, SpawnFails, Enrol, Contain, Retain, Activate,
     Confirming, Ready, Unready, Own, Settle, Stopping, Expel, StopEnds, StopRecords, OldStopped, Launching
<1>3. /\ thread[s].at \in {"mark", "kill", "await"}
      /\ shutdownRequested /\ Quiet /\ (managed # None => proc[managed].stopping)
      /\ At("operator", "idle") /\ At("monitor", "idle")
      /\ ~GaveUp
  <2>1. thread[s].at \in {"mark", "kill", "await"}
    BY <1>1, <1>2 DEF Mark, Kill, StopFails, GivesUp, NewStopped, PassEnds, StoppedFor, At
  <2> QED
    BY <1>0, <2>1 DEF ShutdownHolds, Late, At, GaveUp
<1>4. /\ UNCHANGED <<managed, timer, shutdownRequested>>
      /\ ~At(s, "idle")
      /\ record' \in {record, EndedAs("stopped")}
  BY <1>2, <1>3 DEF Mark, Kill, StopFails, GivesUp, NewStopped, PassEnds, At, plans, tables
<1>5. record'.running => record.running
  BY <1>0, <1>4 DEF EndedAs, LifecycleTypes, StoreTyped, StoreRecord
<1>6. row'.pid \in {None, row.pid}
  <2>1. row' = row \/ row' = Unowned \/ row' = Transition(thread[s].wait, "stopping")
    BY <1>2 DEF Mark, Kill, StopFails, GivesUp, NewStopped, PassEnds
  <2>2. Unowned.pid = None /\ Transition(thread[s].wait, "stopping").pid = row.pid
    BY <1>0 DEF Unowned, Transition, LifecycleTypes, StoreTyped, RowRecord
  <2> QED
    BY <2>1, <2>2
(* Where it goes. *)
<1>7. /\ \A b \in Thread : b # s => thread'[b] = thread[b]
      /\ \/ thread'[s].at \in {"kill", "await"}
         \/ thread'[s].at = "pass"
  <2>1. CASE Mark(s)
    <3>1. Goes(s, "kill")
      BY <1>0, <2>1, StoppingGoes DEF Mark, At, Fits, SureDrain, Sole, NoneAdopted, Pid, None
    <3> QED
      BY <3>1 DEF Goes
  <2>2. CASE Kill(s)
    BY <1>0, <2>2, StoppingGoes DEF Becomes
  <2>3. CASE ~Mark(s) /\ ~Kill(s)
    <3>1. \E ok \in BOOLEAN : Leave(s, ok)
      BY <1>2, <2>3 DEF StopFails, GivesUp, NewStopped, PassEnds
    <3> QED
      BY <1>0, <1>1, <3>1, ShutdownLeaves
  <2> QED
    BY <2>1, <2>2, <2>3
(* What it does to the processes. *)
<1>8. /\ \A p \in Pid : proc'[p].stage = proc[p].stage /\ proc'[p].stopping = proc[p].stopping
      /\ finalizer' \in {None, finalizer}
  <2>1. CASE Kill(s)
    <3>1. thread[s].wait \in Pid /\ Killed(thread[s].wait) /\ finalizer' = finalizer
      BY <1>0, <2>1 DEF Kill, At, Fits, tables
    <3> QED
      BY <1>0, <3>1 DEF Killed, LifecycleTypes, ProcTyped, ProcRecord
  <2>2. CASE ~Kill(s)
    BY <1>2, <2>2 DEF Mark, StopFails, GivesUp, NewStopped, PassEnds, tables
  <2> QED
    BY <2>1, <2>2
<1>9. CalmTables /\ \A p \in Pid : Supervised(p)' = Supervised(p)
  BY <1>4, <1>8 DEF CalmTables, Supervised
<1>10. Launches'
  BY <1>4, <1>5, <1>6, <1>7, <1>9, ShutdownLaunchesNothing
<1>11. Quiet' /\ At("operator", "idle")' /\ At("monitor", "idle")'
  BY <1>0, <1>3, <1>7 DEF Quiet, At
<1>12. ShutdownHolds'
  <2>1. managed' # None => proc'[managed'].stopping
    <3>1. managed \in Pid \cup {None}
      BY <1>0 DEF LifecycleTypes, ProcTyped, MayPid
    <3> QED
      BY <1>3, <1>4, <1>8, <3>1
  <2> QED
    BY <1>3, <1>4, <1>7, <1>11, <2>1 DEF ShutdownHolds, Late, At
<1>13. FinalizersKnown'
  <2> SUFFICES ASSUME NEW p \in Pid, Supervised(p) PROVE finalizer' = p \/ GaveUp'
    BY <1>9 DEF FinalizersKnown
  <2>1. finalizer = p
    BY <1>0, <1>3 DEF FinalizersKnown
  <2>2. CASE finalizer' = finalizer
    BY <2>1, <2>2
  <2>3. CASE finalizer' # finalizer
    <3>1. GivesUp(s) /\ finalizer' = None
      BY <1>2, <1>8, <2>3 DEF Mark, Kill, StopFails, NewStopped, PassEnds, tables
    <3>2. thread'[s].at = "pass" /\ thread'[s].ok = FALSE
      <4>1. Leave(s, FALSE)
        BY <3>1 DEF GivesUp
      <4> QED
        BY <1>0, <1>1, <4>1, ShutdownLeaves
    <3>3. managed = None
      BY <1>3, <2>1, SupervisedUnmanaged
    <3> QED
      BY <1>3, <1>4, <1>11, <3>1, <3>2, <3>3 DEF GaveUp, At
  <2> QED
    BY <2>2, <2>3
<1> QED
  BY <1>10, <1>12, <1>13 DEF DrainKept

(* Its passes. *)
LEMMA PassesKeepDrain ==
  ASSUME SureDrain, ConstantsAssumption, MonitorStops \/ Quiesce \/ Drained
  PROVE  DrainKept'
<1> DEFINE s == "shutdown"
<1>0. /\ s \in Thread /\ "operator" \in Thread /\ "monitor" \in Thread
      /\ s \notin Restarter /\ Restarter \subseteq Thread
      /\ thread \in [Thread -> ThreadRecord] /\ thread[s] \in ThreadRecord
      /\ LifecycleTypes /\ ShutdownHolds /\ FinalizersKnown
      /\ adopted.pid = None
  BY ConstantsAssumption DEF Thread, SureDrain, LifecycleTypes, ThreadsTyped, Sole, NoneAdopted
<1>1. /\ UNCHANGED <<record, managed, finalizer, row>>
      /\ timer' \in {0, timer}
      /\ thread[s].at \in {"monitor", "pass", "drain"} /\ ~At(s, "idle")
  BY DEF MonitorStops, Quiesce, Drained, At, plans, tables
<1>2. At("operator", "idle") /\ (Tracked <=> managed # None \/ finalizer # None)
  BY <1>0, <1>1 DEF ShutdownHolds, Tracked, HasManagedProcess
<1>a. thread[s].ok \in BOOLEAN
  BY <1>0 DEF ThreadRecord
<1>3. CASE MonitorStops
  <2>1. /\ thread' = [thread EXCEPT ![s].at = "pass"] /\ thread[s].at = "monitor"
        /\ thread["monitor"].at = "idle" /\ UNCHANGED <<proc, timer, shutdownRequested>>
    BY <1>3 DEF MonitorStops, Go, At, plans
  <2>2. /\ thread'[s].at = "pass" /\ thread'[s].ok = thread[s].ok
        /\ \A b \in Thread : b # s => thread'[b] = thread[b]
    BY <1>0, <2>1 DEF ThreadRecord
  <2>3. CalmTables /\ \A p \in Pid : Supervised(p)' = Supervised(p)
    BY <1>1, <2>1, SameTables
  <2>4. Launches'
    BY <1>1, <2>2, <2>3, ShutdownLaunchesNothing
  <2>5. ShutdownHolds'
    BY <1>0, <1>2, <2>1, <2>2 DEF ShutdownHolds, Late, At
  <2>6. FinalizersKnown'
    BY <1>0, <1>1, <2>1, <2>3 DEF FinalizersKnown, GaveUp
  <2> QED
    BY <2>4, <2>5, <2>6 DEF DrainKept
<1>4. CASE Quiesce
  <2>1. /\ thread[s].at = "pass" /\ UNCHANGED <<proc, active>>
        /\ thread' = [thread EXCEPT ![s].at = "drain", ![s].was = Tracked, ![s].drain = active]
        /\ \/ shutdownRequested' = TRUE /\ timer' = 0
           \/ /\ ~Tracked /\ timer = 0 /\ active = "none"
              /\ UNCHANGED <<shutdownRequested, timer>>
    BY <1>4 DEF Quiesce, At
  <2>2. /\ thread'[s].at = "drain" /\ thread'[s].ok = thread[s].ok
        /\ thread'[s].was = Tracked /\ thread'[s].drain = active
        /\ \A b \in Thread : b # s => thread'[b] = thread[b]
    BY <1>0, <2>1 DEF ThreadRecord
  <2>3. CalmTables /\ \A p \in Pid : Supervised(p)' = Supervised(p)
    BY <1>1, <2>1, SameTables
  <2>4. Launches'
    BY <1>1, <2>2, <2>3, ShutdownLaunchesNothing
  <2>5. /\ At("operator", "idle")' /\ At("monitor", "idle")'
        /\ \A r \in Restarter : thread'[r] = thread[r]
        /\ timer' = 0
    BY <1>0, <1>2, <2>1, <2>2 DEF ShutdownHolds, Late, At
  <2>6. ~thread[s].ok => shutdownRequested'
    BY <1>0, <2>1 DEF ShutdownHolds, Late, At
  <2>7. Drain'
    <3>1. \A r \in Restarter : thread'[r].at = "idle" \/ thread'[s].drain = r
      BY <2>2, <2>5 DEF SureDrain, OneRestart, At
    <3>2. \/ shutdownRequested'
          \/ /\ ~thread'[s].was /\ timer' = 0
             /\ \A r \in Restarter : thread'[r].at = "idle"
      <4>1. active = "none" => \A r \in Restarter : thread[r].at = "idle"
        BY ConstantsAssumption DEF SureDrain, OneRestart, At
      <4> QED
        BY <2>1, <2>2, <2>5, <4>1
    <3>3. ASSUME thread'[s].ok, ~thread'[s].was, NEW p \in Pid, Supervised(p) PROVE FALSE
      <4>1. ~Tracked
        BY <2>2, <3>3
      <4>2. finalizer = None /\ p # None
        BY <1>2, <4>1 DEF Pid, None
      <4> QED
        BY <1>0, <2>2, <3>3, <4>2 DEF FinalizersKnown, GaveUp
    <3>4. thread'[s].ok /\ ~thread'[s].was =>
            timer' = 0 /\ \A p \in Pid : proc'[p].stage # "scheduling" /\ ~Supervised(p)'
      BY <2>1, <2>3, <2>5, <3>3 DEF Supervised
    <3> QED
      BY <3>1, <3>2, <3>4 DEF Drain, At
  <2>8. ShutdownHolds'
    BY <2>2, <2>5, <2>6, <2>7 DEF ShutdownHolds, Late, At
  <2>9. GaveUp => GaveUp'
    <3> SUFFICES ASSUME GaveUp PROVE GaveUp'
      OBVIOUS
    <3>1. ~Tracked /\ shutdownRequested' /\ ~thread[s].ok
      BY <1>2, <2>1 DEF GaveUp
    <3>2. Quiet'
      BY <2>5 DEF GaveUp, Quiet
    <3> QED
      BY <1>1, <2>2, <3>1, <3>2 DEF GaveUp, At
  <2>10. FinalizersKnown'
    BY <1>0, <1>1, <2>3, <2>9 DEF FinalizersKnown
  <2> QED
    BY <2>4, <2>8, <2>10 DEF DrainKept
<1>5. CASE Drained
  <2>1. /\ thread[s].at = "drain" /\ UNCHANGED <<timer, shutdownRequested>>
        /\ LET r == thread[s].drain IN r # "none" => At(r, "idle")
        /\ Drain
    BY <1>0, <1>5 DEF Drained, At, plans, ShutdownHolds
  <2>2. Quiet /\ At("monitor", "idle")
    <3>1. "none" \notin Restarter
      BY ConstantsAssumption
    <3> QED
      BY <1>0, <2>1, <3>1 DEF Drain, Quiet, At, ShutdownHolds, Late
  <2>3. CASE thread[s].was
    <3>1. Begins(s, thread[s])
      BY <1>0, <1>5, <2>3, ShuttingDownGoes
    <3>2. /\ thread'[s].at \in {"mark", "await"}
          /\ \A b \in Thread : b # s => thread'[b] = thread[b]
          /\ \A p \in Pid : /\ proc'[p].stage = proc[p].stage
                            /\ proc'[p].stopping = (proc[p].stopping \/ p = managed)
      BY <3>1 DEF Begins
    <3>3. CalmTables
      BY <1>1, <3>2 DEF CalmTables, Supervised
    <3>4. Launches'
      BY <1>1, <3>2, <3>3, ShutdownLaunchesNothing
    <3>5. shutdownRequested' /\ Quiet' /\ At("operator", "idle")' /\ At("monitor", "idle")'
      BY <1>0, <1>2, <2>1, <2>2, <2>3, <3>2 DEF Drain, Quiet, At
    <3>6. managed' # None => proc'[managed'].stopping
      BY <1>0, <1>1, <3>2 DEF LifecycleTypes, ProcTyped, MayPid
    <3>7. ShutdownHolds'
      BY <3>2, <3>5, <3>6 DEF ShutdownHolds, Late, At
    <3>8. FinalizersKnown'
      <4>1. ~GaveUp
        BY <2>1, <2>3 DEF GaveUp, At
      <4> QED
        BY <1>0, <1>1, <3>3, <4>1 DEF FinalizersKnown, CalmTables
    <3> QED
      BY <3>4, <3>7, <3>8 DEF DrainKept
  <2>4. CASE ~thread[s].was
    <3>1. PICK place \in {"pass", "done"} : /\ thread' = [thread EXCEPT ![s].at = place]
                                            /\ place = "done" <=> ~Tracked
      BY <1>5, <2>4 DEF Drained, Go
    <3>2. /\ thread'[s].at = place /\ thread'[s].ok = thread[s].ok
          /\ \A b \in Thread : b # s => thread'[b] = thread[b]
          /\ proc' = proc
      BY <1>0, <1>5, <2>4, <3>1 DEF ThreadRecord, Drained
    <3>3. CalmTables /\ \A p \in Pid : Supervised(p)' = Supervised(p)
      BY <1>1, <3>2, SameTables
    <3>4. Launches'
      BY <1>1, <3>2, <3>3, ShutdownLaunchesNothing
    <3>5. Quiet' /\ At("operator", "idle")' /\ At("monitor", "idle")'
      BY <1>0, <1>2, <2>2, <3>2 DEF Quiet, At
    <3>6. ShutdownHolds'
      <4>1. ~thread[s].ok => shutdownRequested'
        BY <1>0, <2>1 DEF ShutdownHolds, Late, At
      <4>2. thread[s].ok => timer' = 0
        BY <2>1, <2>4 DEF Drain
      <4>3. place = "done" => managed' = None /\ finalizer' = None
        BY <1>1, <1>2, <3>1
      <4> QED
        BY <3>2, <3>5, <4>1, <4>2, <4>3 DEF ShutdownHolds, Late, At
    <3>7. GaveUp => GaveUp'
      BY <1>1, <2>1, <3>2, <3>5 DEF GaveUp, At
    <3>8. FinalizersKnown'
      BY <1>0, <1>1, <3>3, <3>7 DEF FinalizersKnown
    <3> QED
      BY <3>4, <3>6, <3>8 DEF DrainKept
  <2> QED
    BY <2>3, <2>4
<1> QED
  BY <1>3, <1>4, <1>5

-----------------------------------------------------------------------------
(* The threads stay. *)
LEMMA SameThreadsKeepLaunches ==
  ASSUME SureDrain, ConstantsAssumption, thread' = thread, CalmTables,
         record'.running => record.running,
         row'.pid \in {None, row.pid}, row'.pid # None => managed' \in {managed, row'.pid} \/ row.pid # managed,
         OperatorStops => timer' \in {0, timer} /\ (record.running => record'.running)
  PROVE  Launches'
<1> DEFINE o == "operator"
<1>0. o \in Thread /\ o \notin Restarter /\ Launches
  BY ConstantsAssumption DEF Thread, SureDrain
<1>1. Knowing(o)
  BY <1>0 DEF Knowing, Launches, Waited, Halted, Halts, CalmTables, At
<1>2. LaunchesStopped'
  <2>1. MayLaunch(o)' => MayLaunch(o)
    BY DEF MayLaunch, At
  <2> QED
    BY <1>0, <2>1 DEF Launches, LaunchesStopped, MayLaunch, At
<1>3. OperatorStopHolds'
  BY <1>0 DEF Launches, OperatorStopHolds, OperatorStops, Halts, At
<1>4. RowKnown'
  BY <1>0 DEF Launches, RowKnown, At
<1> QED
  BY <1>0, <1>1, <1>2, <1>3, <1>4, CalmKeepsLaunches

(* The shutdown stays where it is while a finalizer goes on. *)
LEMMA ShutdownWaits ==
  ASSUME SureDrain, ConstantsAssumption, thread' = thread, managed' \in {None, managed},
         finalizer' \in {None, finalizer}, shutdownRequested' = shutdownRequested,
         \A p \in Pid : /\ Supervised(p)' => Supervised(p)
                        /\ proc[p].stopping => proc'[p].stopping,
         \/ /\ timer' \in {0, timer}
            /\ \A p \in Pid : proc'[p].stage = "scheduling" => proc[p].stage = "scheduling" \/ ~shutdownRequested
         \/ /\ \E p \in Pid : proc[p].stage = "scheduling" /\ Supervised(p)
            /\ \A p \in Pid : proc'[p].stage = "scheduling" => proc[p].stage = "scheduling"
  PROVE  ShutdownHolds' /\ (GaveUp => GaveUp')
<1> DEFINE s == "shutdown"
<1>0. /\ ShutdownHolds /\ FinalizersKnown /\ s \in Thread
      /\ managed \in Pid \cup {None}
  BY DEF SureDrain, Thread, LifecycleTypes, ProcTyped, MayPid
<1>1. ASSUME At(s, "drain") PROVE Drain'
  <2>1. Drain
    BY <1>0, <1>1 DEF ShutdownHolds
  <2>2. shutdownRequested \/ thread[s].ok
    BY <1>0, <1>1 DEF ShutdownHolds, Late, At
  <2>3. thread[s].ok /\ ~thread[s].was =>
          timer' = 0 /\ \A p \in Pid : /\ proc'[p].stage # "scheduling"
                                       /\ ~shutdownRequested => ~Supervised(p)'
    <3> SUFFICES ASSUME thread[s].ok, ~thread[s].was
                 PROVE  timer' = 0 /\ \A p \in Pid : /\ proc'[p].stage # "scheduling"
                                                     /\ ~shutdownRequested => ~Supervised(p)'
      OBVIOUS
    <3>1. /\ timer = 0
          /\ \A p \in Pid : proc[p].stage # "scheduling" /\ (~shutdownRequested => ~Supervised(p))
      BY <2>1 DEF Drain
    <3>2. /\ timer' = 0
          /\ \A p \in Pid : proc'[p].stage = "scheduling" => ~shutdownRequested
      BY <3>1
    <3> QED
      BY <3>1, <3>2 DEF Supervised
  <2>4. \/ shutdownRequested'
        \/ /\ ~thread'[s].was /\ timer' = 0
           /\ \A r \in Restarter : At(r, "idle")'
    BY <2>1, <2>2, <2>3 DEF Drain, At
  <2> QED
    BY <2>1, <2>3, <2>4 DEF Drain
<1>2. ASSUME At(s, "done")
      PROVE  Quiet' /\ managed' = None /\ finalizer' = None /\ (thread'[s].ok => timer' = 0)
  <2>1. Quiet /\ managed = None /\ finalizer = None /\ (thread[s].ok => timer = 0)
    BY <1>0, <1>2 DEF ShutdownHolds
  <2>2. thread[s].ok => \A p \in Pid : ~Supervised(p)
    BY <1>0, <2>1 DEF FinalizersKnown, GaveUp, Pid, None
  <2> QED
    BY <2>1, <2>2 DEF Quiet, At
<1>3. Quiet' <=> Quiet
  BY DEF Quiet
<1>4. managed' # None => managed' = managed /\ managed \in Pid
  BY <1>0
<1>5. ShutdownHolds'
  BY <1>0, <1>1, <1>2, <1>3, <1>4 DEF ShutdownHolds, Late, At
<1>6. GaveUp => GaveUp'
  BY <1>3 DEF GaveUp, At
<1> QED
  BY <1>5, <1>6

(* The finalizer of p goes on. *)
LEMMA ProcessKeepsDrain ==
  ASSUME SureDrain, ConstantsAssumption, NEW p \in Pid, Exits(p) \/ Finalizing(p)
  PROVE  DrainKept'
<1>0. /\ LifecycleTypes /\ proc \in [Pid -> ProcRecord] /\ proc[p] \in ProcRecord
      /\ record.running \in BOOLEAN /\ row \in RowRecord
      /\ Launches /\ FinalizersKnown /\ "operator" \in Thread
      /\ p # None
  BY DEF SureDrain, LifecycleTypes, ProcTyped, StoreTyped, StoreRecord, Thread, Pid, None
<1>1. /\ thread' = thread /\ shutdownRequested' = shutdownRequested
      /\ \A q \in Pid : q # p => proc'[q] = proc[q]
      /\ proc'[p].stopping = proc[p].stopping
  <2>1. thread' = thread /\ shutdownRequested' = shutdownRequested
    BY DEF Exits, Finalizing, Remove, PersistExit, Supervise, Schedule, plans
  <2>2. \/ \E how \in {"crashed", "exited"} : proc' = [proc EXCEPT ![p].exit = how]
        \/ \E stage \in {"done", "removed", "persisted"} : proc' = [proc EXCEPT ![p].stage = stage]
        \/ \E n \in Nat : proc' = [proc EXCEPT ![p].stage = "scheduling", ![p].attempt = n]
    <3>1. record.attempts + 1 \in Nat
      BY <1>0 DEF LifecycleTypes, StoreTyped, StoreRecord
    <3> QED
      BY <3>1 DEF Exits, Finalizing, Remove, PersistExit, Supervise, Schedule
  <2>3. /\ \A q \in Pid : q # p => proc'[q] = proc[q]
        /\ proc'[p].stopping = proc[p].stopping
    BY <1>0, <2>2 DEF ProcRecord
  <2> QED
    BY <2>1, <2>3
<1>2. ASSUME NEW stage \in {"done", "removed", "persisted"}, proc' = [proc EXCEPT ![p].stage = stage]
      PROVE  proc'[p].stage = stage
  BY <1>0, <1>2 DEF ProcRecord
<1>3. ASSUME Supervised(p) PROVE ~OperatorStops
  BY <1>0, <1>3 DEF Launches, Halted, OperatorStops
<1>4. ASSUME CalmTables, GaveUp => GaveUp', finalizer' = finalizer \/ (finalizer = p /\ ~Supervised(p)')
      PROVE  FinalizersKnown'
  BY <1>0, <1>4 DEF FinalizersKnown, CalmTables
<1>5. CASE Exits(p)
  <2>1. /\ UNCHANGED <<managed, finalizer, record, timer, row>>
        /\ \E how \in {"crashed", "exited"} : proc' = [proc EXCEPT ![p].exit = how]
    BY <1>5 DEF Exits, plans, tables
  <2>2. \A q \in Pid : proc'[q].stopping = proc[q].stopping /\ proc'[q].stage = proc[q].stage
    BY <1>0, <2>1 DEF ProcRecord
  <2>3. CalmTables
    BY <2>1, <2>2, SameTables
  <2>4. Launches'
    BY <1>1, <2>1, <2>3, SameThreadsKeepLaunches
  <2>5. ShutdownHolds' /\ (GaveUp => GaveUp')
    BY <1>1, <2>1, <2>2, <2>3, ShutdownWaits DEF CalmTables
  <2>6. FinalizersKnown'
    BY <1>4, <2>1, <2>3, <2>5
  <2> QED
    BY <2>4, <2>5, <2>6 DEF DrainKept
<1>6. CASE Remove(p)
  <2>1. /\ proc[p].stage = "tracked" /\ managed = p /\ managed' = None
        /\ UNCHANGED <<record, timer>> /\ row' = Transition(p, "stopped")
    BY <1>0, <1>6 DEF Remove, plans, Launches, TrackedManaged
  <2>2. /\ proc'[p].stage = IF proc[p].stopping THEN "done" ELSE "removed"
        /\ finalizer' = IF proc[p].stopping /\ finalizer = p THEN None ELSE finalizer
    <3>1. CASE proc[p].stopping
      BY <1>2, <1>6, <3>1 DEF Remove, Done
    <3>2. CASE ~proc[p].stopping
      BY <1>2, <1>6, <3>2 DEF Remove
    <3> QED
      BY <3>1, <3>2
  <2>3. CalmTables
    <3>1. \A q \in Pid : proc'[q].stage # "tracked"
      BY <1>0, <1>1, <2>1, <2>2 DEF Launches, TrackedManaged
    <3>2. \A q \in Pid : Supervised(q)' => Supervised(q)
      BY <1>1, <2>1, <2>2 DEF Supervised
    <3> QED
      BY <2>1, <2>2, <3>1, <3>2 DEF CalmTables
  <2>4. row'.pid = IF row.pid = p THEN None ELSE row.pid
    BY <1>0, <2>1 DEF Transition
  <2>5. Launches'
    BY <1>1, <2>1, <2>3, <2>4, SameThreadsKeepLaunches
  <2>6. ShutdownHolds' /\ (GaveUp => GaveUp')
    <3>1. \A q \in Pid : proc'[q].stage = "scheduling" => proc[q].stage = "scheduling"
      BY <1>1, <2>2
    <3> QED
      BY <1>1, <2>1, <2>3, <3>1, ShutdownWaits DEF CalmTables
  <2>7. FinalizersKnown'
    BY <1>4, <2>2, <2>3, <2>6 DEF Supervised
  <2> QED
    BY <2>5, <2>6, <2>7 DEF DrainKept
<1>7. CASE PersistExit(p)
  <2>1. /\ proc[p].stage = "removed" /\ UNCHANGED <<managed, finalizer, timer, row>>
        /\ record' = EndedAs(Termination(p))
        /\ proc' = [proc EXCEPT ![p].stage = "persisted"]
    BY <1>7 DEF PersistExit, tables, plans
  <2>2. proc'[p].stage = "persisted" /\ ~record'.running /\ Supervised(p)
    BY <1>0, <1>2, <2>1 DEF EndedAs, LifecycleTypes, StoreTyped, StoreRecord, Supervised
  <2>3. CalmTables
    BY <1>1, <2>1, <2>2 DEF CalmTables, Supervised
  <2>4. Launches'
    BY <1>1, <1>3, <2>1, <2>2, <2>3, SameThreadsKeepLaunches
  <2>5. ShutdownHolds' /\ (GaveUp => GaveUp')
    <3>1. \A q \in Pid : proc'[q].stage = "scheduling" => proc[q].stage = "scheduling"
      BY <1>1, <2>2
    <3> QED
      BY <1>1, <2>1, <2>3, <3>1, ShutdownWaits DEF CalmTables
  <2>6. FinalizersKnown'
    BY <1>4, <2>1, <2>3, <2>5
  <2> QED
    BY <2>4, <2>5, <2>6 DEF DrainKept
<1>8. CASE Supervise(p)
  <2>1. /\ proc[p].stage = "persisted" /\ Supervised(p) /\ UNCHANGED <<managed, row>>
        /\ record'.running = record.running
    BY <1>0, <1>8 DEF Supervise, Supervised, LifecycleTypes, StoreTyped, StoreRecord
  <2>2. \/ /\ proc'[p].stage = "done" /\ timer' = timer
           /\ finalizer' = IF finalizer = p THEN None ELSE finalizer
        \/ /\ proc'[p].stage = "scheduling" /\ timer' = 0 /\ finalizer' = finalizer
           /\ ~shutdownRequested
    <3>1. CASE Blocks(p)
      BY <1>2, <1>8, <3>1 DEF Supervise, Done
    <3>2. CASE ~Blocks(p)
      <4>1. /\ timer' = 0 /\ finalizer' = finalizer /\ ~shutdownRequested
            /\ proc' = [proc EXCEPT ![p].stage = "scheduling", ![p].attempt = record.attempts + 1]
        BY <1>8, <3>2 DEF Supervise, Blocks
      <4>2. proc'[p].stage = "scheduling"
        BY <1>0, <4>1 DEF ProcRecord
      <4> QED
        BY <4>1, <4>2
    <3> QED
      BY <3>1, <3>2
  <2>3. CalmTables
    BY <1>1, <2>1, <2>2 DEF CalmTables, Supervised
  <2>4. Launches'
    BY <1>1, <1>3, <2>1, <2>3, SameThreadsKeepLaunches
  <2>5. ShutdownHolds' /\ (GaveUp => GaveUp')
    <3>1. \A q \in Pid : proc'[q].stage = "scheduling" => proc[q].stage = "scheduling" \/ ~shutdownRequested
      BY <1>1, <2>2
    <3> QED
      BY <1>1, <2>1, <2>2, <2>3, <3>1, ShutdownWaits DEF CalmTables
  <2>6. FinalizersKnown'
    BY <1>4, <2>2, <2>3, <2>5 DEF Supervised
  <2> QED
    BY <2>4, <2>5, <2>6 DEF DrainKept
<1>9. CASE Schedule(p)
  <2>1. /\ proc[p].stage = "scheduling" /\ Supervised(p) /\ UNCHANGED <<managed, row, record>>
        /\ proc'[p].stage = "done"
        /\ finalizer' = IF finalizer = p THEN None ELSE finalizer
    BY <1>2, <1>9 DEF Schedule, Done, Supervised
  <2>2. CalmTables
    BY <1>1, <2>1 DEF CalmTables, Supervised
  <2>3. Launches'
    BY <1>1, <1>3, <2>1, <2>2, SameThreadsKeepLaunches
  <2>4. ShutdownHolds' /\ (GaveUp => GaveUp')
    <3>1. \A q \in Pid : proc'[q].stage = "scheduling" => proc[q].stage = "scheduling"
      BY <1>1, <2>1
    <3> QED
      BY <1>1, <2>1, <2>2, <3>1, ShutdownWaits DEF CalmTables
  <2>5. FinalizersKnown'
    BY <1>4, <2>1, <2>2, <2>4 DEF Supervised
  <2> QED
    BY <2>3, <2>4, <2>5 DEF DrainKept
<1> QED
  BY <1>5, <1>6, <1>7, <1>8, <1>9 DEF Finalizing

-----------------------------------------------------------------------------
(* A thread takes up work. *)
LEMMA TakingUpKeepsLaunches ==
  ASSUME SureDrain, ConstantsAssumption, NEW a \in Thread, NEW r \in ThreadRecord, Becomes(a, r),
         UNCHANGED <<proc, managed, finalizer, record, row>>, timer' \in {0, timer},
         thread[a].at \in {"idle", "inspect", "blocked"},
         r.at \in {"idle", "queued", "install", "doctor", "blocked", "inspect", "monitor"},
         r.at = "doctor" => r.op = "supervise" \/ (r.op = "restart" /\ r.was = record.running),
         OperatorStops /\ a \in Restarter => r.at \in {"idle", "blocked"} \/ timer # 0
  PROVE  Launches' /\ CalmTables
<1>1. thread'[a] = r /\ \A b \in Thread : b # a => thread'[b] = thread[b]
  BY DEF Becomes
<1>2. CalmTables
  BY SameTables
<1>3. Knowing(a) /\ (MayLaunch(a)' => ~record.running) /\ ~Halts(a)'
  BY <1>1 DEF Knowing, MayLaunch, Halts, At, Before
<1>4. LaunchesStopped' /\ RowKnown'
  BY <1>1, <1>3, LaunchesStayStopped, RowStays
<1>5. OperatorStops => timer = 0
  BY DEF SureDrain, Launches, OperatorStopHolds
<1>6. OperatorStops' => OperatorStops
  BY <1>1, <1>3 DEF OperatorStops, Halts, At, Thread
<1>7. Undisturbing(a)
  BY <1>1, <1>5, <1>6 DEF Undisturbing, Before
<1>8. OperatorStopHolds'
  BY <1>1, <1>7, OperatorStopStays
<1> QED
  BY <1>2, <1>3, <1>4, <1>8, CalmKeepsLaunches

(* Without a shutdown there is nothing to say of it. *)
LEMMA NoShutdown ==
  ASSUME SureDrain, At("shutdown", "idle"), At("shutdown", "idle")', CalmTables, finalizer' = finalizer
  PROVE  ShutdownHolds' /\ FinalizersKnown'
<1>1. ShutdownHolds'
  BY DEF ShutdownHolds, Late, At
<1>2. ~GaveUp
  BY DEF GaveUp, At
<1> QED
  BY <1>1, <1>2 DEF SureDrain, FinalizersKnown, CalmTables

LEMMA StopCallKeepsDrain ==
  ASSUME SureDrain, ConstantsAssumption, At("shutdown", "idle"), CallStop
  PROVE  DrainKept'
<1> DEFINE o == "operator"
<1>0. /\ o \in Thread /\ "shutdown" \in Thread /\ o \notin Restarter /\ thread[o].at = "idle"
      /\ UNCHANGED <<managed, finalizer, record, row, shutdownRequested>> /\ timer' = 0
      /\ LifecycleTypes /\ thread \in [Thread -> ThreadRecord]
  BY ConstantsAssumption DEF Thread, CallStop, Calls, At, SureDrain, LifecycleTypes, ThreadsTyped
<1>1. CASE ~record.running
  <2>1. thread' = thread /\ proc' = proc
    BY <1>1 DEF CallStop
  <2>2. CalmTables
    BY <1>0, <2>1, SameTables
  <2>3. Launches'
    BY <1>0, <2>1, <2>2, SameThreadsKeepLaunches
  <2>4. ShutdownHolds' /\ FinalizersKnown'
    BY <1>0, <2>1, <2>2, NoShutdown DEF At
  <2> QED
    BY <2>3, <2>4 DEF DrainKept
<1>2. CASE record.running
  <2>1. BeginStop(o, [Idle EXCEPT !.op = "stop"])
    BY <1>2 DEF CallStop
  <2>2. [Idle EXCEPT !.op = "stop"] \in ThreadRecord /\ [Idle EXCEPT !.op = "stop"].op = "stop"
    <3>1. Idle \in ThreadRecord
      BY ConstantsAssumption DEF Idle, ThreadRecord, Ops, Place, MayPid
    <3> QED
      BY <3>1 DEF ThreadRecord, Ops, Idle
  <2>3. PICK from \in ThreadRecord : BeginStop(o, from) /\ from.op = "stop"
    BY <2>1, <2>2
  <2>4. Begins(o, from)
    BY <1>0, <2>3, BeginStopBegins DEF LifecycleTypes
  <2>5. ~GaveUp
    BY DEF GaveUp, At
  <2>6. /\ \A p \in Pid : Supervised(p)' => Supervised(p)
        /\ Halts(o)' => \A p \in Pid : ~Supervised(p)'
    BY <1>0, <2>3, <2>4, <2>5, BeginHalts
  <2>7. /\ \A b \in Thread : b # o => thread'[b] = thread[b]
        /\ \A p \in Pid : proc'[p].stage = proc[p].stage
        /\ thread'[o].at \in {"mark", "await"}
    BY <2>4 DEF Begins
  <2>8. CalmTables
    BY <1>0, <2>6, <2>7 DEF CalmTables
  <2>9. Knowing(o) /\ ~MayLaunch(o)'
    BY <2>6, <2>7 DEF Knowing, MayLaunch, At, Before
  <2>10. LaunchesStopped' /\ RowKnown'
    BY <1>0, <2>7, <2>9, LaunchesStayStopped, RowStays
  <2>11. OperatorStopHolds'
    <3>1. \A b \in Thread : thread[b].at \notin Before
      BY <1>2 DEF SureDrain, Launches, LaunchesStopped, MayLaunch
    <3>2. \A b \in Thread : thread'[b].at \notin Before
      BY <2>7, <3>1 DEF Before
    <3> QED
      BY <1>0, <1>2, <3>2 DEF OperatorStopHolds
  <2>12. Launches'
    BY <1>0, <2>8, <2>9, <2>10, <2>11, CalmKeepsLaunches
  <2>13. ShutdownHolds' /\ FinalizersKnown'
    BY <1>0, <2>7, <2>8, NoShutdown DEF At
  <2> QED
    BY <2>12, <2>13 DEF DrainKept
<1> QED
  BY <1>1, <1>2

LEMMA RestartCallKeepsDrain ==
  ASSUME SureDrain, ConstantsAssumption, NEW a \in {"operator", "monitor"}, RestartBegins(a),
         thread[a].at = "inspect" \/ (thread[a].at = "idle" /\ At("shutdown", "idle"))
  PROVE  DrainKept'
<1> DEFINE r == [Idle EXCEPT !.op = "restart", !.at = "doctor", !.was = record.running]
<1>0. /\ a \in Thread /\ "shutdown" \in Thread /\ a # "shutdown" /\ a \notin Restarter
      /\ LifecycleTypes /\ thread \in [Thread -> ThreadRecord]
  BY ConstantsAssumption DEF Thread, SureDrain, LifecycleTypes, ThreadsTyped
<1>1. /\ UNCHANGED <<proc, managed, finalizer, record, row>> /\ timer' = 0
      /\ thread' = [thread EXCEPT ![a] = r]
  BY DEF RestartBegins, tables
<1>2. PICK x \in ThreadRecord : Becomes(a, x) /\ x.op = "restart" /\ x.at = "doctor"
  BY <1>0, CallingGoes
<1>3. x = r
  BY <1>0, <1>1, <1>2 DEF Becomes
<1>4. x.was = record.running
  BY <1>3 DEF Idle
<1> HIDE DEF r
<1>5. Launches' /\ CalmTables
  BY <1>0, <1>1, <1>2, <1>4, TakingUpKeepsLaunches
<1>6. CASE thread[a].at = "inspect"
  <2>1. ShutdownHolds' /\ ~GaveUp
    BY <1>0, <1>1, <1>2, <1>6, ShutdownStands DEF Becomes
  <2>2. FinalizersKnown'
    BY <1>1, <1>5, <2>1 DEF SureDrain, FinalizersKnown, CalmTables
  <2> QED
    BY <1>5, <2>1, <2>2 DEF DrainKept
<1>7. CASE At("shutdown", "idle")
  <2>1. At("shutdown", "idle")'
    BY <1>0, <1>2, <1>7 DEF Becomes, At
  <2> QED
    BY <1>1, <1>5, <1>7, <2>1, NoShutdown DEF DrainKept
<1> QED
  BY <1>6, <1>7

LEMMA CallsKeepDrain ==
  ASSUME SureDrain, ConstantsAssumption, ~contested', Calling \/ Install \/ MonitorLooks \/ Monitoring
  PROVE  DrainKept'
<1>0. /\ {"operator", "monitor", "shutdown"} \subseteq Thread
      /\ {"operator", "monitor", "shutdown"} \cap Restarter = {}
      /\ LifecycleTypes /\ thread \in [Thread -> ThreadRecord]
      /\ record \in StoreRecord
  BY ConstantsAssumption DEF Thread, SureDrain, LifecycleTypes, ThreadsTyped, StoreTyped
<1>a. ASSUME NEW op, Calls(op) PROVE At("shutdown", "idle") /\ thread["operator"].at = "idle"
  BY <1>a DEF Calls, At
<1>b. ASSUME NEW a \in {"operator", "monitor"}, NEW r \in ThreadRecord, Becomes(a, r),
             UNCHANGED <<proc, managed, finalizer, record, row>>, timer' \in {0, timer},
             thread[a].at = "idle", At("shutdown", "idle"),
             r.at \in {"queued", "install", "inspect"}
      PROVE  DrainKept'
  <2>1. Launches' /\ CalmTables
    BY <1>0, <1>b, TakingUpKeepsLaunches
  <2>2. At("shutdown", "idle")'
    BY <1>0, <1>b DEF Becomes, At
  <2> QED
    BY <1>b, <2>1, <2>2, NoShutdown DEF DrainKept
<1>1. CASE CallStart \/ CallInstall
  <2>1. PICK r \in ThreadRecord : /\ Becomes("operator", r)
                                  /\ r.at \in {"queued", "install"}
    BY <1>0, <1>1, CallingGoes
  <2>2. /\ thread["operator"].at = "idle" /\ At("shutdown", "idle")
        /\ UNCHANGED <<proc, managed, finalizer, record, row, timer>>
    BY <1>1, <1>a DEF CallStart, CallInstall, plans, tables
  <2> QED
    BY <1>b, <2>1, <2>2
<1>2. CASE CallStop
  <2>1. At("shutdown", "idle")
    BY <1>2, <1>a DEF CallStop
  <2> QED
    BY <1>2, <2>1, StopCallKeepsDrain
<1>3. CASE CallRestart
  <2>1. RestartBegins("operator") /\ thread["operator"].at = "idle" /\ At("shutdown", "idle")
    BY <1>3, <1>a DEF CallRestart
  <2> QED
    BY <2>1, RestartCallKeepsDrain
<1>4. CASE MonitorRestarts
  <2>1. RestartBegins("monitor") /\ thread["monitor"].at = "inspect"
    BY <1>4 DEF MonitorRestarts, At
  <2> QED
    BY <2>1, RestartCallKeepsDrain
<1>5. CASE Install
  <2>1. /\ thread["operator"].at = "install" /\ Leaves("operator") /\ Leave("operator", TRUE)
        /\ UNCHANGED <<proc, managed, finalizer, timer, shutdownRequested, row>>
    BY <1>0, <1>5, CallingGoes DEF Install, At, plans, tables
  <2>2. CASE record.running /\ HasManagedProcess
    <3>1. UNCHANGED record
      BY <1>5, <2>2 DEF Install
    <3>2. RowKnown'
      BY <1>0, <2>1, RowStays DEF Leaves
    <3> QED
      BY <1>0, <2>1, <3>1, <3>2, SameTables, LeavingKeepsDrain
  <2>3. CASE ~(record.running /\ HasManagedProcess)
    <3>1. ~record'.running
      BY <1>0, <1>5, <2>3 DEF Install, StoreRecord
    <3>2. ~OperatorStops
      BY <2>1 DEF OperatorStops, Halts, At
    <3> QED
      BY <1>0, <2>1, <3>1, <3>2, StoppedKeepsDrain DEF Leaves
  <2> QED
    BY <2>2, <2>3
<1>6. CASE MonitorLooks
  <2>1. /\ thread["monitor"].at = "idle" /\ Goes("monitor", "inspect") /\ At("shutdown", "idle")
        /\ UNCHANGED <<proc, managed, finalizer, record, row, timer>>
    BY <1>0, <1>6, CallingGoes DEF MonitorLooks, At, plans, tables
  <2>2. Becomes("monitor", thread'["monitor"]) /\ thread'["monitor"] \in ThreadRecord
    BY <1>0, <2>1 DEF Goes, Becomes, ThreadsTyped
  <2> QED
    BY <1>b, <2>1, <2>2 DEF Goes
<1>7. CASE MonitorPasses
  <2>1. /\ thread["monitor"].at = "inspect" /\ Leaves("monitor")
        /\ UNCHANGED <<proc, managed, finalizer, record, timer, shutdownRequested, row>>
    BY <1>0, <1>7, CallingGoes DEF MonitorPasses, At, plans, tables
  <2>2. RowKnown'
    BY <1>0, <2>1, RowStays DEF Leaves
  <2> QED
    BY <1>0, <2>1, <2>2, SameTables, LeavingKeepsDrain
<1> QED
  BY <1>1, <1>2, <1>3, <1>4, <1>5, <1>6, <1>7 DEF Calling, Monitoring

LEMMA RestKeepsDrain ==
  ASSUME SureDrain, ConstantsAssumption, ~contested',
         \/ AdoptedExits
         \/ \E r \in Restarter : Supervising(r)
         \/ ShutDown
  PROVE  DrainKept'
<1>0. /\ {"operator", "monitor", "shutdown"} \subseteq Thread /\ Restarter \subseteq Thread
      /\ {"operator", "monitor", "shutdown"} \cap Restarter = {}
      /\ LifecycleTypes /\ thread \in [Thread -> ThreadRecord]
      /\ record \in StoreRecord /\ shutdownRequested \in BOOLEAN
      /\ Idle \in ThreadRecord /\ Idle.at = "idle"
      /\ ShutdownHolds /\ FinalizersKnown
  BY ConstantsAssumption DEF Thread, SureDrain, LifecycleTypes, ThreadsTyped, StoreTyped,
     Idle, ThreadRecord, Ops, Place, MayPid
<1>1. CASE AdoptedExits
  BY <1>1 DEF AdoptedExits, SureDrain, Sole, NoneAdopted
<1>2. ASSUME NEW r \in Restarter, NEW x \in ThreadRecord, Becomes(r, x),
             thread[r].at = "blocked" \/ (thread[r].at = "idle" /\ timer # 0),
             x.at \in {"idle", "blocked", "doctor"},
             x.at = "doctor" => ~shutdownRequested /\ timer # 0,
             x.at = "doctor" => x.op = "supervise",
             UNCHANGED <<proc, managed, finalizer, record, row, shutdownRequested>>,
             timer' \in {0, timer}
      PROVE  DrainKept'
  <2>1. Launches' /\ CalmTables
    BY <1>0, <1>2, TakingUpKeepsLaunches
  <2>2. /\ thread'[r].at \in {"idle", "blocked"} \/ (~shutdownRequested /\ timer # 0)
        /\ \A b \in Thread : b # r => thread'[b] = thread[b]
    BY <1>2 DEF Becomes
  <2>3. thread'["operator"] = thread["operator"] /\ thread'["monitor"] = thread["monitor"]
        /\ thread'["shutdown"] = thread["shutdown"]
    BY <1>0, <2>2
  <2>4. Quiet => Quiet' \/ (~shutdownRequested /\ timer # 0)
    BY <1>0, <2>2 DEF Quiet
  <2>5. ASSUME At("shutdown", "drain") PROVE Drain'
    <3>1. Drain
      BY <1>0, <2>5 DEF ShutdownHolds
    <3>2. CASE shutdownRequested
      <4>1. thread'[r].at \in {"idle", "blocked"}
        BY <2>2, <3>2
      <4>2. \A q \in Restarter : thread'[q].at \in {"idle", "blocked"} \/ thread'["shutdown"].drain = q
        BY <1>0, <2>2, <2>3, <3>1, <4>1 DEF Drain
      <4>3. thread'["shutdown"].ok /\ ~thread'["shutdown"].was =>
              timer' = 0 /\ \A p \in Pid : proc'[p].stage # "scheduling"
        BY <1>2, <2>3, <3>1 DEF Drain
      <4> QED
        BY <1>2, <3>2, <4>2, <4>3 DEF Drain
    <3>3. CASE ~shutdownRequested
      <4>1. timer = 0 /\ thread[r].at = "idle"
        BY <3>1, <3>3 DEF Drain, At
      <4> QED
        BY <1>2, <4>1
    <3> QED
      BY <3>2, <3>3
  <2>6. ShutdownHolds'
    <3>1. thread["shutdown"].at \in {"mark", "kill", "await"} => Quiet'
      BY <1>0, <2>4 DEF ShutdownHolds
    <3>2. At("shutdown", "done") => Quiet'
      BY <1>0, <2>4 DEF ShutdownHolds, Late, At
    <3> QED
      BY <1>0, <1>2, <2>3, <2>5, <3>1, <3>2 DEF ShutdownHolds, Late, At
  <2>7. GaveUp => GaveUp'
    BY <1>2, <2>3, <2>4 DEF GaveUp, At
  <2>8. FinalizersKnown'
    BY <1>0, <1>2, <2>1, <2>7 DEF FinalizersKnown, CalmTables
  <2> QED
    BY <2>1, <2>6, <2>8 DEF DrainKept
<1>6. CASE ShutDown
  <2>1. /\ thread["shutdown"].at = "idle" /\ At("operator", "idle")
        /\ UNCHANGED <<proc, managed, finalizer, record, row, timer, shutdownRequested>>
        /\ thread' = [thread EXCEPT !["shutdown"] = [Idle EXCEPT !.op = "shutdown", !.at = "monitor", !.ok = TRUE]]
    BY <1>6 DEF ShutDown, At, plans, tables
  <2>2. PICK x \in ThreadRecord : Becomes("shutdown", x) /\ x.op = "shutdown" /\ x.at = "monitor"
    BY <1>0, <1>6, ShuttingDownGoes
  <2>3. Launches' /\ CalmTables
    BY <1>0, <2>1, <2>2, TakingUpKeepsLaunches
  <2>4. thread'["shutdown"].at = "monitor" /\ thread'["shutdown"].ok = TRUE
    BY <1>0, <2>1 DEF Idle
  <2>5. At("operator", "idle")'
    BY <1>0, <2>1, <2>2 DEF Becomes, At
  <2>6. ShutdownHolds'
    BY <2>4, <2>5 DEF ShutdownHolds, Late, At
  <2>7. ~GaveUp
    BY <2>1 DEF GaveUp, At
  <2>8. FinalizersKnown'
    BY <1>0, <2>1, <2>3, <2>7 DEF FinalizersKnown, CalmTables
  <2> QED
    BY <2>3, <2>6, <2>8 DEF DrainKept
<1>3. ASSUME NEW r \in Restarter, TimerFires(r) PROVE DrainKept'
  <2>1. PICK x \in ThreadRecord : Becomes(r, x) /\ x.op = "supervise" /\ x.at \in {"blocked", "doctor"}
    BY <1>0, <1>3, SupervisingGoes
  <2>2. /\ timer # 0 /\ thread[r].at = "idle" /\ timer' = 0
        /\ UNCHANGED <<proc, managed, finalizer, record, row, shutdownRequested>>
    BY <1>3 DEF TimerFires, At, tables
  <2>3. x.at = "doctor" => ~shutdownRequested
    <3> DEFINE y == [Idle EXCEPT !.op = "supervise", !.attempt = timer,
                                 !.at = IF shutdownRequested \/ record.running THEN "blocked" ELSE "doctor"]
    <3>1. thread' = [thread EXCEPT ![r] = y]
      BY <1>3 DEF TimerFires
    <3>2. y.at = IF shutdownRequested \/ record.running THEN "blocked" ELSE "doctor"
      BY <1>0 DEF ThreadRecord
    <3> HIDE DEF y
    <3>3. thread'[r] = y /\ thread'[r] = x
      BY <1>0, <2>1, <3>1 DEF Becomes
    <3> QED
      BY <3>2, <3>3
  <2> QED
    BY <1>2, <2>1, <2>2, <2>3
<1>4. ASSUME NEW r \in Restarter, Blocked(r) PROVE DrainKept'
  <2>1. Becomes(r, Idle)
    BY <1>0, <1>4, SupervisingGoes
  <2>2. /\ thread[r].at = "blocked"
        /\ UNCHANGED <<proc, managed, finalizer, record, row, shutdownRequested, timer>>
    BY <1>4 DEF Blocked, At, tables
  <2> QED
    BY <1>0, <1>2, <2>1, <2>2
<1>5. ASSUME NEW r \in Restarter, Decide(r) PROVE DrainKept'
  <2>1. Becomes(r, Idle)
    BY <1>0, <1>5, SupervisingGoes
  <2>2. /\ thread[r].at = "decide"
        /\ UNCHANGED <<proc, managed, finalizer, row, shutdownRequested, timer>>
    BY <1>5 DEF Decide, At, tables
  <2>3. record'.running = record.running
    BY <1>0, <1>5 DEF Decide, StoreRecord
  <2>4. r \in Thread /\ r # "shutdown" /\ thread'[r].at = "idle" /\ \A b \in Thread : b # r => thread'[b] = thread[b]
    BY <1>0, <2>1 DEF Becomes
  <2>5. CalmTables
    BY <2>2, SameTables
  <2>6. Knowing(r) /\ ~MayLaunch(r)' /\ ~Halts(r)'
    BY <2>4 DEF Knowing, MayLaunch, Halts, At, Before
  <2>7. LaunchesStopped' /\ RowKnown'
    BY <2>2, <2>3, <2>4, <2>6, LaunchesStayStopped, RowStays
  <2>8. OperatorStopHolds'
    <3>1. r # "operator" /\ "operator" \in Thread
      BY <1>0
    <3>2. OperatorStops' => OperatorStops
      BY <2>4, <3>1 DEF OperatorStops, Halts, At
    <3>3. Undisturbing(r)
      BY <2>3, <2>4, <3>2 DEF Undisturbing, Before
    <3> QED
      BY <2>2, <2>4, <3>3, OperatorStopStays
  <2>9. Launches'
    BY <2>4, <2>5, <2>6, <2>7, <2>8, CalmKeepsLaunches
  <2>10. ShutdownHolds' /\ ~GaveUp
    BY <2>2, <2>4, ShutdownStands
  <2>11. FinalizersKnown'
    BY <2>2, <2>5, <2>10 DEF SureDrain, FinalizersKnown, CalmTables
  <2> QED
    BY <2>9, <2>10, <2>11 DEF DrainKept
<1> QED
  BY <1>1, <1>3, <1>4, <1>5, <1>6 DEF Supervising

-----------------------------------------------------------------------------
LEMMA StillKeepsDrain ==
  ASSUME SureDrain, ConstantsAssumption, UNCHANGED vars
  PROVE  OneRestart' /\ DrainKept'
<1>1. /\ UNCHANGED <<proc, managed, finalizer, record, row, timer, active, shutdownRequested>>
      /\ thread' = thread
  BY DEF vars, tables, plans
<1>2. CalmTables
  BY <1>1, SameTables
<1>3. Launches'
  BY <1>1, <1>2, SameThreadsKeepLaunches
<1>4. OneRestart'
  BY <1>1 DEF SureDrain, OneRestart, At
<1>5. ShutdownHolds'
  <2>1. Drain => Drain'
    BY <1>1 DEF Drain, At, Supervised
  <2> QED
    BY <1>1, <2>1 DEF SureDrain, ShutdownHolds, Late, At, Quiet
<1>6. FinalizersKnown'
  BY <1>1 DEF SureDrain, FinalizersKnown, Supervised, GaveUp, Quiet, At
<1> QED
  BY <1>3, <1>4, <1>5, <1>6 DEF DrainKept

LEMMA DrainStays ==
  ASSUME DrainInv, [Next]_vars, ConstantsAssumption
  PROVE  DrainInv'
<1>1. SoleInv /\ SoleInv' /\ LifecycleTypes /\ LifecycleTypes'
  BY SoleStays DEF DrainInv, SoleInv
<1>2. Roles /\ Roles'
  BY <1>1, RolesStay DEF DrainInv
<1>3. contested' \in BOOLEAN /\ (contested => contested')
  BY ContestedGrows DEF DrainInv
<1>4. ASSUME Undisturbed' PROVE OneRestart' /\ DrainKept'
  <2>1. Undisturbed
    BY <1>1, <1>2, <1>3, <1>4, OverlappedStays, HistoryGrows DEF Undisturbed
  <2>2. SureDrain /\ Sole' /\ ~contested' /\ ~overtaken'
    BY <1>1, <1>2, <1>4, <2>1 DEF DrainInv, SoleInv, SureDrain, Undisturbed
  <2>3. CASE Next
    <3>1. OneRestart'
      BY <1>1, <1>2, <2>2, <2>3, OneRestartStays DEF SureDrain
    <3>2. ASSUME NEW a \in Thread, Step(a) PROVE DrainKept'
      BY <1>1, <2>2, <3>2, PreparingKeepsDrain, LaunchingKeepsDrain, StoppingKeepsDrain,
         ShutdownStopsKeepDrain DEF Step
    <3>3. ASSUME NEW p \in Pid, Exits(p) \/ Finalizing(p) PROVE DrainKept'
      BY <2>2, <3>3, ProcessKeepsDrain
    <3>4. ASSUME Calling \/ Install \/ MonitorLooks \/ Monitoring PROVE DrainKept'
      BY <2>2, <3>4, CallsKeepDrain
    <3>5. ASSUME \/ AdoptedExits
                 \/ \E r \in Restarter : Supervising(r)
                 \/ ShutDown
          PROVE  DrainKept'
      BY <2>2, <3>5, RestKeepsDrain
    <3>6. ASSUME ShuttingDown PROVE DrainKept'
      BY <2>2, <3>6, PassesKeepDrain, ShutdownStopsKeepDrain DEF ShuttingDown
    <3> QED
      BY <2>3, <3>1, <3>2, <3>3, <3>4, <3>5, <3>6 DEF Next
  <2>4. CASE UNCHANGED vars
    BY <2>2, <2>4, StillKeepsDrain
  <2> QED
    BY <2>3, <2>4
<1> QED
  BY <1>1, <1>2, <1>3, <1>4 DEF DrainInv, DrainKept

LEMMA InitDrain == ASSUME Init, ConstantsAssumption PROVE DrainInv
<1>0. /\ \A a \in Thread : thread[a] = Idle
      /\ \A p \in Pid : proc[p] = Unborn
      /\ managed = None /\ finalizer = None /\ record.running = FALSE
      /\ row = Unowned /\ contested = FALSE
      /\ {"operator", "shutdown", "monitor"} \subseteq Thread /\ Restarter \subseteq Thread
      /\ Idle.at = "idle" /\ Unborn.stage = "unborn"
  BY DEF Init, Thread, Idle, Unborn
<1>1. SoleInv /\ Roles
  BY InitStore DEF StoreInv
<1>2. OneRestart /\ \A a \in Thread : thread[a].at = "idle"
  BY <1>0 DEF OneRestart, At
<1>3. \A p \in Pid : ~Supervised(p)
  BY <1>0 DEF Supervised
<1>4. Launches
  <2>1. TrackedManaged /\ OneFinalizer /\ LaunchesStopped
    BY <1>0 DEF TrackedManaged, OneFinalizer, LaunchesStopped
  <2>2. \A a \in Thread : Waited(a) /\ Halted(a)
    BY <1>3 DEF Waited, Halted
  <2>3. ~OperatorStops
    BY <1>0, <1>2 DEF OperatorStops, Halts, At
  <2>4. row.pid = None
    BY <1>0 DEF Unowned
  <2> QED
    BY <2>1, <2>2, <2>3, <2>4 DEF Launches, OperatorStopHolds, RowKnown
<1>5. FinalizersKnown
  BY <1>3 DEF FinalizersKnown
<1>6. ShutdownHolds
  BY <1>0, <1>2 DEF ShutdownHolds, Late, At
<1> QED
  BY <1>0, <1>1, <1>2, <1>4, <1>5, <1>6 DEF DrainInv

(* A shutdown that reports no finalizer it gave up leaves no process, no   *)
(* timer and no registered owner (stopAllManagedProcesses of               *)
(* src/src/runtime/execution/supervisor.ts with the quiescer of            *)
(* src/src/runtime/lifecycle/actions.ts), whatever was under way when it   *)
(* began, unless a command of the operator ran into it, a supervised       *)
(* restart was overtaken by a later one, or two launches ran together.     *)
THEOREM ShutdownLeavesNothing == Spec => []ShutdownDrains
<1>1. Init => DrainInv
  BY InitDrain, ConstantsAssumption
<1>2. DrainInv /\ [Next]_vars => DrainInv'
  BY DrainStays, ConstantsAssumption
<1>3. ASSUME DrainInv PROVE ShutdownDrains
  <2> SUFFICES ASSUME At("shutdown", "done"), thread["shutdown"].ok, Undisturbed
               PROVE  Nothing
    BY DEF ShutdownDrains, Undisturbed
  <2>1. /\ Sole /\ Roles /\ Launches /\ ShutdownHolds
        /\ {"operator", "monitor", "shutdown"} \subseteq Thread
        /\ Thread = Restarter \cup {"operator", "monitor", "shutdown"}
    BY <1>3 DEF DrainInv, SoleInv, Undisturbed, Thread
  <2>2. /\ Quiet /\ managed = None /\ timer = 0
        /\ At("operator", "idle") /\ At("monitor", "idle")
    BY <2>1 DEF ShutdownHolds, Late, At
  <2>3. \A a \in Thread : thread[a].at \in {"idle", "blocked", "done"}
    BY <2>1, <2>2 DEF Quiet, At
  <2>4. live = {}
    BY <2>1, <2>2, <2>3, <1>3 DEF Sole, LiveKnown, InHands, DrainInv, SoleInv, LifecycleTypes, ProcTyped, Pid, None
  <2>5. row.pid = None
    BY <2>1, <2>2, <2>3 DEF Launches, RowKnown, At
  <2>6. adopted.pid = None
    BY <2>1 DEF Sole, NoneAdopted
  <2> QED
    BY <2>2, <2>4, <2>5, <2>6 DEF Nothing, HasManagedProcess
<1> QED
  BY <1>1, <1>2, <1>3, PTL DEF Spec
=============================================================================
