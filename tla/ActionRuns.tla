------------------------------ MODULE ActionRuns ------------------------------
(***************************************************************************)
(* The runs of a service's declared actions (runtime/actions/runs).  A     *)
(* call is admitted, starts a child process, waits for its end or kills it *)
(* at the timeout, and appends its record to the service's action-runs     *)
(* file, which is read, extended and written in place without a lock.      *)
(***************************************************************************)
EXTENDS Naturals, Sequences

CONSTANTS
  Run,       \* calls of runServiceAction
  Action,    \* the service's actions
  Skips,     \* those whose schedules say skip-if-running
  Needs,     \* those that require the service to be running
  KeptRuns,  \* how many records the file keeps (100 in the code)
  MaxDeaths  \* bounds the deaths of the runtime

ASSUME KeptAssumption == KeptRuns \in Nat

VARIABLES
  runs,        \* per call: where it is, its action, how it ended, what it read
  activeRuns,  \* the actions marked as running, in memory
  records,     \* the action-runs file, or "torn" while it is being written
  serviceUp,   \* whether the service runs
  interfered,  \* history: calls that read or wrote the file while another held an older copy
  newer,       \* history: per answered call, those that recorded their run after it
  deaths       \* the bound already used

actionVars == <<runs, activeRuns, records, serviceUp, interfered, newer, deaths>>

NoRun == [at |-> "none", action |-> "none", status |-> "none", read |-> <<>>]

ActionInit ==
  /\ runs = [r \in Run |-> NoRun]
  /\ activeRuns = {} /\ records = <<>> /\ serviceUp \in BOOLEAN
  /\ interfered = {} /\ newer = [r \in Run |-> {}] /\ deaths = 0

RunAt(r, place) == runs[r].at = place
RunGoes(r, to) == runs' = [runs EXCEPT ![r].at = to]

(* assertActionAllowed; the payload is read before the call is admitted. *)
Request(r, a) ==
  /\ RunAt(r, "none") /\ (a \in Needs => serviceUp)
  /\ runs' = [runs EXCEPT ![r].at = "payload", ![r].action = a]
  /\ UNCHANGED <<activeRuns, records, serviceUp, interfered, newer, deaths>>

AdmitRun(r) ==
  /\ RunAt(r, "payload")
  /\ RunGoes(r, IF runs[r].action \in Skips \cap activeRuns THEN "refused" ELSE "prepare")
  /\ UNCHANGED <<activeRuns, records, serviceUp, interfered, newer, deaths>>

(* The variables are resolved and the log directory is made before the action is marked. *)
PrepareRun(r) ==
  /\ RunAt(r, "prepare")
  /\ \/ RunGoes(r, "running") /\ activeRuns' = activeRuns \cup {runs[r].action}
     \/ RunGoes(r, "failed") /\ UNCHANGED activeRuns
  /\ UNCHANGED <<records, serviceUp, interfered, newer, deaths>>

(* mutant: the mark is only removed by a call that recorded its run. *)
UnmarksRecorded(r, to) ==
  activeRuns' = IF to = "answered" THEN activeRuns \ {runs[r].action} ELSE activeRuns

(* The finally clause of runServiceAction. *)
Unmarks(r, to) == activeRuns' = activeRuns \ {runs[r].action}

RunEnds(r, to) == Unmarks(r, to) /\ RunGoes(r, to)

SpawnFails(r) ==
  /\ RunAt(r, "running")
  /\ RunEnds(r, "failed")
  /\ UNCHANGED <<records, serviceUp, interfered, newer, deaths>>

ChildEnds(r) ==
  /\ RunAt(r, "running")
  /\ \E status \in {"succeeded", "failed", "timeout"} :
       runs' = [runs EXCEPT ![r].at = "read", ![r].status = status]
  /\ UNCHANGED <<activeRuns, records, serviceUp, interfered, newer, deaths>>

(* appendActionRun: a file that does not parse fails the call. *)
ReadRecords(r) ==
  /\ RunAt(r, "read")
  /\ \/ /\ records # "torn"
        /\ runs' = [runs EXCEPT ![r].at = "write", ![r].read = records]
        /\ UNCHANGED activeRuns
     \/ records = "torn" /\ RunEnds(r, "failed")
  /\ UNCHANGED <<records, serviceUp, interfered, newer, deaths>>

(* mutant: a full file keeps its oldest runs. *)
ExtendedOldest(r) == LET all == Append(runs[r].read, r)
                     IN IF Len(all) > KeptRuns THEN SubSeq(all, 1, KeptRuns) ELSE all

Extended(r) == LET all == Append(runs[r].read, r)
               IN IF Len(all) > KeptRuns THEN SubSeq(all, Len(all) - KeptRuns + 1, Len(all)) ELSE all

Holders(r) == {o \in Run \ {r} : RunAt(o, "write") \/ RunAt(o, "writing")}

AppendBegins(r) ==
  /\ RunAt(r, "write")
  /\ RunGoes(r, "writing") /\ records' = "torn"
  /\ interfered' = IF Holders(r) = {} THEN interfered ELSE interfered \cup Holders(r) \cup {r}
  /\ UNCHANGED <<activeRuns, serviceUp, newer, deaths>>

AppendEnds(r) ==
  /\ RunAt(r, "writing")
  /\ records' = Extended(r)
  /\ RunEnds(r, "answered")
  /\ newer' = [o \in Run |-> IF RunAt(o, "answered") THEN newer[o] \cup {r} ELSE newer[o]]
  /\ UNCHANGED <<serviceUp, interfered, deaths>>

ServiceChanges ==
  /\ serviceUp' = ~serviceUp
  /\ UNCHANGED <<runs, activeRuns, records, interfered, newer, deaths>>

(* The runtime dies: a file it was writing stays as it is. *)
RuntimeStops ==
  /\ deaths < MaxDeaths /\ deaths' = deaths + 1
  /\ runs' = [r \in Run |-> IF runs[r].at \in {"none", "refused", "failed", "answered"} THEN runs[r]
                            ELSE [runs[r] EXCEPT !.at = "failed"]]
  /\ activeRuns' = {}
  /\ UNCHANGED <<records, serviceUp, interfered, newer>>

ActionNext ==
  \/ \E r \in Run, a \in Action : Request(r, a)
  \/ \E r \in Run : \/ AdmitRun(r) \/ PrepareRun(r) \/ SpawnFails(r) \/ ChildEnds(r)
                    \/ ReadRecords(r) \/ AppendBegins(r) \/ AppendEnds(r)
  \/ ServiceChanges \/ RuntimeStops

ActionSpec == ActionInit /\ [][ActionNext]_actionVars

-----------------------------------------------------------------------------

RecordedRuns == {records[i] : i \in DOMAIN records}
Answered == {r \in Run : RunAt(r, "answered")}

(* A run that was answered is in the file, unless it interfered with a call that held an older copy
   or was pushed out of a full file in which every run is a later one; only a run that a process of
   this runtime still serves keeps its action marked, so no later run is refused for one that has
   ended.  (appendActionRun, runServiceAction) *)
RunsAreAccountedFor ==
  /\ records # "torn" =>
       \A r \in Answered \ interfered :
         \/ r \in RecordedRuns
         \/ Len(records) = KeptRuns /\ RecordedRuns \subseteq newer[r]
  /\ \A a \in activeRuns : \E r \in Run :
       runs[r].action = a /\ runs[r].at \in {"running", "read", "write", "writing"}

(* docs/reference/service-json-reference.md:359: a skip-if-running action does not run beside
   itself.  It does not hold, and no run lists it: the mark is read before an await and set after
   it. *)
SkipsWhileRunning ==
  \A a \in Skips : \A r, o \in Run :
    RunAt(r, "running") /\ RunAt(o, "running") /\ runs[r].action = a /\ runs[o].action = a => r = o
==============================================================================
