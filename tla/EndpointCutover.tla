---------------------------- MODULE EndpointCutover ----------------------------
(***************************************************************************)
(* How services learn of changed endpoints.  A start of the runtime gives  *)
(* every service a port and compares it with the one in the service's      *)
(* lifecycle state; the services that changed, those that refer to them    *)
(* and the dependents of these are materialised again, providers first,    *)
(* and reloaded or restarted if they run (startup/endpoint-cutover.ts,     *)
(* manager/DependencyGraph.ts).  A cutover that fails is undone through    *)
(* the startup journal (StartupMaterialization), which restores the files  *)
(* and leaves the ports.                                                   *)
(*                                                                         *)
(* Services are numbered by their serviceorder.  Each has one endpoint of  *)
(* its own name; capabilities, reservations and what the files say apart   *)
(* from ports are left out, and so is the difference between files,        *)
(* environment and commands.                                               *)
(***************************************************************************)
EXTENDS Naturals

CONSTANTS
  Services,     \* how many services there are
  Graphs,       \* pairs of relations: what a service depends on, and to what of it it refers
  Alternatives, \* how many ports a service can be given
  Cutovers      \* bounds how often the runtime starts

Service == 1..Services

(* What a reference names is looked up among the declared dependencies only. *)
ASSUME CutoverAssumption ==
  /\ Services \in Nat
  /\ \A g \in Graphs : g[2] \subseteq g[1] /\ g[1] \subseteq Service \X Service

VARIABLES
  needs,       \* pairs of a service and one it depends on
  refers,      \* those of them where it refers to the other's endpoint
  ports,       \* runtime.ports of the lifecycle states
  configured,  \* the services whose files count as materialised
  running,
  shown,       \* the ports that a service's files name of those it refers to
  loaded,      \* the ports its process read there, if it runs
  cutover,     \* the cutover under way: its ports, what it has to do, has done and found
  behind,      \* history: the services a failed cutover had still to do
  started      \* how much of the bound is used

cutoverVars == <<needs, refers, ports, configured, running, shown, loaded, cutover, behind, started>>

None == [busy |-> FALSE]
NoPorts == [t \in {} |-> 0]

(* What is resolved for a service: the ports of those it refers to (consumerEndpointSelectorValues). *)
Selectors(s, of) == [t \in {t \in Service : <<s, t>> \in refers} |-> of[t]]

(* After a first start, which gave every service a port. *)
CutoverInit ==
  /\ \E g \in Graphs : needs = g[1] /\ refers = g[2]
  /\ ports = [s \in Service |-> 1]
  /\ configured = {} /\ running = {}
  /\ shown = [s \in Service |-> NoPorts]
  /\ loaded = [s \in Service |-> NoPorts]
  /\ cutover = None
  /\ behind = {}
  /\ started = 0

-----------------------------------------------------------------------------
(* The graph. *)

DirectDependents(S) == {s \in Service : \E t \in S : <<s, t>> \in needs}

(* Those that are reached from S: the least set that holds S and its own dependents. *)
WithDependents(S) ==
  {s \in Service : \A C \in SUBSET Service : S \cup DirectDependents(C) \subseteq C => s \in C}

(* getReverseDependencies: a service is never its own dependent. *)
Dependents(s) == WithDependents(DirectDependents({s})) \ {s}

(* getGlobalStartupOrder: each place goes to the least of the services that are left and whose
   dependencies have come before. *)
IsOrderIndex(index) ==
  \A s \in Service :
    LET ready == {t \in Service : /\ index[t] >= index[s]
                                  /\ \A d \in Service : <<t, d>> \in needs => index[d] < index[s]}
    IN s \in ready /\ \A t \in ready : s <= t

OrderIndex == CHOOSE index \in [Service -> Service] : IsOrderIndex(index)

Cyclic == ~\E index \in [Service -> Service] : IsOrderIndex(index)

(* mutant: the services downstream of a changed one that refer to it themselves only. *)
ImpactedDownstream(s) ==
  LET consumers == {d \in Dependents(s) : <<d, s>> \in refers} IN
    Dependents(s) \cap UNION {Dependents(d) : d \in consumers}

(* getEndpointCutoverImpact *)
Impacted(s) ==
  LET consumers == {d \in Dependents(s) : <<d, s>> \in refers} IN
    Dependents(s) \cap (consumers \cup UNION {Dependents(d) : d \in consumers})

-----------------------------------------------------------------------------

(* planEndpointCutover.  A cycle, or another port for a service that runs, is refused before
   anything changes (assertPinnedRunningServices). *)
PlanCutover(plan) ==
  /\ ~cutover.busy
  /\ started < Cutovers /\ started' = started + 1
  /\ \A s \in running : plan[s] = ports[s]
  /\ ~Cyclic
  /\ LET changed == {s \in Service : plan[s] # ports[s]} IN
       cutover' = [busy |-> TRUE, plan |-> plan, done |-> {}, before |-> shown,
                   todo |-> changed \cup UNION {Impacted(o) : o \in changed}]
  /\ UNCHANGED <<needs, refers, ports, configured, running, shown, loaded, behind>>

(* The first of those that are left, in the order of startup. *)
Due ==
  LET index == OrderIndex IN
    CHOOSE s \in cutover.todo : \A t \in cutover.todo : index[s] <= index[t]

(* stampAllocationRevision: a service that has no files yet gets its port only. *)
Stamp ==
  /\ cutover.busy /\ cutover.todo # {} /\ Due \notin configured
  /\ ports' = [ports EXCEPT ![Due] = cutover.plan[Due]]
  /\ cutover' = [cutover EXCEPT !.todo = @ \ {Due}]
  /\ UNCHANGED <<needs, refers, configured, running, shown, loaded, behind, started>>

(* rematerialize, then reload or restart what runs. *)
Rematerialize ==
  /\ cutover.busy /\ cutover.todo # {} /\ Due \in configured
  /\ ports' = [ports EXCEPT ![Due] = cutover.plan[Due]]
  /\ shown' = [shown EXCEPT ![Due] = Selectors(Due, cutover.plan)]
  /\ loaded' = IF Due \in running THEN [loaded EXCEPT ![Due] = shown'[Due]] ELSE loaded
  /\ cutover' = [cutover EXCEPT !.todo = @ \ {Due}, !.done = @ \cup {Due}]
  /\ behind' = behind \ {Due}
  /\ UNCHANGED <<needs, refers, configured, running, started>>

(* stampRemainingServices, for those that nothing changed for *)
Complete ==
  /\ cutover.busy /\ cutover.todo = {}
  /\ ports' = cutover.plan
  /\ cutover' = None
  /\ UNCHANGED <<needs, refers, configured, running, shown, loaded, behind, started>>

(* A step fails or the runtime dies, and its files are restored, by this start or by the next.  A
   service is no longer configured if its files were touched; a restart may have stopped it. *)
CutoverFails(touched, stopped) ==
  /\ cutover.busy
  /\ cutover.todo = {} => ~touched
  /\ touched => Due \in configured
  /\ stopped => touched /\ Due \in running
  /\ LET undone == cutover.done \cup (IF touched THEN {Due} ELSE {}) IN
       /\ configured' = configured \ undone
       /\ behind' = (behind \cup cutover.todo) \ undone
  /\ ports' = IF touched THEN [ports EXCEPT ![Due] = cutover.plan[Due]] ELSE ports
  /\ running' = IF stopped THEN running \ {Due} ELSE running
  /\ loaded' = IF stopped THEN [loaded EXCEPT ![Due] = NoPorts] ELSE loaded
  /\ shown' = cutover.before
  /\ cutover' = None
  /\ UNCHANGED <<needs, refers, started>>

(* Between cutovers: prepareServicePrerequisites, startService *)
StartService(s) ==
  /\ ~cutover.busy
  /\ s \notin running /\ ~Cyclic
  /\ shown' = IF s \in configured THEN shown ELSE [shown EXCEPT ![s] = Selectors(s, ports)]
  /\ loaded' = [loaded EXCEPT ![s] = shown'[s]]
  /\ configured' = configured \cup {s}
  /\ behind' = IF s \in configured THEN behind ELSE behind \ {s}
  /\ running' = running \cup {s}
  /\ UNCHANGED <<needs, refers, ports, cutover, started>>

(* A process ends, or an operator stops it. *)
Exit(s) ==
  /\ ~cutover.busy /\ s \in running
  /\ running' = running \ {s}
  /\ loaded' = [loaded EXCEPT ![s] = NoPorts]
  /\ UNCHANGED <<needs, refers, ports, configured, shown, cutover, behind, started>>

CutoverNext ==
  \/ \E plan \in [Service -> 1..Alternatives] : PlanCutover(plan)
  \/ Stamp \/ Rematerialize \/ Complete
  \/ \E touched, stopped \in BOOLEAN : CutoverFails(touched, stopped)
  \/ \E s \in Service : StartService(s) \/ Exit(s)

CutoverSpec == CutoverInit /\ [][CutoverNext]_cutoverVars

-----------------------------------------------------------------------------

(* Between two cutovers the files of a configured service, and its process, name the ports that
   the services it refers to listen on; except for those that a failed cutover had still to do,
   which no later one does again.  .governance/specs/SPEC-002-core-standalone-runtime.md:163.
   (planEndpointCutover, executeEndpointCutover) *)
ConsumersFollow ==
  ~cutover.busy => \A e \in refers :
    e[1] \in configured \ behind =>
      /\ shown[e[1]][e[2]] = ports[e[2]]
      /\ e[1] \in running => loaded[e[1]][e[2]] = ports[e[2]]
================================================================================
