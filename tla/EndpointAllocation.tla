-------------------------- MODULE EndpointAllocation --------------------------
(***************************************************************************)
(* How the runtimes of one host share its ports (runtime/ports/allocation  *)
(* and the bind loop of startApiServerGeneration).  Each plans one port    *)
(* for its API and one for its service, under the host's lock              *)
(* (WorkspaceLock): what the host's registry reserves for a process that   *)
(* lives is taken, a service that runs keeps its port, everything else is  *)
(* probed.  A service may outlive the runtime that started it, and the     *)
(* next runtime of the workspace may claim what the dead one had reserved. *)
(*                                                                         *)
(* A member of Runtime is an operating system process that runs the        *)
(* workspace's runtime once per attempt; its name stands for the           *)
(* allocation it makes.  RuntimeStartup lets one runtime of a workspace    *)
(* live at a time.                                                         *)
(***************************************************************************)
EXTENDS Naturals

CONSTANTS
  Runtime,         \* operating system processes
  Workspace,       \* the workspaces of the host
  Serving,         \* those that have a service with a port of its own
  Port,            \* the ports of the range
  MaxPortTroubles  \* bounds crashes, failed writes, foreign listeners and inspections that fail

ASSUME PortAssumption == 0 \notin Port /\ "none" \notin Runtime

VARIABLES
  host,         \* the host's registry: who reserved which port for what
  plans,        \* per workspace, its allocation plan
  listener,     \* per port, who listens
  services,     \* per workspace, whether its service's process is up, and its port
  runtimes,     \* per process: where it is, its workspace and what it holds in memory
  gone,         \* the processes that died
  blind,        \* history: the inspection of a process that lives failed
  portTroubles  \* the bound already used

portVars ==
  <<host, plans, listener, services, runtimes, gone, blind, portTroubles>>

NoPlan == [allocation |-> "none", reserved |-> FALSE, api |-> 0, svc |-> 0]
NoService == [up |-> FALSE, port |-> 0]
NotStarting == [at |-> "idle", workspace |-> "none", candidate |-> 0, pinned |-> 0, holds |-> NoPlan]

PortInit ==
  /\ host = {}
  /\ plans = [w \in Workspace |-> NoPlan]
  /\ listener = [p \in Port |-> "none"]
  /\ services = [w \in Workspace |-> NoService]
  /\ runtimes = [p \in Runtime |-> NotStarting]
  /\ gone = {} /\ blind = FALSE /\ portTroubles = 0

StartAt(p, place) == runtimes[p].at = place /\ p \notin gone
StartGoes(p, to) == runtimes' = [runtimes EXCEPT ![p].at = to]
Mine(p) == runtimes[p].workspace
Held(p) == runtimes[p].holds
Lives(p) == p \notin gone
Engaged(p) == Lives(p) /\ runtimes[p].at # "idle"
FreePort(port) == listener[port] = "none"
Unlistened(who) == [p \in Port |-> IF listener[p] = who THEN "none" ELSE listener[p]]
PortTrouble == portTroubles < MaxPortTroubles /\ portTroubles' = portTroubles + 1
Unlocked == \A p \in Runtime : ~StartAt(p, "plan")

-----------------------------------------------------------------------------
(* buildRequests, before the lock is taken: the port of a service that runs is pinned.  An
   automatic API holds a listener of its own already. *)
BeginStart(p, w) ==
  /\ StartAt(p, "idle") /\ \A q \in Runtime : Engaged(q) => Mine(q) # w
  /\ \E candidate \in {0} \cup {port \in Port : FreePort(port)} :
       /\ listener' = IF candidate = 0 THEN listener ELSE [listener EXCEPT ![candidate] = p]
       /\ runtimes' = [runtimes EXCEPT ![p] = [NotStarting EXCEPT !.at = "reserve", !.workspace = w,
                       !.candidate = candidate, !.pinned = IF services[w].up THEN services[w].port ELSE 0]]
  /\ UNCHANGED <<host, plans, services, gone, blind, portTroubles>>

(* activeHostAllocations keeps what a process that is seen to live has reserved. *)
RetainedRows(unseen) == {r \in host : Lives(r.pid) /\ r.pid # unseen}

Unavailable(port, retained) == \E r \in retained : r.port = port

(* allocateRequests, for the API and for the service. *)
Allocates(p, retained, api, svc) ==
  /\ ~Unavailable(api, retained)
  /\ IF runtimes[p].candidate # 0 THEN api = runtimes[p].candidate ELSE FreePort(api)
  /\ IF Mine(p) \notin Serving THEN svc = 0
     ELSE /\ svc # api /\ ~Unavailable(svc, retained)
          /\ IF runtimes[p].pinned # 0 THEN svc = runtimes[p].pinned ELSE svc # 0 /\ FreePort(svc)

Planned(api, svc) == {<<"api", api>>} \cup (IF svc = 0 THEN {} ELSE {<<"svc", svc>>})

Entries(p, api, svc) ==
  {[endpoint |-> e[1], port |-> e[2], allocation |-> p, pid |-> p] : e \in Planned(api, svc)}

(* planAndReserveRuntimeEndpoints: the host's registry first. *)
ReservePorts(p) ==
  /\ StartAt(p, "reserve") /\ Unlocked
  /\ \E unseen \in {"none"} \cup {q \in Runtime \ {p} : Lives(q)} :
       LET retained == RetainedRows(unseen) IN
       /\ IF unseen = "none" THEN UNCHANGED <<blind, portTroubles>> ELSE PortTrouble /\ blind' = TRUE
       /\ \E api \in Port, svc \in Port \cup {0} :
            /\ Allocates(p, retained, api, svc)
            /\ host' = retained \cup Entries(p, api, svc)
            /\ runtimes' = [runtimes EXCEPT ![p].at = "plan",
                            ![p].holds = [allocation |-> p, reserved |-> TRUE, api |-> api, svc |-> svc]]
  /\ UNCHANGED <<plans, listener, services, gone>>

(* endpoint_allocation_conflict and _exhausted: the start fails, or is tried again with another
   candidate. *)
Refused(p) ==
  /\ StartAt(p, "reserve") /\ Unlocked
  /\ ~\E api \in Port, svc \in Port \cup {0} : Allocates(p, RetainedRows("none"), api, svc)
  /\ listener' = Unlistened(p) /\ runtimes' = [runtimes EXCEPT ![p] = NotStarting]
  /\ UNCHANGED <<host, plans, services, gone, blind, portTroubles>>

(* Then the workspace's plan.  When that write fails nothing is known to be released. *)
WritePlan(p) ==
  /\ StartAt(p, "plan")
  /\ \/ plans' = [plans EXCEPT ![Mine(p)] = Held(p)] /\ StartGoes(p, "bind")
        /\ UNCHANGED <<listener, portTroubles>>
     \/ PortTrouble /\ runtimes' = [runtimes EXCEPT ![p] = NotStarting]
        /\ listener' = Unlistened(p) /\ UNCHANGED plans
  /\ UNCHANGED <<host, services, gone, blind>>

(* mutant: the plan of a runtime that is gone is claimed without a look at the host's registry. *)
ClaimableByPlan(w) == plans[w].reserved /\ ~Lives(plans[w].allocation)

(* inspectAllocationRecoveryInRegistry: "recoverable" when every endpoint of the plan is still
   reserved for it, all by processes that ended. *)
Claimable(w) ==
  LET own == {r \in host : r.allocation = plans[w].allocation} IN
  /\ plans[w].reserved
  /\ {<<r.endpoint, r.port>> : r \in own} = Planned(plans[w].api, plans[w].svc)
  /\ \A r \in own : ~Lives(r.pid)

(* claimRuntimeEndpointAllocation *)
ClaimPlan(p, w) ==
  /\ StartAt(p, "idle") /\ \A q \in Runtime : Engaged(q) => Mine(q) # w
  /\ Unlocked /\ Claimable(w)
  /\ host' = {IF r.allocation = plans[w].allocation THEN [r EXCEPT !.pid = p] ELSE r : r \in host}
  /\ runtimes' = [runtimes EXCEPT ![p] =
                   [NotStarting EXCEPT !.at = "bind", !.workspace = w, !.holds = plans[w]]]
  /\ UNCHANGED <<plans, listener, services, gone, blind, portTroubles>>

(* releaseRuntimeEndpointAllocation *)
ReleasesPlan(p) ==
  /\ host' = {r \in host : r.allocation # Held(p).allocation}
  /\ plans' = [plans EXCEPT ![Mine(p)] = [Held(p) EXCEPT !.reserved = FALSE]]

(* Another listener has won the port since the probe: the plan is released, and made anew. *)
BindApi(p) ==
  /\ StartAt(p, "bind")
  /\ IF listener[Held(p).api] \in {"none", p}
     THEN /\ listener' = [listener EXCEPT ![Held(p).api] = p]
          /\ StartGoes(p, "run") /\ UNCHANGED <<host, plans>>
     ELSE /\ Unlocked /\ ReleasesPlan(p)
          /\ runtimes' = [runtimes EXCEPT ![p] = NotStarting] /\ UNCHANGED listener
  /\ UNCHANGED <<services, gone, blind, portTroubles>>

(* A service is launched with the planned port; it listens when it gets there, or exits. *)
LaunchService(p) ==
  /\ StartAt(p, "run") /\ Mine(p) \in Serving /\ ~services[Mine(p)].up
  /\ services' = [services EXCEPT ![Mine(p)] = [up |-> TRUE, port |-> Held(p).svc]]
  /\ UNCHANGED <<host, plans, listener, runtimes, gone, blind, portTroubles>>

Listen(w) ==
  /\ services[w].up /\ listener[services[w].port] # w
  /\ IF FreePort(services[w].port)
     THEN listener' = [listener EXCEPT ![services[w].port] = w] /\ UNCHANGED services
     ELSE services' = [services EXCEPT ![w] = NoService] /\ UNCHANGED listener
  /\ UNCHANGED <<host, plans, runtimes, gone, blind, portTroubles>>

ServiceExits(w) ==
  /\ services[w].up
  /\ services' = [services EXCEPT ![w] = NoService] /\ listener' = Unlistened(w)
  /\ UNCHANGED <<host, plans, runtimes, gone, blind, portTroubles>>

(* The stop ends the service and gives the ports back. *)
Stop(p) ==
  /\ StartAt(p, "run") /\ Unlocked /\ ~services[Mine(p)].up
  /\ ReleasesPlan(p) /\ listener' = Unlistened(p) /\ runtimes' = [runtimes EXCEPT ![p] = NotStarting]
  /\ UNCHANGED <<services, gone, blind, portTroubles>>

-----------------------------------------------------------------------------
RuntimeDies(p) ==
  /\ Engaged(p) /\ PortTrouble
  /\ gone' = gone \cup {p} /\ listener' = Unlistened(p)
  /\ UNCHANGED <<host, plans, services, runtimes, blind>>

(* A program that knows nothing of the registry takes a port. *)
Outsider(port) ==
  /\ FreePort(port) /\ PortTrouble /\ listener' = [listener EXCEPT ![port] = "other"]
  /\ UNCHANGED <<host, plans, services, runtimes, gone, blind>>

PortNext ==
  \/ \E p \in Runtime :
       \/ \E w \in Workspace : BeginStart(p, w) \/ ClaimPlan(p, w)
       \/ ReservePorts(p) \/ Refused(p) \/ WritePlan(p) \/ BindApi(p)
       \/ LaunchService(p) \/ Stop(p) \/ RuntimeDies(p)
  \/ \E w \in Workspace : Listen(w) \/ ServiceExits(w)
  \/ \E port \in Port : Outsider(port)

PortSpec == PortInit /\ [][PortNext]_portVars

-----------------------------------------------------------------------------
Holds(p) == Lives(p) /\ runtimes[p].at \in {"bind", "run"}
Ports(p) == {Held(p).api, Held(p).svc} \ {0}

(* Two runtimes that live never hold the same port, whatever died, was claimed, released or
   planned anew between them, and a runtime's service that runs has the port its plan says;
   unless the inspection of a runtime that lived had failed.
   docs/reference/startup-endpoint-allocation.md, "Authority and conflict inputs".
   (planAndReserveRuntimeEndpoints, claimRuntimeEndpointAllocation) *)
PortsAreNotShared ==
  ~blind =>
    /\ \A p, q \in Runtime : p # q /\ Holds(p) /\ Holds(q) => Ports(p) \cap Ports(q) = {}
    /\ \A p \in Runtime : Holds(p) /\ services[Mine(p)].up => services[Mine(p)].port = Held(p).svc
==============================================================================
