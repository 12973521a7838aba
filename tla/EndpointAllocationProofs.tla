----------------------- MODULE EndpointAllocationProofs -----------------------
(***************************************************************************)
(* For any processes, workspaces, services, ports and troubles: no two     *)
(* processes hold a port at once, and a service keeps the port it was      *)
(* planned.  For any services and dependencies among them: who refers to   *)
(* another's port learns of its change, by the cutover or not at all if    *)
(* it fails (EndpointCutover).                                             *)
(***************************************************************************)
EXTENDS EndpointAllocation, EndpointCutover, FiniteSetTheorems, WellFoundedInduction, TLAPS

Plan == [allocation : Runtime \cup {"none"}, reserved : BOOLEAN, api : Port \cup {0}, svc : Port \cup {0}]
Entry == [endpoint : {"api", "svc"}, port : Port, allocation : Runtime, pid : Runtime]
Start == [at : {"idle", "reserve", "plan", "bind", "run"}, workspace : Workspace \cup {"none"},
          candidate : Port \cup {0}, pinned : Port \cup {0}, holds : Plan]

PortTypes ==
  /\ host \subseteq Entry
  /\ plans \in [Workspace -> Plan]
  /\ listener \in [Port -> Runtime \cup Workspace \cup {"none", "other"}]
  /\ services \in [Workspace -> [up : BOOLEAN, port : Port \cup {0}]]
  /\ runtimes \in [Runtime -> Start]
  /\ gone \subseteq Runtime /\ blind \in BOOLEAN

Planning(p) == Lives(p) /\ runtimes[p].at \in {"plan", "bind", "run"}
ReservedFor(p, e) == [endpoint |-> e[1], port |-> e[2], allocation |-> Held(p).allocation, pid |-> p]

(* The host's registry gives a port once, and an allocation to one process: its maker, or one that
   claimed it when the maker was dead. *)
PortsAreUnique == \A r, s \in host : r.port = s.port => r = s
OneClaimant == \A r, s \in host : r.allocation = s.allocation => r.pid = s.pid
MakerOrHeir == \A r \in host : r.pid = r.allocation \/ ~Lives(r.allocation)

(* What a runtime plans with is reserved for it. *)
HeldIsReserved ==
  \A p \in Runtime : Planning(p) =>
    \A e \in Planned(Held(p).api, Held(p).svc) : ReservedFor(p, e) \in host

(* A workspace has one runtime. *)
OneRuntime == \A p, q \in Runtime : Engaged(p) /\ Engaged(q) /\ Mine(p) = Mine(q) => p = q
EngagedSomewhere ==
  \A p \in Runtime : Engaged(p) =>
    /\ Mine(p) \in Workspace
    /\ Planning(p) => Held(p).api # 0 /\ (Mine(p) \in Serving => Held(p).svc # 0)
    /\ runtimes[p].at \in {"bind", "run"} => plans[Mine(p)] = Held(p)

(* What runs as a service has a port, which whoever plans for it knows. *)
PlanFits(w) ==
  /\ plans[w].reserved => plans[w].api # 0 /\ (w \in Serving => plans[w].svc # 0)
  /\ services[w].up => /\ w \in Serving /\ services[w].port # 0
                       /\ plans[w].reserved => plans[w].svc = services[w].port
KnowsService(p) ==
  Engaged(p) /\ services[Mine(p)].up =>
    /\ StartAt(p, "reserve") => runtimes[p].pinned = services[Mine(p)].port
    /\ Planning(p) => Held(p).svc = services[Mine(p)].port
ServiceHasPort ==
  /\ \A w \in Workspace : PlanFits(w)
  /\ \A p \in Runtime : KnowsService(p)

PortInv ==
  /\ PortTypes /\ PortsAreUnique /\ OneClaimant /\ MakerOrHeir /\ (~blind => HeldIsReserved)
  /\ OneRuntime /\ EngagedSomewhere /\ ServiceHasPort

-----------------------------------------------------------------------------
LEMMA ListenersTyped ==
  ASSUME PortTypes, NEW who
  PROVE  Unlistened(who) \in [Port -> Runtime \cup Workspace \cup {"none", "other"}]
BY DEF PortTypes, Unlistened

(* A start goes on within its place, or somebody listens or stops. *)
LEMMA ListenerStep ==
  ASSUME PortInv, UNCHANGED <<host, plans, services, runtimes, gone, blind>>,
         listener' \in [Port -> Runtime \cup Workspace \cup {"none", "other"}]
  PROVE  PortInv'
<1>1. PortTypes'
  BY DEF PortInv, PortTypes
<1>2. (PortsAreUnique /\ OneClaimant /\ MakerOrHeir)'
  BY DEF PortInv, PortsAreUnique, OneClaimant, MakerOrHeir, Lives
<1>3. (~blind => HeldIsReserved)'
  BY DEF PortInv, HeldIsReserved, Planning, Lives, Held, ReservedFor, Planned
<1>4. (OneRuntime /\ EngagedSomewhere /\ ServiceHasPort)'
  BY DEF PortInv, OneRuntime, EngagedSomewhere, ServiceHasPort, PlanFits, KnowsService, Engaged, Lives, Mine, Planning,
         Held, StartAt
<1> QED
  BY <1>1, <1>2, <1>3, <1>4 DEF PortInv

(* A service comes to an end. *)
LEMMA ExitStep ==
  ASSUME PortInv, NEW w \in Workspace, services' = [services EXCEPT ![w] = NoService],
         UNCHANGED <<host, plans, runtimes, gone, blind>>,
         listener' \in [Port -> Runtime \cup Workspace \cup {"none", "other"}]
  PROVE  PortInv'
<1>1. PortTypes'
  BY DEF PortInv, PortTypes, NoService
<1>2. (PortsAreUnique /\ OneClaimant /\ MakerOrHeir)'
  BY DEF PortInv, PortsAreUnique, OneClaimant, MakerOrHeir, Lives
<1>3. (~blind => HeldIsReserved)'
  BY DEF PortInv, HeldIsReserved, Planning, Lives, Held, ReservedFor, Planned
<1>4. (OneRuntime /\ EngagedSomewhere)'
  BY DEF PortInv, OneRuntime, EngagedSomewhere, Engaged, Lives, Mine, Planning, Held
<1>5. \A v \in Workspace : services'[v].up => services[v].up /\ services'[v] = services[v]
  BY DEF PortInv, PortTypes, NoService
<1>6. ServiceHasPort'
  <2>1. \A p \in Runtime : Engaged(p) => Mine(p) \in Workspace
    BY DEF PortInv, EngagedSomewhere
  <2> QED
    BY <1>5, <2>1 DEF PortInv, ServiceHasPort, PlanFits, KnowsService, Engaged, Lives, Mine, Planning, Held, StartAt
<1> QED
  BY <1>1, <1>2, <1>3, <1>4, <1>6 DEF PortInv

(* A start that is given up, or a runtime that stops, keeps its reservations or gives all of them
   back: nobody else has any under its allocation. *)
Released(p) ==
  /\ host' = {r \in host : r.allocation # Held(p).allocation}
  /\ plans' = [plans EXCEPT ![Mine(p)] = [Held(p) EXCEPT !.reserved = FALSE]]

LEMMA ReturnStep ==
  ASSUME PortInv, NEW p \in Runtime, Engaged(p), runtimes' = [runtimes EXCEPT ![p] = NotStarting],
         UNCHANGED <<services, gone, blind>>,
         UNCHANGED <<host, plans>> \/ (Planning(p) /\ Released(p)),
         listener' \in [Port -> Runtime \cup Workspace \cup {"none", "other"}]
  PROVE  PortInv'
<1>0. /\ PortTypes /\ runtimes \in [Runtime -> Start] /\ runtimes[p] \in Start /\ Mine(p) \in Workspace
      /\ Held(p) \in Plan
  BY DEF PortInv, PortTypes, EngagedSomewhere, Start, Held
<1>1. host' \subseteq host
  BY DEF Released
<1>2. NotStarting \in Start /\ NotStarting.at = "idle"
  BY DEF NotStarting, Start, NoPlan, Plan
<1>3. runtimes'[p] = NotStarting /\ \A q \in Runtime : q # p => runtimes'[q] = runtimes[q]
  BY <1>0
<1>4. PortTypes'
  <2>1. plans' \in [Workspace -> Plan]
    <3>1. [Held(p) EXCEPT !.reserved = FALSE] \in Plan
      BY <1>0 DEF Plan
    <3> QED
      BY <1>0, <3>1 DEF PortTypes, Released
  <2> QED
    BY <1>0, <1>1, <1>2, <2>1 DEF PortTypes
<1>5. (PortsAreUnique /\ OneClaimant /\ MakerOrHeir)'
  BY <1>1 DEF PortInv, PortsAreUnique, OneClaimant, MakerOrHeir, Lives
<1>6. (~blind => HeldIsReserved)'
  <2> SUFFICES ASSUME ~blind, NEW q \in Runtime, Planning(q)', NEW e \in Planned(Held(q).api, Held(q).svc)'
               PROVE  ReservedFor(q, e)' \in host'
    BY DEF HeldIsReserved
  <2>1. q # p /\ Planning(q) /\ runtimes'[q] = runtimes[q]
    BY <1>2, <1>3 DEF Planning, Lives
  <2>2. /\ Planned(Held(q).api, Held(q).svc)' = Planned(Held(q).api, Held(q).svc)
        /\ ReservedFor(q, e)' = ReservedFor(q, e)
    BY <2>1 DEF Planned, Held, ReservedFor
  <2>3. ReservedFor(q, e) \in host
    BY <2>1, <2>2 DEF PortInv, HeldIsReserved
  <2>4. CASE host' = host
    BY <2>2, <2>3, <2>4
  <2>5. CASE Planning(p) /\ Released(p)
    <3> DEFINE mine == ReservedFor(p, <<"api", Held(p).api>>)
               theirs == ReservedFor(q, e)
    <3>1. mine \in host
      BY <2>5 DEF PortInv, HeldIsReserved, Planned
    <3>2. /\ mine.allocation = Held(p).allocation /\ mine.pid = p
          /\ theirs.allocation = Held(q).allocation /\ theirs.pid = q
      BY DEF ReservedFor
    <3> HIDE DEF mine
    <3>3. Held(q).allocation # Held(p).allocation
      BY <2>1, <2>3, <3>1, <3>2 DEF PortInv, OneClaimant
    <3> QED
      BY <2>2, <2>3, <2>5, <3>2, <3>3 DEF Released
  <2> QED
    BY <2>4, <2>5
<1>7. \A q \in Runtime : Engaged(q)' => q # p /\ Engaged(q) /\ runtimes'[q] = runtimes[q]
  BY <1>2, <1>3 DEF Engaged, Lives
<1>8. OneRuntime'
  BY <1>7 DEF PortInv, OneRuntime, Mine
<1>9. \A q \in Runtime : Engaged(q)' => Mine(q) # Mine(p)
  BY <1>7 DEF PortInv, OneRuntime
<1>10. \A w \in Workspace : /\ w # Mine(p) => plans'[w] = plans[w]
                            /\ plans'[w].reserved => plans'[w] = plans[w]
  <2>1. [Held(p) EXCEPT !.reserved = FALSE].reserved = FALSE
    BY <1>0 DEF Plan
  <2> QED
    BY <1>0, <2>1 DEF PortTypes, Released
<1>11. EngagedSomewhere'
  BY <1>7, <1>9, <1>10 DEF PortInv, EngagedSomewhere, Planning, Lives, Mine, Held
<1>12. ServiceHasPort'
  BY <1>7, <1>10 DEF PortInv, ServiceHasPort, PlanFits, KnowsService, Planning, Lives, Mine, Held, StartAt
<1> QED
  BY <1>4, <1>5, <1>6, <1>8, <1>11, <1>12 DEF PortInv

-----------------------------------------------------------------------------
LEMMA BeginKeeps ==
  ASSUME PortInv, NEW p \in Runtime, NEW w \in Workspace, BeginStart(p, w)
  PROVE  PortInv'
<1>0. /\ PortTypes /\ runtimes \in [Runtime -> Start] /\ UNCHANGED <<host, plans, services, gone, blind>>
      /\ runtimes[p].at = "idle" /\ Lives(p)
      /\ \A q \in Runtime : Engaged(q) => Mine(q) # w
  BY DEF PortInv, PortTypes, BeginStart, StartAt, Lives
<1>1. PICK candidate \in {0} \cup Port :
        /\ listener' = IF candidate = 0 THEN listener ELSE [listener EXCEPT ![candidate] = p]
        /\ runtimes' = [runtimes EXCEPT ![p] = [NotStarting EXCEPT !.at = "reserve", !.workspace = w,
                         !.candidate = candidate, !.pinned = IF services[w].up THEN services[w].port ELSE 0]]
  BY DEF BeginStart
<1> DEFINE pin == IF services[w].up THEN services[w].port ELSE 0
           x == [NotStarting EXCEPT !.at = "reserve", !.workspace = w, !.candidate = candidate, !.pinned = pin]
<1>2. pin \in Port \cup {0} /\ (services[w].up => pin = services[w].port)
  BY <1>0 DEF PortTypes
<1> HIDE DEF pin
<1>3. x \in Start /\ x.at = "reserve" /\ x.workspace = w /\ x.pinned = pin
  BY <1>2 DEF NotStarting, Start, NoPlan, Plan
<1>4. runtimes' = [runtimes EXCEPT ![p] = x]
  BY <1>1 DEF pin
<1> HIDE DEF x
<1>5. runtimes'[p] = x /\ \A q \in Runtime : q # p => runtimes'[q] = runtimes[q]
  BY <1>0, <1>4
<1>6. PortTypes'
  <2>1. listener' \in [Port -> Runtime \cup Workspace \cup {"none", "other"}]
    BY <1>0, <1>1 DEF PortTypes
  <2> QED
    BY <1>0, <1>3, <1>4, <2>1 DEF PortTypes
<1>7. (PortsAreUnique /\ OneClaimant /\ MakerOrHeir)'
  BY <1>0 DEF PortInv, PortsAreUnique, OneClaimant, MakerOrHeir, Lives
<1>8. \A q \in Runtime : Planning(q)' => q # p /\ Planning(q) /\ runtimes'[q] = runtimes[q]
  BY <1>0, <1>3, <1>5 DEF Planning, Lives
<1>9. (~blind => HeldIsReserved)'
  BY <1>0, <1>8 DEF PortInv, HeldIsReserved, Held, ReservedFor, Planned
<1>10. \A q \in Runtime : Engaged(q)' => q = p \/ (Engaged(q) /\ runtimes'[q] = runtimes[q])
  BY <1>0, <1>5 DEF Engaged, Lives
<1>11. OneRuntime'
  BY <1>0, <1>3, <1>5, <1>10 DEF PortInv, OneRuntime, Mine
<1>12. EngagedSomewhere'
  BY <1>0, <1>3, <1>5, <1>8, <1>10 DEF PortInv, EngagedSomewhere, Mine, Held
<1>13. ServiceHasPort'
  BY <1>0, <1>2, <1>3, <1>5, <1>8, <1>10 DEF PortInv, ServiceHasPort, PlanFits, KnowsService, Mine, Held, StartAt
<1> QED
  BY <1>6, <1>7, <1>9, <1>11, <1>12, <1>13 DEF PortInv

(* The ports are reserved; a claim that is not blind takes away from the dead only. *)
LEMMA ReserveKeeps ==
  ASSUME PortInv, NEW p \in Runtime, ReservePorts(p)
  PROVE  PortInv'
<1>0. /\ PortTypes /\ runtimes \in [Runtime -> Start] /\ UNCHANGED <<plans, services, gone, listener>>
      /\ StartAt(p, "reserve") /\ Lives(p) /\ Engaged(p) /\ runtimes[p] \in Start /\ Mine(p) \in Workspace
  BY DEF PortInv, PortTypes, ReservePorts, StartAt, Lives, EngagedSomewhere, Engaged
<1>1. PICK unseen \in {"none"} \cup {q \in Runtime \ {p} : Lives(q)} :
        /\ IF unseen = "none" THEN UNCHANGED <<blind, portTroubles>> ELSE PortTrouble /\ blind' = TRUE
        /\ \E api \in Port, svc \in Port \cup {0} :
             /\ Allocates(p, RetainedRows(unseen), api, svc)
             /\ host' = RetainedRows(unseen) \cup Entries(p, api, svc)
             /\ runtimes' = [runtimes EXCEPT ![p].at = "plan",
                               ![p].holds = [allocation |-> p, reserved |-> TRUE, api |-> api, svc |-> svc]]
  BY DEF ReservePorts
<1>2. PICK api \in Port, svc \in Port \cup {0} :
        /\ Allocates(p, RetainedRows(unseen), api, svc)
        /\ host' = RetainedRows(unseen) \cup Entries(p, api, svc)
        /\ runtimes' = [runtimes EXCEPT ![p].at = "plan",
                          ![p].holds = [allocation |-> p, reserved |-> TRUE, api |-> api, svc |-> svc]]
  BY <1>1
<1> DEFINE h == [allocation |-> p, reserved |-> TRUE, api |-> api, svc |-> svc]
           x == [runtimes[p] EXCEPT !.at = "plan", !.holds = h]
<1>3. h \in Plan /\ h.api = api /\ h.svc = svc /\ h.allocation = p
  BY DEF Plan
<1>4. runtimes' = [runtimes EXCEPT ![p] = x]
  BY <1>0, <1>2
<1> HIDE DEF h
<1>5. x \in Start /\ x.at = "plan" /\ x.holds = h /\ x.workspace = Mine(p)
  BY <1>0, <1>3 DEF Start, Mine
<1> HIDE DEF x
<1>6. runtimes'[p] = x /\ \A q \in Runtime : q # p => runtimes'[q] = runtimes[q]
  BY <1>0, <1>4
<1>7. \A r \in Entries(p, api, svc) :
        /\ r \in Entry /\ r.pid = p /\ r.allocation = p
        /\ \/ r.endpoint = "api" /\ r.port = api
           \/ r.endpoint = "svc" /\ r.port = svc /\ svc # 0
  <2> TAKE r \in Entries(p, api, svc)
  <2>1. PICK e \in Planned(api, svc) : r = [endpoint |-> e[1], port |-> e[2], allocation |-> p, pid |-> p]
    BY DEF Entries
  <2>2. e = <<"api", api>> \/ (e = <<"svc", svc>> /\ svc # 0)
    BY <2>1 DEF Planned
  <2> QED
    BY <2>1, <2>2 DEF Entry
<1>8. RetainedRows(unseen) \subseteq host /\ \A r \in RetainedRows(unseen) : Lives(r.pid) /\ r.pid # unseen
  BY DEF RetainedRows
<1>9. PortTypes'
  <2>1. host' \subseteq Entry
    BY <1>0, <1>2, <1>7, <1>8 DEF PortTypes
  <2>2. runtimes' \in [Runtime -> Start]
    BY <1>0, <1>4, <1>5
  <2>3. blind' \in BOOLEAN
    BY <1>0, <1>1 DEF PortTypes
  <2> QED
    BY <1>0, <2>1, <2>2, <2>3 DEF PortTypes
<1>10. \A r \in RetainedRows(unseen) : r.port # api /\ (svc # 0 => r.port # svc)
  BY <1>2, PortAssumption DEF Allocates, Unavailable
<1>11. svc # 0 => svc # api
  BY <1>2 DEF Allocates
<1>12. PortsAreUnique'
  <2> SUFFICES ASSUME NEW r \in host', NEW s \in host', r.port = s.port PROVE r = s
    BY DEF PortsAreUnique
  <2>1. CASE r \in RetainedRows(unseen) /\ s \in RetainedRows(unseen)
    BY <1>8, <2>1 DEF PortInv, PortsAreUnique
  <2>2. CASE r \in Entries(p, api, svc) /\ s \in Entries(p, api, svc)
    <3>1. r.endpoint = s.endpoint
      BY <1>7, <1>11, <2>2
    <3> QED
      BY <1>7, <2>2, <3>1 DEF Entry
  <2> QED
    BY <1>2, <1>7, <1>10, <2>1, <2>2
<1>13. \A r \in RetainedRows(unseen) : r.allocation = p => r.pid = p
  BY <1>0, <1>8 DEF PortInv, MakerOrHeir
<1>14. OneClaimant' /\ MakerOrHeir'
  BY <1>0, <1>2, <1>7, <1>8, <1>13 DEF PortInv, OneClaimant, MakerOrHeir, Lives
<1>15. (~blind => HeldIsReserved)'
  <2> SUFFICES ASSUME ~blind', NEW q \in Runtime, Planning(q)', NEW e \in Planned(Held(q).api, Held(q).svc)'
               PROVE  ReservedFor(q, e)' \in host'
    BY DEF HeldIsReserved
  <2>1. CASE q = p
    <3>1. Held(q)' = h
      BY <1>5, <1>6, <2>1 DEF Held
    <3>2. e \in Planned(api, svc)
      BY <1>3, <3>1 DEF Planned
    <3>3. ReservedFor(q, e)' \in Entries(p, api, svc)
      BY <1>3, <2>1, <3>1, <3>2 DEF ReservedFor, Entries
    <3> QED
      BY <1>2, <3>3
  <2>2. CASE q # p
    <3>1. ~blind /\ unseen = "none"
      BY <1>1
    <3>2. Planning(q) /\ runtimes'[q] = runtimes[q]
      BY <1>0, <1>6, <2>2 DEF Planning, Lives
    <3>3. ReservedFor(q, e)' = ReservedFor(q, e) /\ e \in Planned(Held(q).api, Held(q).svc)
      BY <3>2 DEF Planned, Held, ReservedFor
    <3>4. ReservedFor(q, e) \in host /\ ReservedFor(q, e).pid = q
      BY <3>1, <3>2, <3>3 DEF PortInv, HeldIsReserved, ReservedFor
    <3>5. ReservedFor(q, e) \in RetainedRows(unseen)
      BY <3>1, <3>2, <3>4, PortAssumption DEF RetainedRows, Planning
    <3> QED
      BY <1>2, <3>3, <3>5
  <2> QED
    BY <2>1, <2>2
<1>16. /\ \A q \in Runtime : Engaged(q)' => Engaged(q) /\ Mine(q)' = Mine(q)
       /\ \A q \in Runtime : Engaged(q)' => q = p \/ runtimes'[q] = runtimes[q]
  BY <1>0, <1>5, <1>6 DEF Engaged, Lives, Mine
<1>17. OneRuntime'
  BY <1>16 DEF PortInv, OneRuntime
<1>18. api # 0 /\ (Mine(p) \in Serving => svc # 0)
  <2>1. Mine(p) \in Serving /\ runtimes[p].pinned = 0 => svc # 0
    BY <1>2 DEF Allocates
  <2>2. Mine(p) \in Serving /\ runtimes[p].pinned # 0 => svc = runtimes[p].pinned
    BY <1>2 DEF Allocates
  <2> QED
    BY <2>1, <2>2, PortAssumption
<1>19. EngagedSomewhere'
  <2> SUFFICES ASSUME NEW q \in Runtime, Engaged(q)'
               PROVE  /\ Mine(q)' \in Workspace
                      /\ Planning(q)' => Held(q)'.api # 0 /\ (Mine(q)' \in Serving => Held(q)'.svc # 0)
                      /\ runtimes'[q].at \in {"bind", "run"} => plans'[Mine(q)'] = Held(q)'
    BY DEF EngagedSomewhere
  <2>1. CASE q = p
    BY <1>0, <1>3, <1>5, <1>6, <1>18, <2>1 DEF Mine, Held
  <2>2. CASE q # p
    BY <1>0, <1>6, <1>16, <2>2 DEF PortInv, EngagedSomewhere, Planning, Lives, Mine, Held
  <2> QED
    BY <2>1, <2>2
<1>20. services[Mine(p)].up => svc = services[Mine(p)].port
  <2> SUFFICES ASSUME services[Mine(p)].up PROVE svc = services[Mine(p)].port
    OBVIOUS
  <2>1. Mine(p) \in Serving /\ runtimes[p].pinned = services[Mine(p)].port /\ runtimes[p].pinned # 0
    BY <1>0 DEF PortInv, ServiceHasPort, PlanFits, KnowsService
  <2> QED
    BY <1>2, <2>1 DEF Allocates
<1>21. ServiceHasPort'
  <2>1. ASSUME NEW q \in Runtime PROVE KnowsService(q)'
    <3>1. CASE q = p
      BY <1>0, <1>3, <1>5, <1>6, <1>20, <3>1 DEF KnowsService, Mine, Held, StartAt
    <3>2. CASE q # p
      BY <1>0, <1>6, <1>16, <3>2 DEF PortInv, ServiceHasPort, KnowsService, Planning, Lives, Mine, Held, StartAt
    <3> QED
      BY <3>1, <3>2
  <2>2. \A w \in Workspace : PlanFits(w)'
    BY <1>0 DEF PortInv, ServiceHasPort, PlanFits
  <2> QED
    BY <2>1, <2>2 DEF ServiceHasPort
<1> QED
  BY <1>9, <1>12, <1>14, <1>15, <1>17, <1>19, <1>21 DEF PortInv

(* A runtime whose workspace nobody else serves goes on with what it holds. *)
LEMMA GoingStep ==
  ASSUME PortInv, NEW p \in Runtime, Planning(p), NEW place \in {"bind", "run"}, StartGoes(p, place),
         UNCHANGED <<host, services, gone, blind>>,
         \/ runtimes[p].at # "plan" /\ UNCHANGED plans
         \/ plans' = [plans EXCEPT ![Mine(p)] = Held(p)],
         listener' \in [Port -> Runtime \cup Workspace \cup {"none", "other"}]
  PROVE  PortInv'
<1>0. /\ PortTypes /\ runtimes \in [Runtime -> Start] /\ runtimes[p] \in Start /\ Mine(p) \in Workspace
      /\ Held(p) \in Plan /\ Engaged(p)
  BY DEF PortInv, PortTypes, EngagedSomewhere, Start, Held, Planning, Engaged
<1> DEFINE x == [runtimes[p] EXCEPT !.at = place]
<1>1. runtimes' = [runtimes EXCEPT ![p] = x]
  BY <1>0 DEF StartGoes
<1>2. x \in Start /\ x.at = place /\ x.holds = Held(p) /\ x.workspace = Mine(p)
  BY <1>0 DEF Start, Held, Mine
<1> HIDE DEF x
<1>3. runtimes'[p] = x /\ \A q \in Runtime : q # p => runtimes'[q] = runtimes[q]
  BY <1>0, <1>1
<1>4. /\ \A q \in Runtime : Mine(q)' = Mine(q) /\ Held(q)' = Held(q)
      /\ \A q \in Runtime : Planning(q)' => Planning(q)
      /\ \A q \in Runtime : Engaged(q)' => Engaged(q)
      /\ \A q \in Runtime : StartAt(q, "reserve")' => StartAt(q, "reserve") /\ runtimes'[q] = runtimes[q]
  BY <1>0, <1>2, <1>3 DEF Mine, Held, Planning, Engaged, Lives, StartAt
<1>5. PortTypes'
  BY <1>0, <1>1, <1>2 DEF PortTypes
<1>6. (PortsAreUnique /\ OneClaimant /\ MakerOrHeir)'
  BY DEF PortInv, PortsAreUnique, OneClaimant, MakerOrHeir, Lives
<1>7. (~blind => HeldIsReserved)'
  BY <1>4 DEF PortInv, HeldIsReserved, ReservedFor, Planned
<1>8. OneRuntime'
  BY <1>4 DEF PortInv, OneRuntime
<1>9. plans'[Mine(p)] = Held(p) /\ \A w \in Workspace : w # Mine(p) => plans'[w] = plans[w]
  BY <1>0 DEF PortInv, PortTypes, EngagedSomewhere, Planning
<1>10. EngagedSomewhere'
  <2> SUFFICES ASSUME NEW q \in Runtime, Engaged(q)'
               PROVE  /\ Mine(q)' \in Workspace
                      /\ Planning(q)' => Held(q)'.api # 0 /\ (Mine(q)' \in Serving => Held(q)'.svc # 0)
                      /\ runtimes'[q].at \in {"bind", "run"} => plans'[Mine(q)'] = Held(q)'
    BY DEF EngagedSomewhere
  <2>1. runtimes'[q].at \in {"bind", "run"} => plans'[Mine(q)'] = Held(q)'
    <3>1. CASE q = p
      BY <1>4, <1>9, <3>1
    <3>2. CASE q # p
      <4>1. Mine(q) # Mine(p)
        BY <1>0, <1>4, <3>2 DEF PortInv, OneRuntime
      <4> QED
        BY <1>3, <1>4, <1>9, <3>2, <4>1 DEF PortInv, EngagedSomewhere
    <3> QED
      BY <3>1, <3>2
  <2> QED
    BY <1>4, <2>1 DEF PortInv, EngagedSomewhere
<1>11. ServiceHasPort'
  <2>1. ASSUME NEW w \in Workspace PROVE PlanFits(w)'
    BY <1>0, <1>9 DEF PortInv, ServiceHasPort, EngagedSomewhere, PlanFits, KnowsService
  <2>2. ASSUME NEW q \in Runtime PROVE KnowsService(q)'
    BY <1>4 DEF PortInv, ServiceHasPort, KnowsService
  <2> QED
    BY <2>1, <2>2 DEF ServiceHasPort
<1> QED
  BY <1>5, <1>6, <1>7, <1>8, <1>10, <1>11 DEF PortInv

(* What a dead runtime of the workspace had reserved is claimed. *)
LEMMA ClaimKeeps ==
  ASSUME PortInv, NEW p \in Runtime, NEW w \in Workspace, ClaimPlan(p, w)
  PROVE  PortInv'
<1> DEFINE a == plans[w].allocation
           x == [NotStarting EXCEPT !.at = "bind", !.workspace = w, !.holds = plans[w]]
           own == {r \in host : r.allocation = a}
           Heir(r) == IF r.allocation = a THEN [r EXCEPT !.pid = p] ELSE r
<1>0. /\ PortTypes /\ runtimes \in [Runtime -> Start] /\ host \subseteq Entry /\ plans[w] \in Plan
      /\ runtimes[p].at = "idle" /\ Lives(p) /\ \A q \in Runtime : Engaged(q) => Mine(q) # w
      /\ UNCHANGED <<plans, listener, services, gone, blind>>
  BY DEF PortInv, PortTypes, ClaimPlan, StartAt, Lives
<1>1. /\ plans[w].reserved /\ {<<r.endpoint, r.port>> : r \in own} = Planned(plans[w].api, plans[w].svc)
      /\ \A r \in own : ~Lives(r.pid)
      /\ host' = {Heir(r) : r \in host} /\ runtimes' = [runtimes EXCEPT ![p] = x]
  BY DEF ClaimPlan, Claimable
<1>2. x \in Start /\ x.at = "bind" /\ x.workspace = w /\ x.holds = plans[w]
  BY <1>0 DEF NotStarting, Start, NoPlan, Plan
<1> HIDE DEF x
<1>3. runtimes'[p] = x /\ \A q \in Runtime : q # p => runtimes'[q] = runtimes[q]
  BY <1>0, <1>1
<1>4. \A r \in host : /\ Heir(r) \in Entry /\ Heir(r).endpoint = r.endpoint /\ Heir(r).port = r.port
                      /\ Heir(r).allocation = r.allocation
                      /\ Heir(r).pid = IF r.allocation = a THEN p ELSE r.pid
  BY <1>0 DEF Entry
<1>5. \A r \in own : r \in host /\ r.allocation = a /\ ~Lives(r.pid) /\ ~Lives(a)
  BY <1>1 DEF PortInv, MakerOrHeir
<1>6. PortTypes'
  <2> HIDE DEF own, Heir
  <2>1. host' \subseteq Entry
    BY <1>1, <1>4
  <2> QED
    BY <1>0, <1>1, <1>2, <2>1 DEF PortTypes
<1>7. PortsAreUnique'
  <2> HIDE DEF Heir
  <2> SUFFICES ASSUME NEW r \in host, NEW s \in host, Heir(r).port = Heir(s).port PROVE Heir(r) = Heir(s)
    BY <1>1 DEF PortsAreUnique
  <2> QED
    BY <1>4 DEF PortInv, PortsAreUnique
<1>8. OneClaimant'
  <2> HIDE DEF Heir
  <2> SUFFICES ASSUME NEW r \in host, NEW s \in host, Heir(r).allocation = Heir(s).allocation
               PROVE  Heir(r).pid = Heir(s).pid
    BY <1>1 DEF OneClaimant
  <2> QED
    BY <1>4 DEF PortInv, OneClaimant
<1>9. MakerOrHeir'
  <2> HIDE DEF Heir
  <2> SUFFICES ASSUME NEW r \in host PROVE Heir(r).pid = Heir(r).allocation \/ ~Lives(Heir(r).allocation)
    BY <1>0, <1>1 DEF MakerOrHeir, Lives
  <2>1. CASE r.allocation = a
    BY <1>4, <1>5, <2>1
  <2>2. CASE r.allocation # a
    BY <1>4, <2>2 DEF PortInv, MakerOrHeir
  <2> QED
    BY <2>1, <2>2
<1>10. (~blind => HeldIsReserved)'
  <2> SUFFICES ASSUME ~blind', NEW q \in Runtime, Planning(q)', NEW e \in Planned(Held(q).api, Held(q).svc)'
               PROVE  ReservedFor(q, e)' \in host'
    BY DEF HeldIsReserved
  <2>1. CASE q = p
    <3>1. Held(q)' = plans[w] /\ e \in Planned(plans[w].api, plans[w].svc)
      BY <1>2, <1>3, <2>1 DEF Held, Planned
    <3>2. PICK r \in own : e = <<r.endpoint, r.port>>
      BY <1>1, <3>1
    <3>3. Heir(r) = ReservedFor(q, e)'
      BY <1>0, <2>1, <3>1, <3>2 DEF ReservedFor, Entry
    <3> QED
      BY <1>1, <3>2, <3>3
  <2>2. CASE q # p
    <3>1. ~blind /\ Planning(q) /\ runtimes'[q] = runtimes[q]
      BY <1>0, <1>3, <2>2 DEF Planning, Lives
    <3>2. ReservedFor(q, e)' = ReservedFor(q, e) /\ e \in Planned(Held(q).api, Held(q).svc)
      BY <3>1 DEF Planned, Held, ReservedFor
    <3>3. ReservedFor(q, e) \in host /\ ReservedFor(q, e).pid = q
      BY <3>1, <3>2 DEF PortInv, HeldIsReserved, ReservedFor
    <3>4. ReservedFor(q, e).allocation # a
      BY <1>1, <3>1, <3>3 DEF Planning
    <3>5. Heir(ReservedFor(q, e)) = ReservedFor(q, e)
      BY <3>4
    <3> QED
      BY <1>1, <3>2, <3>3, <3>5
  <2> QED
    BY <2>1, <2>2
<1> HIDE DEF own, Heir
<1>11. \A q \in Runtime : Engaged(q)' => q = p \/ (Engaged(q) /\ runtimes'[q] = runtimes[q])
  BY <1>0, <1>3 DEF Engaged, Lives
<1>12. OneRuntime'
  BY <1>0, <1>2, <1>3, <1>11 DEF PortInv, OneRuntime, Mine
<1>13. PlanFits(w)
  BY DEF PortInv, ServiceHasPort
<1>14. EngagedSomewhere'
  <2> SUFFICES ASSUME NEW q \in Runtime, Engaged(q)'
               PROVE  /\ Mine(q)' \in Workspace
                      /\ Planning(q)' => Held(q)'.api # 0 /\ (Mine(q)' \in Serving => Held(q)'.svc # 0)
                      /\ runtimes'[q].at \in {"bind", "run"} => plans'[Mine(q)'] = Held(q)'
    BY DEF EngagedSomewhere
  <2>1. CASE q = p
    BY <1>0, <1>1, <1>2, <1>3, <1>13, <2>1 DEF PlanFits, Mine, Held
  <2>2. CASE q # p
    BY <1>0, <1>3, <1>11, <2>2 DEF PortInv, EngagedSomewhere, Planning, Lives, Mine, Held
  <2> QED
    BY <2>1, <2>2
<1>15. ServiceHasPort'
  <2>1. ASSUME NEW q \in Runtime PROVE KnowsService(q)'
    <3>1. CASE q = p
      BY <1>0, <1>1, <1>2, <1>3, <1>13, <3>1 DEF PlanFits, KnowsService, Mine, Held, StartAt
    <3>2. CASE q # p
      BY <1>0, <1>3, <1>11, <3>2 DEF PortInv, ServiceHasPort, KnowsService, Planning, Lives, Mine, Held, StartAt
    <3> QED
      BY <3>1, <3>2
  <2>2. \A v \in Workspace : PlanFits(v)'
    BY <1>0 DEF PortInv, ServiceHasPort, PlanFits
  <2> QED
    BY <2>1, <2>2 DEF ServiceHasPort
<1> QED
  BY <1>6, <1>7, <1>8, <1>9, <1>10, <1>12, <1>14, <1>15 DEF PortInv

(* A service is launched with the port its runtime holds, which is that of the plan. *)
LEMMA LaunchKeeps ==
  ASSUME PortInv, NEW p \in Runtime, LaunchService(p)
  PROVE  PortInv'
<1> DEFINE w == Mine(p)
           new == [up |-> TRUE, port |-> Held(p).svc]
<1>0. /\ PortTypes /\ StartAt(p, "run") /\ Engaged(p) /\ Planning(p) /\ w \in Workspace /\ w \in Serving
      /\ Held(p) \in Plan /\ Held(p).svc # 0 /\ plans[w] = Held(p)
      /\ services' = [services EXCEPT ![w] = new]
      /\ UNCHANGED <<host, plans, listener, runtimes, gone, blind>>
  BY DEF PortInv, PortTypes, EngagedSomewhere, LaunchService, StartAt, Engaged, Planning, Lives, Start, Held
<1>1. new \in [up : BOOLEAN, port : Port \cup {0}] /\ new.up /\ new.port = Held(p).svc
  BY <1>0 DEF Plan
<1> HIDE DEF new
<1>2. services'[w] = new /\ \A v \in Workspace : v # w => services'[v] = services[v]
  BY <1>0 DEF PortTypes
<1>3. PortTypes'
  BY <1>0, <1>1 DEF PortTypes
<1>4. (PortsAreUnique /\ OneClaimant /\ MakerOrHeir)'
  BY <1>0 DEF PortInv, PortsAreUnique, OneClaimant, MakerOrHeir, Lives
<1>5. (~blind => HeldIsReserved)'
  BY <1>0 DEF PortInv, HeldIsReserved, Planning, Lives, Held, ReservedFor, Planned
<1>6. (OneRuntime /\ EngagedSomewhere)'
  BY <1>0 DEF PortInv, OneRuntime, EngagedSomewhere, Engaged, Lives, Mine, Planning, Held
<1>7. ServiceHasPort'
  <2>1. ASSUME NEW q \in Runtime PROVE KnowsService(q)'
    <3>1. CASE q = p
      BY <1>0, <1>1, <1>2, <3>1 DEF KnowsService, Mine, Held, StartAt
    <3>2. CASE q # p /\ Engaged(q)
      <4>1. Mine(q) # w /\ Mine(q) \in Workspace
        BY <1>0, <3>2 DEF PortInv, OneRuntime, EngagedSomewhere
      <4> QED
        BY <1>0, <1>2, <4>1 DEF PortInv, ServiceHasPort, KnowsService, Engaged, Planning, Lives, Mine, Held, StartAt
    <3>3. CASE ~Engaged(q)
      BY <1>0, <3>3 DEF KnowsService, Engaged, Lives
    <3> QED
      BY <3>1, <3>2, <3>3
  <2>2. ASSUME NEW v \in Workspace PROVE PlanFits(v)'
    BY <1>0, <1>1, <1>2 DEF PortInv, ServiceHasPort, PlanFits
  <2> QED
    BY <2>1, <2>2 DEF ServiceHasPort
<1> QED
  BY <1>3, <1>4, <1>5, <1>6, <1>7 DEF PortInv

LEMMA CrashKeeps ==
  ASSUME PortInv, NEW p \in Runtime, RuntimeDies(p)
  PROVE  PortInv'
<1>0. /\ PortTypes /\ gone' = gone \cup {p} /\ listener' = Unlistened(p)
      /\ UNCHANGED <<host, plans, services, runtimes, blind>>
  BY DEF PortInv, RuntimeDies
<1>1. \A q \in Runtime : /\ Lives(q)' => Lives(q) /\ q # p
                         /\ Mine(q)' = Mine(q) /\ Held(q)' = Held(q)
  BY <1>0 DEF Lives, Mine, Held
<1>2. \A q \in Runtime : /\ Engaged(q)' => Engaged(q)
                         /\ Planning(q)' => Planning(q)
                         /\ StartAt(q, "reserve")' => StartAt(q, "reserve")
  BY <1>0 DEF Engaged, Planning, StartAt, Lives
<1>3. PortTypes'
  BY <1>0, ListenersTyped DEF PortTypes
<1>4. (PortsAreUnique /\ OneClaimant /\ MakerOrHeir)'
  BY <1>0 DEF PortInv, PortsAreUnique, OneClaimant, MakerOrHeir, Lives
<1>5. (~blind => HeldIsReserved)'
  BY <1>0, <1>1, <1>2 DEF PortInv, HeldIsReserved, ReservedFor, Planned
<1>6. (OneRuntime /\ EngagedSomewhere)'
  BY <1>0, <1>1, <1>2 DEF PortInv, OneRuntime, EngagedSomewhere
<1>7. ServiceHasPort'
  BY <1>0, <1>1, <1>2 DEF PortInv, ServiceHasPort, PlanFits, KnowsService
<1> QED
  BY <1>3, <1>4, <1>5, <1>6, <1>7 DEF PortInv

LEMMA InitPorts == PortInit => PortInv
<1> SUFFICES ASSUME PortInit PROVE PortInv
  OBVIOUS
<1>1. PortTypes
  BY DEF PortInit, PortTypes, NoPlan, Plan, NoService, NotStarting, Start
<1>2. \A p \in Runtime : ~Engaged(p) /\ ~Planning(p)
  BY DEF PortInit, Engaged, Planning, NotStarting
<1>3. \A w \in Workspace : PlanFits(w)
  BY DEF PortInit, PlanFits, NoPlan, NoService
<1> QED
  BY <1>1, <1>2, <1>3 DEF PortInv, PortInit, PortsAreUnique, OneClaimant, MakerOrHeir, HeldIsReserved,
     OneRuntime, EngagedSomewhere, ServiceHasPort, KnowsService

LEMMA PortsStay == PortInv /\ [PortNext]_portVars => PortInv'
<1> SUFFICES ASSUME PortInv, [PortNext]_portVars PROVE PortInv'
  OBVIOUS
<1>0. PortTypes
  BY DEF PortInv
<1>1. CASE UNCHANGED portVars
  BY <1>0, <1>1, ListenerStep DEF portVars, PortTypes
<1>2. CASE \E p \in Runtime : \E w \in Workspace : BeginStart(p, w) \/ ClaimPlan(p, w)
  BY <1>2, BeginKeeps, ClaimKeeps
<1>3. CASE \E p \in Runtime : ReservePorts(p) \/ LaunchService(p) \/ RuntimeDies(p)
  BY <1>3, ReserveKeeps, LaunchKeeps, CrashKeeps
<1>4. ASSUME NEW p \in Runtime, Refused(p) PROVE PortInv'
  BY <1>0, <1>4, ListenersTyped, ReturnStep DEF Refused, StartAt, Engaged, Lives
<1>5. ASSUME NEW p \in Runtime, WritePlan(p) PROVE PortInv'
  <2>1. /\ Engaged(p) /\ Planning(p) /\ UNCHANGED <<host, services, gone, blind>>
        /\ listener \in [Port -> Runtime \cup Workspace \cup {"none", "other"}]
    BY <1>0, <1>5 DEF WritePlan, StartAt, Engaged, Planning, Lives, PortTypes
  <2>2. CASE plans' = [plans EXCEPT ![Mine(p)] = Held(p)] /\ StartGoes(p, "bind") /\ UNCHANGED listener
    BY <2>1, <2>2, GoingStep
  <2>3. CASE runtimes' = [runtimes EXCEPT ![p] = NotStarting] /\ listener' = Unlistened(p) /\ UNCHANGED plans
    BY <1>0, <2>1, <2>3, ListenersTyped, ReturnStep
  <2> QED
    BY <1>5, <2>2, <2>3 DEF WritePlan
<1>6. ASSUME NEW p \in Runtime, BindApi(p) PROVE PortInv'
  <2>1. /\ Engaged(p) /\ Planning(p) /\ runtimes[p].at # "plan" /\ UNCHANGED <<services, gone, blind>>
        /\ listener \in [Port -> Runtime \cup Workspace \cup {"none", "other"}]
    BY <1>0, <1>6 DEF BindApi, StartAt, Engaged, Planning, Lives, PortTypes
  <2>2. CASE StartGoes(p, "run") /\ UNCHANGED <<host, plans>> /\ listener' = [listener EXCEPT ![Held(p).api] = p]
    BY <2>1, <2>2, GoingStep
  <2>3. CASE ReleasesPlan(p) /\ runtimes' = [runtimes EXCEPT ![p] = NotStarting] /\ UNCHANGED listener
    BY <2>1, <2>3, ReturnStep DEF ReleasesPlan, Released
  <2> QED
    BY <1>6, <2>2, <2>3 DEF BindApi
<1>7. ASSUME NEW p \in Runtime, Stop(p) PROVE PortInv'
  <2>1. Engaged(p) /\ Planning(p)
    BY <1>7 DEF Stop, StartAt, Engaged, Planning, Lives
  <2> QED
    BY <1>0, <1>7, <2>1, ListenersTyped, ReturnStep DEF Stop, ReleasesPlan, Released
<1>8. ASSUME NEW w \in Workspace, Listen(w) PROVE PortInv'
  <2>1. CASE listener' = [listener EXCEPT ![services[w].port] = w] /\ UNCHANGED services
    BY <1>0, <1>8, <2>1, ListenerStep DEF Listen, PortTypes
  <2>2. CASE services' = [services EXCEPT ![w] = NoService] /\ UNCHANGED listener
    BY <1>0, <1>8, <2>2, ExitStep DEF Listen, PortTypes
  <2> QED
    BY <1>8, <2>1, <2>2 DEF Listen
<1>9. ASSUME NEW w \in Workspace, ServiceExits(w) PROVE PortInv'
  BY <1>0, <1>9, ListenersTyped, ExitStep DEF ServiceExits
<1>10. ASSUME NEW port \in Port, Outsider(port) PROVE PortInv'
  BY <1>0, <1>10, ListenerStep DEF Outsider, PortTypes
<1> QED
  BY <1>1, <1>2, <1>3, <1>4, <1>5, <1>6, <1>7, <1>8, <1>9, <1>10 DEF PortNext

(* For any processes, workspaces and ports: two runtimes that live never hold the same port,    *)
(* whatever died, was claimed, released or planned anew between them, and a service that runs   *)
(* has the port its runtime's plan says; unless a living runtime could not be inspected.        *)
(* (planAndReserveRuntimeEndpoints, claimRuntimeEndpointAllocation)                             *)
THEOREM PortsAreKeptApart == PortSpec => []PortsAreNotShared
<1>1. PortInit => PortInv
  BY InitPorts
<1>2. PortInv /\ [PortNext]_portVars => PortInv'
  BY PortsStay
<1>3. PortInv => PortsAreNotShared
  <2> SUFFICES ASSUME PortInv, ~blind
               PROVE  /\ \A p, q \in Runtime : p # q /\ Holds(p) /\ Holds(q) => Ports(p) \cap Ports(q) = {}
                      /\ \A p \in Runtime : Holds(p) /\ services[Mine(p)].up =>
                                            services[Mine(p)].port = Held(p).svc
    BY DEF PortsAreNotShared
  <2>1. \A p \in Runtime : Holds(p) => Planning(p) /\ Engaged(p)
    BY DEF Holds, Planning, Engaged
  <2>2. ASSUME NEW p \in Runtime, Holds(p), NEW port \in Ports(p)
        PROVE  \E r \in host : r.port = port /\ r.pid = p
    <3>1. port = Held(p).api \/ (port = Held(p).svc /\ port # 0)
      BY <2>2 DEF Ports
    <3>2. PICK name \in {"api", "svc"} : <<name, port>> \in Planned(Held(p).api, Held(p).svc)
      BY <3>1 DEF Planned
    <3>3. ReservedFor(p, <<name, port>>) \in host
      BY <2>1, <2>2, <3>2 DEF PortInv, HeldIsReserved
    <3>4. ReservedFor(p, <<name, port>>).port = port /\ ReservedFor(p, <<name, port>>).pid = p
      BY DEF ReservedFor
    <3> QED
      BY <3>3, <3>4
  <2>3. ASSUME NEW p \in Runtime, NEW q \in Runtime, p # q, Holds(p), Holds(q)
        PROVE  Ports(p) \cap Ports(q) = {}
    BY <2>2, <2>3 DEF PortInv, PortsAreUnique
  <2>4. \A p \in Runtime : Holds(p) /\ services[Mine(p)].up => services[Mine(p)].port = Held(p).svc
    BY <2>1 DEF PortInv, ServiceHasPort, KnowsService
  <2> QED
    BY <2>3, <2>4
<1> QED
  BY <1>1, <1>2, <1>3, PTL DEF PortSpec

-----------------------------------------------------------------------------
(* The cutover of endpoints. *)

PortMaps == UNION {[T -> Nat] : T \in SUBSET Service}

Work == [busy : {TRUE}, plan : [Service -> Nat], done : SUBSET Service,
         before : [Service -> PortMaps], todo : SUBSET Service]

CutoverTypes ==
  /\ refers \subseteq needs /\ needs \subseteq Service \X Service
  /\ ports \in [Service -> Nat]
  /\ configured \subseteq Service /\ running \subseteq Service /\ behind \subseteq Service
  /\ shown \in [Service -> PortMaps] /\ loaded \in [Service -> PortMaps]
  /\ cutover \in {None} \cup Work

(* What a service's files, and its process, say of one it refers to. *)
Names(e, at) ==
  /\ shown[e[1]][e[2]] = at[e[2]]
  /\ e[1] \in running => loaded[e[1]][e[2]] = at[e[2]]

(* A cutover has given their ports to all but those it has still to do, and these are all that
   refer to one whose port changes. *)
CutoverGoesOn ==
  cutover.busy =>
    /\ ~Cyclic
    /\ \A s \in Service \ cutover.todo : ports[s] = cutover.plan[s]
    /\ \A s \in Service \ cutover.done : shown[s] = cutover.before[s]
    /\ \A e \in refers : e[1] \in configured \ cutover.todo =>
         /\ e[1] \notin behind => Names(e, cutover.plan)
         /\ e[1] \notin cutover.done => ports[e[2]] = cutover.plan[e[2]]

CutoverInv == CutoverTypes /\ CutoverGoesOn /\ ConsumersFollow

LEMMA SelectorsTyped ==
  ASSUME NEW s \in Service, NEW at \in [Service -> Nat]
  PROVE  /\ Selectors(s, at) \in PortMaps
         /\ \A t \in Service : <<s, t>> \in refers => Selectors(s, at)[t] = at[t]
<1> DEFINE T == {t \in Service : <<s, t>> \in refers}
<1>1. T \in SUBSET Service
  OBVIOUS
<1>2. Selectors(s, at) \in [T -> Nat]
  BY DEF Selectors
<1>3. Selectors(s, at) \in PortMaps
  BY <1>1, <1>2 DEF PortMaps
<1> QED
  BY <1>3 DEF Selectors

LEMMA NoPortsTyped == NoPorts \in PortMaps
<1>1. NoPorts \in [{} -> Nat]
  BY DEF NoPorts
<1> QED
  BY <1>1 DEF PortMaps

LEMMA UnderWay ==
  ASSUME CutoverTypes, cutover.busy
  PROVE  /\ cutover \in Work /\ cutover.plan \in [Service -> Nat] /\ cutover.done \subseteq Service
         /\ cutover.before \in [Service -> PortMaps] /\ cutover.todo \subseteq Service
<1>1. cutover # None
  BY DEF None
<1>2. cutover \in Work
  BY <1>1 DEF CutoverTypes
<1> QED
  BY <1>2 DEF Work

(* Who refers to a service is cut over with it. *)
LEMMA ReferrersAreImpacted ==
  ASSUME CutoverTypes, NEW e \in refers, e[1] # e[2]
  PROVE  e[1] \in Service /\ e[2] \in Service /\ e[1] \in Impacted(e[2])
<1>1. /\ e \in needs /\ e[1] \in Service /\ e[2] \in Service
      /\ <<e[1], e[2]>> \in refers /\ <<e[1], e[2]>> \in needs
  BY DEF CutoverTypes
<1>2. e[1] \in DirectDependents({e[2]})
  BY <1>1 DEF DirectDependents
<1>3. e[1] \in Dependents(e[2])
  BY <1>1, <1>2 DEF Dependents, WithDependents
<1> QED
  BY <1>1, <1>3 DEF Impacted

(* There is a first one among those that are left. *)
LEMMA DueIsLeft ==
  ASSUME CutoverTypes, cutover.busy, ~Cyclic, cutover.todo # {}
  PROVE  Due \in cutover.todo /\ Due \in Service
<1> DEFINE index == OrderIndex
           Earlier(s) == {n \in Service : n < index[s]}
           F == {Earlier(s) : s \in cutover.todo}
<1>1. index \in [Service -> Service]
  BY DEF Cyclic, OrderIndex
<1>2. cutover.todo \subseteq Service
  BY UnderWay
<1> HIDE DEF index
<1>3. IsWellFoundedOn(StrictSubsetOrdering(Service), SUBSET Service)
  <2>1. IsFiniteSet(Service)
    BY CutoverAssumption, FS_Interval DEF Service
  <2> QED
    BY <2>1, FS_StrictSubsetOrderingWellFounded, FS_FiniteSubsetsOfFinite
<1>4. F \subseteq SUBSET Service /\ F # {}
  OBVIOUS
<1>5. PICK least \in F : \A a \in F : <<a, least>> \notin StrictSubsetOrdering(Service)
  <2> HIDE DEF F
  <2> QED
    BY <1>3, <1>4, WFMin
<1>6. PICK x \in cutover.todo : least = Earlier(x)
  BY <1>5
<1>7. \A t \in cutover.todo : index[x] <= index[t]
  <2> SUFFICES ASSUME NEW t \in cutover.todo, ~(index[x] <= index[t])
               PROVE  FALSE
    OBVIOUS
  <2>1. index[x] \in Service /\ index[t] \in Service /\ index[t] < index[x]
    BY <1>1, <1>2, CutoverAssumption DEF Service
  <2>2. index[t] \in Earlier(x) /\ index[t] \notin Earlier(t)
    BY <2>1 DEF Service
  <2>3. Earlier(t) \subseteq Earlier(x)
    BY <2>1 DEF Service
  <2>4. Earlier(t) \in F /\ Earlier(t) # least
    BY <1>6, <2>2
  <2>5. <<Earlier(t), least>> \in StrictSubsetOrdering(Service)
    BY <1>6, <2>2, <2>3 DEF StrictSubsetOrdering
  <2> QED
    BY <1>5, <2>4, <2>5
<1>8. Due \in cutover.todo
  BY <1>7 DEF Due, index
<1> QED
  BY <1>2, <1>8

LEMMA InitCutover == CutoverInit => CutoverInv
<1> SUFFICES ASSUME CutoverInit
             PROVE  CutoverInv
  OBVIOUS
<1>1. refers \subseteq needs /\ needs \subseteq Service \X Service
  BY CutoverAssumption DEF CutoverInit
<1>2. CutoverTypes
  BY <1>1, NoPortsTyped DEF CutoverInit, CutoverTypes, None
<1> QED
  BY <1>2 DEF CutoverInit, CutoverInv, CutoverGoesOn, ConsumersFollow, None

LEMMA PlanStep ==
  ASSUME CutoverInv, NEW next \in [Service -> 1..Alternatives], PlanCutover(next)
  PROVE  CutoverInv'
<1> DEFINE changed == {s \in Service : next[s] # ports[s]}
           todo == changed \cup UNION {Impacted(o) : o \in changed}
<1>0. CutoverTypes /\ ~cutover.busy /\ ConsumersFollow /\ next \in [Service -> Nat]
  BY DEF CutoverInv, PlanCutover
<1>1. cutover' = [busy |-> TRUE, plan |-> next, done |-> {}, before |-> shown, todo |-> todo]
  BY DEF PlanCutover
<1>2. todo \subseteq Service
  BY DEF Impacted, Dependents, WithDependents
<1> HIDE DEF todo
<1>3. UNCHANGED <<needs, refers, ports, configured, running, shown, loaded, behind>> /\ ~Cyclic
  BY DEF PlanCutover
<1>4. CutoverTypes'
  BY <1>0, <1>1, <1>2, <1>3 DEF CutoverTypes, Work, PortMaps
<1>5. \A s \in Service \ todo : ports[s] = next[s]
  BY DEF todo
<1>6. \A e \in refers : e[1] \notin todo => ports[e[2]] = next[e[2]]
  <2> SUFFICES ASSUME NEW e \in refers, ports[e[2]] # next[e[2]]
               PROVE  e[1] \in todo
    OBVIOUS
  <2>1. e[2] \in changed
    BY <1>0 DEF CutoverTypes
  <2>2. CASE e[1] = e[2]
    BY <2>1, <2>2 DEF todo
  <2>3. CASE e[1] # e[2]
    BY <1>0, <2>1, <2>3, ReferrersAreImpacted DEF todo
  <2> QED
    BY <2>2, <2>3
<1>7. \A e \in refers : e[1] \in configured \ (todo \cup behind) => Names(e, next)
  BY <1>0, <1>6 DEF ConsumersFollow, Names
<1>8. (~Cyclic)'
  BY <1>3 DEF Cyclic, IsOrderIndex
<1>9. CutoverGoesOn'
  BY <1>1, <1>3, <1>5, <1>6, <1>7, <1>8 DEF CutoverGoesOn, Names
<1> QED
  BY <1>1, <1>4, <1>9 DEF CutoverInv, ConsumersFollow

LEMMA StampStep ==
  ASSUME CutoverInv, Stamp
  PROVE  CutoverInv'
<1>0. CutoverTypes /\ CutoverGoesOn /\ cutover.busy /\ ~Cyclic /\ cutover \in Work
  BY UnderWay DEF CutoverInv, Stamp, CutoverGoesOn
<1>1. Due \in cutover.todo /\ Due \in Service /\ Due \notin configured
  BY <1>0, DueIsLeft DEF Stamp
<1> DEFINE d == Due
<1>2. /\ ports' = [ports EXCEPT ![d] = cutover.plan[d]]
      /\ cutover' = [cutover EXCEPT !.todo = @ \ {d}]
      /\ UNCHANGED <<needs, refers, configured, running, shown, loaded, behind>>
  BY DEF Stamp
<1>3. d \in cutover.todo /\ d \in Service /\ d \notin configured
  BY <1>1
<1> HIDE DEF d
<1>4. CutoverTypes'
  BY <1>0, <1>2, <1>3 DEF CutoverTypes, Work, PortMaps
<1>5. (~Cyclic)'
  BY <1>0, <1>2 DEF Cyclic, IsOrderIndex
<1>6. /\ cutover'.busy /\ cutover'.plan = cutover.plan /\ cutover'.done = cutover.done
      /\ cutover'.before = cutover.before /\ cutover'.todo = cutover.todo \ {d}
  BY <1>0, <1>2 DEF Work
<1>7. \A s \in Service : ports'[s] = IF s = d THEN cutover.plan[d] ELSE ports[s]
  BY <1>0, <1>2 DEF CutoverTypes
<1>8. \A e \in refers : e[1] \in Service /\ e[2] \in Service
  BY <1>0 DEF CutoverTypes
<1>9. CutoverGoesOn'
  BY <1>0, <1>2, <1>3, <1>5, <1>6, <1>7, <1>8 DEF CutoverGoesOn, Names
<1> QED
  BY <1>4, <1>6, <1>9 DEF CutoverInv, ConsumersFollow

LEMMA RematerializeStep ==
  ASSUME CutoverInv, Rematerialize
  PROVE  CutoverInv'
<1>0. CutoverTypes /\ CutoverGoesOn /\ cutover.busy /\ ~Cyclic /\ cutover \in Work
  BY UnderWay DEF CutoverInv, Rematerialize, CutoverGoesOn
<1>1. Due \in cutover.todo /\ Due \in Service
  BY <1>0, DueIsLeft DEF Rematerialize
<1> DEFINE d == Due
           files == Selectors(d, cutover.plan)
<1>2. /\ ports' = [ports EXCEPT ![d] = cutover.plan[d]]
      /\ shown' = [shown EXCEPT ![d] = files]
      /\ loaded' = IF d \in running THEN [loaded EXCEPT ![d] = shown'[d]] ELSE loaded
      /\ cutover' = [cutover EXCEPT !.todo = @ \ {d}, !.done = @ \cup {d}]
      /\ behind' = behind \ {d}
      /\ UNCHANGED <<needs, refers, configured, running>>
  BY DEF Rematerialize
<1>3. d \in cutover.todo /\ d \in Service
  BY <1>1
<1> HIDE DEF d
<1>4. files \in PortMaps /\ \A t \in Service : <<d, t>> \in refers => files[t] = cutover.plan[t]
  BY <1>0, <1>3, SelectorsTyped DEF Work
<1> HIDE DEF files
<1>5. /\ cutover'.busy /\ cutover'.plan = cutover.plan /\ cutover'.done = cutover.done \cup {d}
      /\ cutover'.before = cutover.before /\ cutover'.todo = cutover.todo \ {d}
  BY <1>0, <1>2 DEF Work
<1>6. \A s \in Service : /\ ports'[s] = IF s = d THEN cutover.plan[d] ELSE ports[s]
                         /\ shown'[s] = IF s = d THEN files ELSE shown[s]
                         /\ s \in running => loaded'[s] = IF s = d THEN files ELSE loaded[s]
  BY <1>0, <1>2, <1>3 DEF CutoverTypes
<1>7. CutoverTypes'
  <2>1. ports' \in [Service -> Nat] /\ shown' \in [Service -> PortMaps] /\ loaded' \in [Service -> PortMaps]
    BY <1>0, <1>2, <1>3, <1>4 DEF CutoverTypes, Work
  <2>2. cutover' \in Work
    BY <1>0, <1>2, <1>3 DEF Work
  <2>3. PortMaps' = PortMaps /\ Work' = Work
    BY DEF PortMaps, Work
  <2> QED
    BY <1>0, <1>2, <2>1, <2>2, <2>3 DEF CutoverTypes
<1>8. (~Cyclic)'
  BY <1>0, <1>2 DEF Cyclic, IsOrderIndex
<1>9. \A e \in refers : e[1] \in Service /\ e[2] \in Service /\ e = <<e[1], e[2]>>
  BY <1>0 DEF CutoverTypes
<1>10. CutoverGoesOn'
  <2>1. ASSUME NEW e \in refers, e[1] \in configured \ (cutover.todo \ {d})
        PROVE  /\ e[1] \notin behind' => Names(e, cutover.plan)'
               /\ e[1] \notin cutover'.done => ports'[e[2]] = cutover.plan[e[2]]
    <3>1. CASE e[1] = d
      BY <1>2, <1>4, <1>5, <1>6, <1>9, <2>1, <3>1 DEF Names
    <3>2. CASE e[1] # d
      BY <1>0, <1>2, <1>5, <1>6, <1>9, <2>1, <3>2 DEF Names, CutoverGoesOn
    <3> QED
      BY <3>1, <3>2
  <2>2. \A s \in Service \ cutover'.todo : ports'[s] = cutover.plan[s]
    BY <1>0, <1>5, <1>6 DEF CutoverGoesOn
  <2>3. \A s \in Service \ cutover'.done : shown'[s] = cutover.before[s]
    BY <1>0, <1>5, <1>6 DEF CutoverGoesOn
  <2> QED
    BY <1>2, <1>5, <1>8, <2>1, <2>2, <2>3 DEF CutoverGoesOn, Names
<1> QED
  BY <1>5, <1>7, <1>10 DEF CutoverInv, ConsumersFollow

LEMMA CompleteStep ==
  ASSUME CutoverInv, Complete
  PROVE  CutoverInv'
<1>1. CutoverTypes /\ CutoverGoesOn /\ cutover.busy /\ cutover.plan \in [Service -> Nat]
  BY UnderWay DEF CutoverInv, Complete
<1>2. CutoverTypes'
  BY <1>1 DEF Work, Complete, CutoverTypes, PortMaps, None
<1>3. ConsumersFollow'
  BY <1>1 DEF Complete, CutoverGoesOn, ConsumersFollow, Names
<1> QED
  BY <1>2, <1>3 DEF CutoverInv, CutoverGoesOn, Complete, None

(* What a failed cutover restores is as before; what it has not reached is behind. *)
LEMMA FailureStep ==
  ASSUME CutoverInv, NEW touched \in BOOLEAN, NEW stopped \in BOOLEAN, CutoverFails(touched, stopped)
  PROVE  CutoverInv'
<1>0. /\ CutoverTypes /\ CutoverGoesOn /\ cutover.busy /\ ~Cyclic /\ cutover.plan \in [Service -> Nat]
      /\ cutover.before \in [Service -> PortMaps] /\ cutover.todo \subseteq Service
  BY UnderWay DEF CutoverInv, CutoverFails, CutoverGoesOn
<1> DEFINE d == Due
           undone == cutover.done \cup (IF touched THEN {d} ELSE {})
<1>1. touched => d \in cutover.todo /\ d \in Service
  BY <1>0, DueIsLeft DEF CutoverFails
<1>2. /\ stopped => touched
      /\ configured' = configured \ undone
      /\ behind' = (behind \cup cutover.todo) \ undone
      /\ ports' = IF touched THEN [ports EXCEPT ![d] = cutover.plan[d]] ELSE ports
      /\ running' = IF stopped THEN running \ {d} ELSE running
      /\ loaded' = IF stopped THEN [loaded EXCEPT ![d] = NoPorts] ELSE loaded
      /\ shown' = cutover.before /\ cutover' = None
      /\ UNCHANGED <<needs, refers>>
  BY DEF CutoverFails
<1> HIDE DEF d
<1>3. CutoverTypes'
  <2>1. ports' \in [Service -> Nat] /\ loaded' \in [Service -> PortMaps]
    BY <1>0, <1>1, <1>2, NoPortsTyped DEF CutoverTypes
  <2>2. PortMaps' = PortMaps /\ Work' = Work
    BY DEF PortMaps, Work
  <2> QED
    BY <1>0, <1>2, <2>1, <2>2 DEF CutoverTypes
<1>4. ConsumersFollow'
  <2> SUFFICES ASSUME NEW e \in refers, e[1] \in configured' \ behind'
               PROVE  /\ shown'[e[1]][e[2]] = ports'[e[2]]
                      /\ e[1] \in running' => loaded'[e[1]][e[2]] = ports'[e[2]]
    BY <1>2 DEF ConsumersFollow
  <2>1. e[1] \in Service /\ e[2] \in Service
    BY <1>0 DEF CutoverTypes
  <2>2. e[1] \in configured /\ e[1] \notin behind /\ e[1] \notin cutover.todo /\ e[1] \notin cutover.done
    BY <1>2
  <2>3. Names(e, cutover.plan) /\ ports[e[2]] = cutover.plan[e[2]] /\ shown[e[1]] = cutover.before[e[1]]
    BY <1>0, <2>1, <2>2 DEF CutoverGoesOn
  <2>4. ports'[e[2]] = cutover.plan[e[2]]
    BY <1>0, <1>1, <1>2, <2>1, <2>3 DEF CutoverTypes
  <2>5. e[1] \in running' => e[1] \in running /\ loaded'[e[1]] = loaded[e[1]]
    BY <1>0, <1>1, <1>2, <2>1, <2>2 DEF CutoverTypes
  <2> QED
    BY <1>2, <2>3, <2>4, <2>5 DEF Names
<1> QED
  BY <1>2, <1>3, <1>4 DEF CutoverInv, CutoverGoesOn, None

LEMMA ServiceStep ==
  ASSUME CutoverInv, NEW s \in Service, StartService(s) \/ Exit(s)
  PROVE  CutoverInv'
<1>0. CutoverTypes /\ ConsumersFollow /\ ~cutover.busy /\ UNCHANGED <<needs, refers, ports, cutover>>
  BY DEF CutoverInv, StartService, Exit
<1>1. \A e \in refers : e[1] \in Service /\ e[2] \in Service /\ e = <<e[1], e[2]>>
  BY <1>0 DEF CutoverTypes
<1> DEFINE files == Selectors(s, ports)
<1>2. files \in PortMaps /\ \A t \in Service : <<s, t>> \in refers => files[t] = ports[t]
  BY <1>0, SelectorsTyped DEF CutoverTypes
<1>3. PortMaps' = PortMaps /\ Work' = Work
  BY DEF PortMaps, Work
<1>4. CASE StartService(s)
  <2>1. /\ shown' = IF s \in configured THEN shown ELSE [shown EXCEPT ![s] = files]
        /\ loaded' = [loaded EXCEPT ![s] = shown'[s]]
        /\ configured' = configured \cup {s} /\ running' = running \cup {s}
        /\ behind' = IF s \in configured THEN behind ELSE behind \ {s}
    BY <1>4 DEF StartService
  <2> HIDE DEF files
  <2>2. shown' \in [Service -> PortMaps]
    BY <1>0, <1>2, <2>1 DEF CutoverTypes
  <2>3. \A t \in Service : /\ shown'[t] = IF t = s /\ s \notin configured THEN files ELSE shown[t]
                           /\ loaded'[t] = IF t = s THEN shown'[t] ELSE loaded[t]
    BY <1>0, <2>1 DEF CutoverTypes
  <2>4. CutoverTypes'
    <3>1. loaded' \in [Service -> PortMaps]
      BY <1>0, <2>1, <2>2 DEF CutoverTypes
    <3> QED
      BY <1>0, <1>3, <2>1, <2>2, <3>1 DEF CutoverTypes, None
  <2>5. ConsumersFollow'
    <3> SUFFICES ASSUME NEW e \in refers, e[1] \in configured' \ behind'
                 PROVE  /\ shown'[e[1]][e[2]] = ports[e[2]]
                        /\ e[1] \in running' => loaded'[e[1]][e[2]] = ports[e[2]]
      BY <1>0 DEF ConsumersFollow
    <3>1. CASE e[1] = s /\ s \notin configured
      BY <1>1, <1>2, <2>3, <3>1
    <3>2. CASE ~(e[1] = s /\ s \notin configured)
      <4>1. e[1] \in configured \ behind
        BY <2>1, <3>2
      <4> QED
        BY <1>0, <1>1, <2>1, <2>3, <3>2, <4>1 DEF ConsumersFollow
    <3> QED
      BY <3>1, <3>2
  <2> QED
    BY <1>0, <2>4, <2>5 DEF CutoverInv, CutoverGoesOn
<1>5. CASE Exit(s)
  <2>1. CutoverTypes'
    BY <1>0, <1>3, <1>5, NoPortsTyped DEF CutoverTypes, Exit, None
  <2>2. ConsumersFollow'
    BY <1>0, <1>1, <1>5 DEF CutoverTypes, Exit, ConsumersFollow
  <2> QED
    BY <1>0, <2>1, <2>2 DEF CutoverInv, CutoverGoesOn
<1> QED
  BY <1>4, <1>5

(* For any services, dependencies among them, references to those and ports: between two          *)
(* cutovers, whatever failed or died within them, the files and the process of a service name     *)
(* the ports of all it refers to, except for one that a failed cutover had still to do.           *)
(* (planEndpointCutover, executeEndpointCutover)                                                  *)
THEOREM ReferencesAreUpToDate == CutoverSpec => []ConsumersFollow
<1>1. CutoverInv /\ [CutoverNext]_cutoverVars => CutoverInv'
  <2> SUFFICES ASSUME CutoverInv, [CutoverNext]_cutoverVars
               PROVE  CutoverInv'
    OBVIOUS
  <2>1. ASSUME UNCHANGED cutoverVars PROVE CutoverInv'
    BY <2>1 DEF CutoverInv, cutoverVars, CutoverTypes, Work, PortMaps, CutoverGoesOn, ConsumersFollow, Names, None,
                Cyclic, IsOrderIndex
  <2> QED
    BY <2>1, PlanStep, StampStep, RematerializeStep, CompleteStep, FailureStep, ServiceStep DEF CutoverNext
<1>2. CutoverInv => ConsumersFollow
  BY DEF CutoverInv
<1> QED
  BY <1>1, <1>2, InitCutover, PTL DEF CutoverSpec
===============================================================================
