--------------------------- MODULE ExternalTelemetry ---------------------------
(***************************************************************************)
(* Telemetry between the pods of a deployment and the outside: the         *)
(* controllers of ExternalInNetworkTelemetryDeployment, which places the   *)
(* pods and keeps an entry for each, and of                                *)
(* ExternalInNetworkTelemetryEndpoints, which has the telemetry service    *)
(* configured first between the ingress nodes and the outside, then        *)
(* between the ingress nodes and the pods (inc-operator/controllers/       *)
(* external*.go).                                                          *)
(*                                                                         *)
(* Caches, resource versions and passes are those of InternalTelemetry.    *)
(* The resource is not deleted: it has no finalizer, and nothing would be  *)
(* done ("TODO finalizers").  A spec is its monitoring policy; a change of *)
(* the ingress info is treated like one of the policy.                     *)
(*                                                                         *)
(* External: pods, the Deployment that starts them, users who edit the     *)
(* endpoints object, and the telemetry service, which TelemetryIntents     *)
(* specifies; that it refuses a configured intent another collection id is *)
(* added here (kinda-sdn/telemetry/service.go:113).                        *)
(***************************************************************************)
EXTENDS TelemetryIntents, Integers, FiniteSets, SequencesExt

CONSTANTS
    Pod,
    Mortal,         \* bound: the pods that may be deleted
    NetworkDevice,
    Links,          \* device -> the sequence of its neighbours
    Nodes,          \* the devices pods can run on
    IngressNodes,
    IncSwitch,
    AtLeast,        \* requireAtLeastIntDevices: a number, Percentage or NoRequirement
    Policy,         \* the monitoring policy of the resource
    Policies,       \* those the endpoints object may be changed to
    NoPolicy, NoObject,
    MaxFaults,      \* bound on lost calls, refused requests and failing writes
    MaxProgramChanges,  \* bound on switches that are given the required program
    MaxEdits        \* bound on changes of the endpoints object's policy

NoRequirement == -1
Percentage == -2

MonitoringPolicy == {"external-to-pods", "pods-to-external", "all"}
Directions(policy) ==
    CASE policy = "external-to-pods" -> <<"in">>
      [] policy = "pods-to-external" -> <<"out">>
      [] policy = "all" -> <<"in", "out">>

\* BuildIntentId of ingress telemetry.  Requests for pods are sent without an
\* intent id, that is with the empty one, and use theirs as the collection id.
IngressIntent(dir) == IF dir = "in" THEN "ei" ELSE "ie"
PodsIntent == ""
PodsCollection(dir) == IF dir = "in" THEN "ip" ELSE "pi"
Collection == {"external", "ip", "pi"}

ASSUME ExternalAssumption ==
    /\ Mortal \subseteq Pod
    /\ Links \in [NetworkDevice -> Seq(NetworkDevice)]
    /\ IngressNodes \subseteq Nodes /\ Nodes \subseteq NetworkDevice
    /\ IncSwitch \subseteq NetworkDevice
    /\ AtLeast \in Nat \cup {NoRequirement, Percentage}
    /\ Policies \cup {Policy} \subseteq MonitoringPolicy
    /\ Intent = {"ei", "ie", PodsIntent}
    /\ Content = [collection : Collection, pods : SUBSET Pod]
    /\ {MaxFaults, MaxProgramChanges, MaxEdits} \subseteq Nat

VARIABLES
    programmed,     \* the switches that run the required program
    chosen,         \* the nodes the Deployment is restricted to, once it is created
    pod,            \* pod -> waiting, running, gone
    endpoints,      \* the endpoints object
    cached, stale,  \* the cached one; who holds an old version of it
    deplQueued, deplRec,    \* the deployment's pass: queued; step and entries to write
    epQueued, epRec,        \* the endpoints' pass: queued; its state
    faults, edits

clusterVars == <<programmed, chosen, pod>>
objectVars == <<endpoints, cached, stale>>
deplVars == <<deplQueued, deplRec>>
epVars == <<epQueued, epRec>>
boundVars == <<faults, edits>>
vars == <<intentVars, clusterVars, objectVars, deplVars, epVars, boundVars>>

EntryStatus == {"PENDING", "READY", "TERMINATING"}
Entries == UNION {[ps -> EntryStatus] : ps \in SUBSET Pod}
Endpoints ==
    [entries : Entries, policy : MonitoringPolicy,
     ext : MonitoringPolicy \cup {NoPolicy}, int : MonitoringPolicy \cup {NoPolicy}]

ASSUME NoObjectAssumption == NoObject \notin Endpoints

NoEntries == [p \in {} |-> "READY"]

DeplIdle == [pc |-> "idle", entries |-> NoEntries]
EpIdle == [pc |-> "idle", dir |-> 1, copy |-> NoObject, targets |-> {}, waiting |-> FALSE]

Exists == endpoints # NoObject

Init ==
    /\ IntentsInit
    /\ programmed = {} /\ chosen = {}
    /\ pod = [p \in Pod |-> "waiting"]
    /\ endpoints = NoObject /\ cached = NoObject /\ stale = {}
    /\ deplQueued = TRUE /\ deplRec = DeplIdle
    /\ epQueued = FALSE /\ epRec = EpIdle
    /\ faults = 0 /\ edits = 0

Fault == faults < MaxFaults /\ faults' = faults + 1 /\ UNCHANGED edits
NoFault == UNCHANGED boundVars
-----------------------------------------------------------------------------
(* The API server, the cache and the cluster *)

Holders == {"cache", "deplRec", "epRec"}

\* The writer's own copy becomes the new version.
Write(object, writer) ==
    endpoints' = object /\ stale' = Holders \ {writer} /\ UNCHANGED cached

Read(holder) ==
    /\ stale' = IF "cache" \in stale THEN stale \cup {holder} ELSE stale \ {holder}
    /\ UNCHANGED <<endpoints, cached>>

\* The endpoints object is watched by both controllers.
Sync ==
    /\ "cache" \in stale
    /\ cached' = endpoints
    /\ stale' = stale \ {"cache"}
    /\ epQueued' = TRUE /\ deplQueued' = TRUE
    /\ UNCHANGED <<intentVars, clusterVars, endpoints, deplRec, epRec, boundVars>>

\* Mutant: pods are not watched.
PodChanges_Unwatched(p, from, to) ==
    /\ pod[p] = from
    /\ pod' = [pod EXCEPT ![p] = to]
    /\ UNCHANGED <<intentVars, programmed, chosen, objectVars, deplVars, epVars, boundVars>>

\* findDeploymentOfManagedPods: pods are watched.
PodChanges(p, from, to) ==
    /\ pod[p] = from
    /\ pod' = [pod EXCEPT ![p] = to]
    /\ deplQueued' = TRUE
    /\ UNCHANGED <<intentVars, programmed, chosen, objectVars, deplRec, epVars, boundVars>>

PodStarts(p) == chosen # {} /\ PodChanges(p, "waiting", "running")
PodGoes(p) == p \in Mortal /\ PodChanges(p, "running", "gone")

\* A switch is given the required program; nobody is told.
ProgramChanges(s) ==
    /\ s \in IncSwitch \ programmed
    /\ Cardinality(programmed) < MaxProgramChanges
    /\ programmed' = programmed \cup {s}
    /\ UNCHANGED <<intentVars, chosen, pod, objectVars, deplVars, epVars, boundVars>>

\* The resource is resynchronized, touched or read for the first time.
Trigger ==
    /\ chosen = {}
    /\ deplQueued' = TRUE
    /\ UNCHANGED <<intentVars, clusterVars, objectVars, deplRec, epVars, boundVars>>

Edit(policy) ==
    /\ edits < MaxEdits
    /\ edits' = edits + 1 /\ UNCHANGED faults
    /\ Exists
    /\ Write([endpoints EXCEPT !.policy = policy], "user")
    /\ UNCHANGED <<intentVars, clusterVars, deplVars, epVars>>
-----------------------------------------------------------------------------
(* The pass of the ExternalInNetworkTelemetryDeployment *)

DeplStart == deplRec.pc = "idle" /\ deplQueued

\* traverseTopology: device -> the way to it from the start, the start first and
\* the device left out.
Ways(start) ==
    LET Visit(s) ==
            LET cur == Head(s.queue)
                fresh == SelectSeq(Links[cur], LAMBDA d : d \notin DOMAIN s.ways)
            IN [queue |-> Tail(s.queue) \o fresh,
                ways |-> [d \in ToSet(fresh) |-> Append(s.ways[cur], cur)] @@ s.ways]
        search[k \in 0 .. Cardinality(NetworkDevice)] ==
            IF k = 0 THEN [queue |-> <<start>>, ways |-> start :> <<>>]
            ELSE LET s == search[k - 1] IN IF s.queue = <<>> THEN s ELSE Visit(s)
    IN search[Cardinality(NetworkDevice)].ways

\* Every name is mapped to the loop's one variable (the module is compiled as Go
\* 1.21), that is to the switch listed last, whatever its name.
LoadSwitches(last) == [name \in IncSwitch |-> last]

countIncSwitchesOnPathWithRequiredProgram(path, switches) ==
    Cardinality({k \in DOMAIN path : path[k] \in IncSwitch /\ switches[path[k]] \in programmed})

\* A percentage cannot be told from a number (HasSuffix has its arguments the
\* wrong way round), is no number, and is taken as met.
pathCompliesWithRequirement(path, switches) ==
    \/ AtLeast \in {NoRequirement, Percentage}
    \/ /\ Len(path) >= AtLeast
       /\ countIncSwitchesOnPathWithRequiredProgram(path, switches) >= AtLeast

pickFeasibleNodes(switches) ==
    {n \in Nodes : \E i \in IngressNodes : pathCompliesWithRequirement(Ways(i)[n], switches)}

\* "No feasible nodes": the pass ends, and neither topology nor switches are
\* watched.
DeplReturn ==
    /\ DeplStart /\ chosen = {}
    /\ \E last \in IncSwitch : pickFeasibleNodes(LoadSwitches(last)) = {}
    /\ deplQueued' = FALSE
    /\ UNCHANGED <<intentVars, clusterVars, objectVars, deplRec, epVars, boundVars>>

\* Switches are listed in any order.
CreateDeployment ==
    /\ DeplStart /\ chosen = {}
    /\ \E last \in IncSwitch : LET feasible == pickFeasibleNodes(LoadSwitches(last)) IN
        /\ feasible # {}
        /\ \/ chosen' = feasible /\ NoFault
           \/ UNCHANGED chosen /\ Fault
    /\ UNCHANGED <<intentVars, programmed, pod, objectVars, deplVars, epVars>>

CreateEndpoints ==
    /\ DeplStart /\ chosen # {}
    /\ cached = NoObject /\ ~Exists
    /\ Write([entries |-> NoEntries, policy |-> Policy, ext |-> NoPolicy, int |-> NoPolicy], "none")
    /\ UNCHANGED <<intentVars, clusterVars, deplVars, epVars, boundVars>>

\* Entries of pods that are not listed are marked TERMINATING and stay; running
\* pods get a PENDING entry, the others keep theirs.
reconcileEndpoints(entries, listed) ==
    [p \in DOMAIN entries \cup listed |->
        CASE p \notin listed -> "TERMINATING"
          [] p \in listed /\ p \in DOMAIN entries -> entries[p]
          [] p \in listed /\ p \notin DOMAIN entries -> "PENDING"]

\* The list is one of the cache's, which does not fail.
ListPods ==
    /\ DeplStart /\ chosen # {} /\ cached # NoObject
    /\ LET new == reconcileEndpoints(cached.entries, {p \in Pod : pod[p] = "running"})
       IN deplRec' = IF new = cached.entries THEN DeplIdle ELSE [pc |-> "update", entries |-> new]
    /\ Read("deplRec")
    /\ deplQueued' = FALSE
    /\ UNCHANGED <<intentVars, clusterVars, epVars, boundVars>>

UpdateEntries ==
    /\ deplRec.pc = "update"
    /\ deplRec' = DeplIdle
    /\ \/ /\ "deplRec" \notin stale
          /\ Write([endpoints EXCEPT !.entries = deplRec.entries], "deplRec")
          /\ UNCHANGED deplQueued /\ NoFault
       \/ /\ IF "deplRec" \notin stale THEN Fault ELSE NoFault
          /\ deplQueued' = TRUE
          /\ UNCHANGED objectVars
    /\ UNCHANGED <<intentVars, clusterVars, epVars>>
-----------------------------------------------------------------------------
(* The pass of the ExternalInNetworkTelemetryEndpoints *)

EpStart == epRec.pc = "idle" /\ epQueued

EpEnd(again) == epRec' = EpIdle /\ epQueued' = (again \/ epQueued)
EpGoTo(step, copy) == epRec' = [EpIdle EXCEPT !.pc = step, !.copy = copy] /\ UNCHANGED epQueued

\* Mutant: ingress telemetry is configured once, whatever becomes of the spec.
EpBegin_Once ==
    /\ EpStart /\ cached # NoObject
    /\ epRec' = [EpIdle EXCEPT !.pc = IF cached.ext = NoPolicy THEN "ingress" ELSE "entries",
                               !.copy = cached]
    /\ epQueued' = FALSE
    /\ Read("epRec")
    /\ UNCHANGED <<intentVars, clusterVars, deplVars, boundVars>>

\* Ingress telemetry comes first, if its status is not that of the spec.
EpBegin ==
    /\ EpStart /\ cached # NoObject
    /\ epRec' = [EpIdle EXCEPT !.pc = IF cached.policy # cached.ext THEN "ingress" ELSE "entries",
                               !.copy = cached]
    /\ epQueued' = FALSE
    /\ Read("epRec")
    /\ UNCHANGED <<intentVars, clusterVars, deplVars, boundVars>>

Direction == Directions(epRec.copy.policy)[epRec.dir]

\* The answer OK: on to the other direction, or to the given step.
NextDirection(step) ==
    /\ epRec' = IF epRec.dir < Len(Directions(epRec.copy.policy))
                THEN [epRec EXCEPT !.dir = @ + 1, !.waiting = FALSE]
                ELSE [epRec EXCEPT !.pc = step, !.dir = 1, !.waiting = FALSE]
    /\ UNCHANGED epQueued

\* Mutant: IN_PROGRESS is not waited for.
Send_Hopes(i, content, step) ==
    \/ IsBusy(i) /\ NextDirection(step) /\ UNCHANGED intentVars
    \/ /\ Accept(i, "configure", content)
       /\ epRec' = [epRec EXCEPT !.waiting = TRUE]
       /\ UNCHANGED epQueued

\* A busy intent is answered IN_PROGRESS, which ends the pass.
Send(i, content, step) ==
    \/ IsBusy(i) /\ EpEnd(TRUE) /\ UNCHANGED intentVars
    \/ /\ Accept(i, "configure", content)
       /\ epRec' = [epRec EXCEPT !.waiting = TRUE]
       /\ UNCHANGED epQueued

SendIngress ==
    /\ epRec.pc = "ingress" /\ ~epRec.waiting
    /\ Send(IngressIntent(Direction), [collection |-> "external", pods |-> {}], "ingressStatus")
    /\ UNCHANGED <<clusterVars, objectVars, deplVars, boundVars>>

\* The call fails, its answer is lost or the ingress service is not found: the
\* error is dropped (continueReconciliation is still true), the pass goes on
\* with the pods.
IngressFails ==
    /\ epRec.pc = "ingress"
    /\ EpGoTo("entries", epRec.copy) /\ Fault
    /\ UNCHANGED <<intentVars, clusterVars, objectVars, deplVars>>

\* A status is written like the object, with its version.
WriteStatus(object) ==
    /\ \/ /\ "epRec" \notin stale
          /\ Write(object, "epRec")
          /\ NoFault
       \/ /\ IF "epRec" \notin stale THEN Fault ELSE NoFault
          /\ UNCHANGED objectVars
    /\ EpEnd(TRUE)
    /\ UNCHANGED <<intentVars, clusterVars, deplVars>>

WriteIngressStatus ==
    /\ epRec.pc = "ingressStatus"
    /\ WriteStatus([epRec.copy EXCEPT !.ext = epRec.copy.policy])

Targets(entries) == {p \in DOMAIN entries : entries[p] # "TERMINATING"}

\* The addresses of the pods are looked up first: a pod that has gone fails the
\* pass, even when nothing has changed.
CheckEntries ==
    LET copy == epRec.copy
        targets == Targets(copy.entries)
        changed == copy.policy # copy.int \/ \E p \in DOMAIN copy.entries : copy.entries[p] # "READY"
    IN /\ epRec.pc = "entries"
       /\ \/ /\ \E p \in targets : pod[p] = "gone"
             /\ EpEnd(TRUE)
          \/ /\ \A p \in targets : pod[p] # "gone"
             /\ \/ ~changed /\ EpEnd(FALSE)
                \/ changed /\ epRec' = [epRec EXCEPT !.pc = "pods", !.targets = targets]
                           /\ UNCHANGED epQueued
       /\ UNCHANGED <<intentVars, clusterVars, objectVars, deplVars, boundVars>>

SendPods ==
    /\ epRec.pc = "pods" /\ ~epRec.waiting
    /\ Send(PodsIntent, [collection |-> PodsCollection(Direction), pods |-> epRec.targets], "update")
    /\ UNCHANGED <<clusterVars, objectVars, deplVars, boundVars>>

PodsFail ==
    /\ epRec.pc = "pods"
    /\ EpEnd(TRUE) /\ Fault
    /\ UNCHANGED <<intentVars, clusterVars, objectVars, deplVars>>

\* Every entry becomes ready, those being terminated too.
UpdateReady ==
    LET ready == [epRec.copy EXCEPT !.entries = [p \in DOMAIN @ |-> "READY"]]
    IN /\ epRec.pc = "update"
       /\ \/ /\ "epRec" \notin stale
             /\ Write(ready, "epRec")
             /\ EpGoTo("podsStatus", ready) /\ NoFault
          \/ /\ IF "epRec" \notin stale THEN Fault ELSE NoFault
             /\ EpEnd(TRUE)
             /\ UNCHANGED objectVars
       /\ UNCHANGED <<intentVars, clusterVars, deplVars>>

WritePodsStatus ==
    /\ epRec.pc = "podsStatus"
    /\ WriteStatus([epRec.copy EXCEPT !.int = epRec.copy.policy])
-----------------------------------------------------------------------------
(* The telemetry service *)

\* "Changing collection id is unsupported"
IsRefused(i) == config[i] # Nothing /\ config[i].collection # asked[i].collection

\* Mutant: a refused request is answered OK.
Answer_Believes(i, ok) ==
    CASE epRec.waiting /\ epRec.pc = "ingress" /\ IngressIntent(Direction) = i ->
            NextDirection("ingressStatus")
      [] epRec.waiting /\ epRec.pc = "pods" /\ i = PodsIntent -> NextDirection("update")
      [] OTHER -> UNCHANGED epVars

\* A client that still waits is answered: OK, or FAILED, which ends its pass.
Answer(i, ok) ==
    CASE epRec.waiting /\ epRec.pc = "ingress" /\ IngressIntent(Direction) = i ->
            IF ok THEN NextDirection("ingressStatus") ELSE EpEnd(TRUE)
      [] epRec.waiting /\ epRec.pc = "pods" /\ i = PodsIntent ->
            IF ok THEN NextDirection("update") ELSE EpEnd(TRUE)
      [] OTHER -> UNCHANGED epVars

Serve(i) ==
    /\ IsBusy(i)
    /\ \/ ~IsRefused(i) /\ Finish(i, TRUE) /\ Answer(i, TRUE) /\ NoFault
       \/ Finish(i, FALSE) /\ Answer(i, FALSE) /\ IF IsRefused(i) THEN NoFault ELSE Fault
    /\ UNCHANGED <<clusterVars, objectVars, deplVars>>
-----------------------------------------------------------------------------
DeploymentPass ==
    DeplReturn \/ CreateDeployment \/ CreateEndpoints \/ ListPods \/ UpdateEntries

EndpointsPass ==
    \/ EpBegin
    \/ SendIngress \/ WriteIngressStatus
    \/ CheckEntries \/ SendPods \/ UpdateReady \/ WritePodsStatus

Faults == IngressFails \/ PodsFail

Cluster ==
    \/ \E p \in Pod : PodStarts(p) \/ PodGoes(p)
    \/ \E s \in IncSwitch : ProgramChanges(s)
    \/ Trigger
    \/ \E policy \in Policies : Edit(policy)

Next ==
    \/ Sync \/ DeploymentPass \/ EndpointsPass
    \/ \E i \in Intent : Serve(i)
    \/ Faults \/ Cluster

Spec == Init /\ [][Next]_vars

\* Passes that are queued are run to their end, the cache catches up, and
\* requests end (RequestsEnd of TelemetryService).
FairSpec ==
    /\ Spec
    /\ WF_vars(Sync) /\ WF_vars(DeploymentPass) /\ WF_vars(EndpointsPass)
    /\ \A i \in Intent : WF_vars(Serve(i))
-----------------------------------------------------------------------------
\* A status says what the service has been configured for: the pass that writes
\* it works with a copy while the spec is edited, answers are lost, requests are
\* refused or served late, and intents are shared by requests.
StatusIsTrue ==
    Exists =>
        /\ endpoints.ext # NoPolicy =>
              \A dir \in ToSet(Directions(endpoints.ext)) : config[IngressIntent(dir)] # Nothing
        /\ endpoints.int # NoPolicy =>
              /\ config[PodsIntent] # Nothing
              /\ \A dir \in ToSet(Directions(endpoints.int)) :
                    config[PodsIntent].collection = PodsCollection(dir)

\* A running pod whose entry says READY has telemetry, although the pass that
\* says so makes every entry of its copy ready, also those it has left out
\* because they are being terminated.
ReadyIsMeasured ==
    Exists =>
        \A p \in DOMAIN endpoints.entries :
            endpoints.entries[p] = "READY" /\ pod[p] = "running" =>
                config[PodsIntent] # Nothing /\ p \in config[PodsIntent].pods

\* The telemetry between ingress and outside is configured as the spec says, if
\* no call fails: the error of a failed one is dropped and, unless an entry
\* changes, nobody tries again.
IngressIsConfigured ==
    (Exists /\ faults = 0) ~> (faults > 0 \/ (Exists /\ endpoints.ext = endpoints.policy))

IsReady(p) == Exists /\ p \in DOMAIN endpoints.entries /\ endpoints.entries[p] = "READY"

\* "INC resources are ready for those pods (if pods are running) - we delegate
\* this to endpoints controller"
\* (externalinnetworktelemetrydeployment_controller.go:408): a running pod gets
\* ready, if the endpoints' policy stays what it was; a later one is refused,
\* as the requests of both policies use the empty intent id.
RunningPodsGetReady ==
    \A p \in Pod : pod[p] = "running" ~> pod[p] # "running" \/ edits > 0 \/ IsReady(p)

\* "at this point we must have assured that if there are any pods they must have
\* been initially placed at valid positions"
\* (externalinnetworktelemetrydeployment_controller.go): a node that pods may
\* run on has the required number of switches with the required program on its
\* way from an ingress node.  Switches are given the program, never deprived of
\* it, so what holds no longer has not held when the node was chosen.
PodsAreWellPlaced ==
    AtLeast >= 0 =>
        \A n \in chosen : \E i \in IngressNodes :
            Cardinality({k \in DOMAIN Ways(i)[n] : Ways(i)[n][k] \in programmed}) >= AtLeast
=============================================================================
