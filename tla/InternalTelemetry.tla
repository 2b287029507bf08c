--------------------------- MODULE InternalTelemetry ---------------------------
(***************************************************************************)
(* Telemetry between the pods of two deployments: the controllers of       *)
(* InternalInNetworkTelemetryDeployment, which keeps an entry per pod, and *)
(* of InternalInNetworkTelemetryEndpoints, which has the telemetry service *)
(* configured for the entries (inc-operator/controllers/internal*.go).     *)
(*                                                                         *)
(* Both controllers read a cache that follows the API server and write     *)
(* with the resource version they have read: a write based on an old       *)
(* version is refused, and the pass starts again.  "stale" names the       *)
(* holders of an old version of the endpoints object.  An error before     *)
(* anything has been sent or written only queues the pass again, so it is  *)
(* no action.                                                              *)
(*                                                                         *)
(* External: pods, their Deployments and the garbage collector of          *)
(* Kubernetes, the collector (its condition), and the telemetry service,   *)
(* which TelemetryIntents specifies.  A lost answer leaves the service     *)
(* working on a request whose client has gone.                             *)
(***************************************************************************)
EXTENDS TelemetryIntents, Naturals

CONSTANTS
    Pod,
    Mortal,         \* bound: the pods that may be deleted
    Deployments,    \* the names of the two deployments, in the order of the spec
    DeploymentOf,   \* pod -> its deployment
    NoObject,       \* the endpoints object does not exist
    MaxFaults,      \* bound on lost calls, refused requests and failing writes
    MaxCollectorChanges     \* bound on how often the collector comes and goes

PairedDeployments == << <<Deployments[1], Deployments[2]>>, <<Deployments[2], Deployments[1]>> >>

ASSUME InternalAssumption ==
    /\ DeploymentOf \in [Pod -> {Deployments[1], Deployments[2]}]
    /\ Intent = {PairedDeployments[1], PairedDeployments[2]}
    /\ Content = SUBSET Pod
    /\ Mortal \subseteq Pod
    /\ MaxFaults \in Nat
    /\ MaxCollectorChanges \in Nat

VARIABLES
    deleted,        \* the InternalInNetworkTelemetryDeployment is gone or marked for
                    \* deletion, which makes no difference to its controllers
    deletedSeen,    \* so it is in the cache
    deployments,    \* the Deployments that exist
    pod,            \* pod -> waiting, running, terminating (still listed), gone
    collectorChanges,   \* how often the collector has come or gone; it starts unavailable
    endpoints,      \* the endpoints object: its entries, marked for deletion or not
    cached,         \* the cached one
    stale,          \* who holds an old version of it: cache, deplRec, epRec
    deplQueued,     \* the deployment's pass is queued
    deplRec,        \* its state: the step it is at, the entries it is about to write
    epQueued,       \* the endpoints' pass is queued
    epRec,          \* its state: step, pair, object read, retry, waiting for an answer
    abandoned,      \* the intents whose disabling failed after it had been accepted
    faults

clusterVars == <<deleted, deletedSeen, deployments, pod, collectorChanges>>
objectVars == <<endpoints, cached, stale>>
deplVars == <<deplQueued, deplRec>>
epVars == <<epQueued, epRec>>
vars == <<intentVars, clusterVars, objectVars, deplVars, epVars, abandoned, faults>>

EntryStatus == {"PENDING", "READY", "TERMINATING"}
Entries == UNION {[ps -> EntryStatus] : ps \in SUBSET Pod}
Endpoints == [entries : Entries, marked : BOOLEAN]

ASSUME NoObjectAssumption == NoObject \notin Endpoints

NoEntries == [p \in {} |-> "READY"]

DeplIdle == [pc |-> "idle", entries |-> NoEntries]
EpIdle == [pc |-> "idle", pair |-> 1, copy |-> NoObject, retry |-> FALSE, waiting |-> FALSE]

Exists == endpoints # NoObject

Init ==
    /\ IntentsInit
    /\ deleted = FALSE /\ deletedSeen = FALSE
    /\ deployments = {}
    /\ pod = [p \in Pod |-> "waiting"]
    /\ collectorChanges = 0
    /\ endpoints = NoObject /\ cached = NoObject /\ stale = {}
    /\ deplQueued = TRUE /\ deplRec = DeplIdle
    /\ epQueued = FALSE /\ epRec = EpIdle
    /\ abandoned = {}
    /\ faults = 0

Fault == faults < MaxFaults /\ faults' = faults + 1
NoFault == UNCHANGED faults
-----------------------------------------------------------------------------
(* The API server and the cache *)

Holders == {"cache", "deplRec", "epRec"}

Write(object) == endpoints' = object /\ stale' = Holders /\ UNCHANGED cached

\* The holder's copy is as old or as new as the cache it is made from.
Read(holder) ==
    /\ stale' = IF "cache" \in stale THEN stale \cup {holder} ELSE stale \ {holder}
    /\ UNCHANGED <<endpoints, cached>>

\* The cache catches up; the watch queues the endpoints' pass.
Sync ==
    /\ "cache" \in stale
    /\ cached' = endpoints
    /\ stale' = stale \ {"cache"}
    /\ epQueued' = TRUE
    /\ UNCHANGED <<intentVars, clusterVars, endpoints, deplVars, epRec, abandoned, faults>>

SyncDeployment ==
    /\ deletedSeen # deleted
    /\ deletedSeen' = deleted
    /\ deplQueued' = TRUE
    /\ UNCHANGED <<intentVars, deleted, deployments, pod, collectorChanges, objectVars, deplRec,
                   epVars, abandoned, faults>>
-----------------------------------------------------------------------------
(* The cluster *)

\* A pod of an existing deployment starts to run, is being deleted, and is
\* gone.  The first two change the status of its Deployment, which queues the
\* deployment's pass (Owns); the last one does not: pods are not watched.
PodChanges(p, from, to) ==
    /\ pod[p] = from
    /\ pod' = [pod EXCEPT ![p] = to]
    /\ UNCHANGED <<intentVars, deleted, deletedSeen, deployments, collectorChanges, objectVars,
                   deplRec, epVars, abandoned, faults>>

PodStarts(p) ==
    /\ DeploymentOf[p] \in deployments
    /\ PodChanges(p, "waiting", "running")
    /\ deplQueued' = TRUE

PodTerminates(p) == p \in Mortal /\ PodChanges(p, "running", "terminating") /\ deplQueued' = TRUE

PodGoes(p) == PodChanges(p, "terminating", "gone") /\ UNCHANGED deplQueued

Available == collectorChanges % 2 = 1

\* The collector becomes available, or it no longer is; its watch finds the
\* endpoints that use it.
findEndpointsThatUseCollector ==
    /\ collectorChanges < MaxCollectorChanges
    /\ collectorChanges' = collectorChanges + 1
    /\ epQueued' = TRUE
    /\ UNCHANGED <<intentVars, deleted, deletedSeen, deployments, pod, objectVars, deplVars,
                   epRec, abandoned, faults>>

\* The user deletes the resource.  The garbage collector deletes what it owns:
\* the Deployments, which shows in their pods, and the endpoints object, which
\* its finalizer keeps.
Delete ==
    /\ ~deleted
    /\ deleted' = TRUE
    /\ UNCHANGED <<intentVars, deletedSeen, deployments, pod, collectorChanges, objectVars,
                   deplVars, epVars, abandoned, faults>>

CollectEndpoints ==
    /\ deleted
    /\ Exists /\ ~endpoints.marked
    /\ Write([endpoints EXCEPT !.marked = TRUE])
    /\ UNCHANGED <<intentVars, clusterVars, deplVars, epVars, abandoned, faults>>
-----------------------------------------------------------------------------
(* The pass of the InternalInNetworkTelemetryDeployment *)

DeplStart == deplRec.pc = "idle" /\ deplQueued

\* Deleted or marked for deletion: nothing is left to do.
DeplReturn ==
    /\ DeplStart /\ deletedSeen
    /\ deplQueued' = FALSE
    /\ UNCHANGED <<intentVars, clusterVars, objectVars, deplRec, epVars, abandoned, faults>>

Missing == {Deployments[1], Deployments[2]} \ deployments

createDeploymentForIntdepl(names) == deployments' = deployments \cup names

\* The missing Deployments are created, up to the one that fails; requeued.
CreateDeployments ==
    /\ DeplStart /\ ~deletedSeen
    /\ Missing # {}
    /\ \E new \in SUBSET Missing :
        /\ createDeploymentForIntdepl(new)
        /\ IF new = Missing THEN NoFault ELSE Fault
    /\ UNCHANGED <<intentVars, deleted, deletedSeen, pod, collectorChanges, objectVars, deplVars,
                   epVars, abandoned>>

\* The endpoints object is created, with its finalizer, and the pass requeued;
\* one that the cache does not know yet makes that fail, with the same effect.
CreateEndpoints ==
    /\ DeplStart /\ ~deletedSeen /\ Missing = {}
    /\ cached = NoObject /\ ~Exists
    /\ Write([entries |-> NoEntries, marked |-> FALSE])
    /\ UNCHANGED <<intentVars, clusterVars, deplVars, epVars, abandoned, faults>>

Listed == {p \in Pod : pod[p] \in {"running", "terminating"}}

\* Mutant: the entry of a pod that has gone is dropped at once.
reconcileDeploymentEndpointEntries_Drops(entries) ==
    [p \in Listed |-> IF p \in DOMAIN entries THEN entries[p] ELSE "PENDING"]

\* Entries of pods that are no longer listed are marked TERMINATING, running
\* pods get a PENDING entry, the others keep theirs.  (A pod that is being
\* deleted is still listed as running.)
reconcileDeploymentEndpointEntries(entries) ==
    [p \in DOMAIN entries \cup Listed |->
        CASE p \notin Listed -> "TERMINATING"
          [] p \in Listed /\ p \in DOMAIN entries -> entries[p]
          [] p \in Listed /\ p \notin DOMAIN entries -> "PENDING"]

\* The pass reads endpoints and pods and works out the new entries.
ListPods ==
    LET new == reconcileDeploymentEndpointEntries(cached.entries)
    IN /\ DeplStart /\ ~deletedSeen /\ Missing = {}
       /\ cached # NoObject
       /\ Read("deplRec")
       /\ deplQueued' = FALSE
       /\ deplRec' = IF new = cached.entries THEN DeplIdle ELSE [pc |-> "update", entries |-> new]
       /\ UNCHANGED <<intentVars, clusterVars, epVars, abandoned, faults>>

\* Writing them is refused if the object has changed since; an object that has
\* gone is ignored.
UpdateEntries ==
    /\ deplRec.pc = "update"
    /\ deplRec' = DeplIdle
    /\ \/ /\ Exists /\ "deplRec" \notin stale
          /\ Write([endpoints EXCEPT !.entries = deplRec.entries])
          /\ UNCHANGED deplQueued /\ NoFault
       \/ /\ IF Exists /\ "deplRec" \notin stale THEN Fault ELSE NoFault
          /\ deplQueued' = (deplQueued \/ Exists)
          /\ UNCHANGED objectVars
    /\ UNCHANGED <<intentVars, clusterVars, epVars, abandoned>>
-----------------------------------------------------------------------------
(* The pass of the InternalInNetworkTelemetryEndpoints *)

EpStart == epRec.pc = "idle" /\ epQueued

EpGoTo(step) == epRec' = [epRec EXCEPT !.pc = step, !.pair = 1, !.copy = cached]
EpEnd(again) == epRec' = EpIdle /\ epQueued' = (again \/ epQueued)

Changed(entries) == \E p \in DOMAIN entries : entries[p] \in {"PENDING", "TERMINATING"}

\* Nothing to do: the object has gone, or nothing has changed, or the collector
\* is not ready (when it is, its watch queues the pass).  Without a collector
\* the pass fails and is queued again.
EpReturn ==
    /\ EpStart
    /\ \/ cached = NoObject
       \/ cached # NoObject /\ ~cached.marked /\ ~(Available /\ Changed(cached.entries))
    /\ epQueued' = FALSE
    /\ UNCHANGED <<intentVars, clusterVars, objectVars, deplVars, epRec, abandoned, faults>>

\* Mutant: a deleted object waits for the collector as well.
EpBegin_NeedsCollector ==
    /\ EpStart /\ cached # NoObject /\ Available
    /\ \/ cached.marked /\ EpGoTo("disable")
       \/ ~cached.marked /\ Changed(cached.entries) /\ EpGoTo("configure")
    /\ epQueued' = FALSE
    /\ Read("epRec")
    /\ UNCHANGED <<intentVars, clusterVars, deplVars, abandoned, faults>>

EpBegin ==
    /\ EpStart /\ cached # NoObject
    /\ \/ cached.marked /\ EpGoTo("disable")
       \/ ~cached.marked /\ Available /\ Changed(cached.entries) /\ EpGoTo("configure")
    /\ epQueued' = FALSE
    /\ Read("epRec")
    /\ UNCHANGED <<intentVars, clusterVars, deplVars, abandoned, faults>>

Current == PairedDeployments[epRec.pair]

\* On to the second pair, or after it to the next step unless the service was
\* busy with either of them.
NextPair(retry, step) ==
    CASE epRec.pair = 1 ->
            /\ epRec' = [epRec EXCEPT !.pair = 2, !.retry = retry, !.waiting = FALSE]
            /\ UNCHANGED epQueued
      [] epRec.pair = 2 /\ retry -> EpEnd(TRUE)
      [] epRec.pair = 2 /\ ~retry ->
            /\ epRec' = [epRec EXCEPT !.pc = step, !.waiting = FALSE]
            /\ UNCHANGED epQueued

\* Mutant: entities of entries that are ready already are left out.
getEntitiesForEndpoints_New(entries) == {p \in DOMAIN entries : entries[p] = "PENDING"}

getEntitiesForEndpoints(entries) == {p \in DOMAIN entries : entries[p] # "TERMINATING"}

\* Mutant: IN_PROGRESS is not waited for.
SendConfigure_Hopes ==
    /\ epRec.pc = "configure" /\ ~epRec.waiting
    /\ \/ /\ IsBusy(Current)
          /\ NextPair(FALSE, "update")
          /\ UNCHANGED intentVars /\ NoFault
       \/ /\ Accept(Current, "configure", getEntitiesForEndpoints(epRec.copy.entries))
          /\ epRec' = [epRec EXCEPT !.waiting = TRUE]
          /\ UNCHANGED epQueued /\ NoFault
    /\ UNCHANGED <<clusterVars, objectVars, deplVars, abandoned>>

\* A busy intent is answered IN_PROGRESS, and the next one is sent all the same.
SendConfigure ==
    /\ epRec.pc = "configure" /\ ~epRec.waiting
    /\ \/ /\ IsBusy(Current)
          /\ NextPair(TRUE, "update")
          /\ UNCHANGED intentVars /\ NoFault
       \/ /\ Accept(Current, "configure", getEntitiesForEndpoints(epRec.copy.entries))
          /\ epRec' = [epRec EXCEPT !.waiting = TRUE]
          /\ UNCHANGED epQueued /\ NoFault
       \/ EpEnd(TRUE) /\ UNCHANGED intentVars /\ Fault
    /\ UNCHANGED <<clusterVars, objectVars, deplVars, abandoned>>

\* The answer does not arrive; the service goes on.
LoseAnswer ==
    /\ epRec.waiting
    /\ EpEnd(TRUE) /\ Fault
    /\ UNCHANGED <<intentVars, clusterVars, objectVars, deplVars, abandoned>>

\* Entries become ready, those being terminated go.
UpdateReady ==
    LET kept == getEntitiesForEndpoints(epRec.copy.entries)
    IN /\ epRec.pc = "update"
       /\ \/ /\ Exists /\ "epRec" \notin stale
             /\ Write([endpoints EXCEPT !.entries = [p \in kept |-> "READY"]])
             /\ EpEnd(FALSE) /\ NoFault
          \/ /\ IF Exists /\ "epRec" \notin stale THEN Fault ELSE NoFault
             /\ UNCHANGED objectVars
             /\ EpEnd(TRUE)
       /\ UNCHANGED <<intentVars, clusterVars, deplVars, abandoned>>

\* Mutant: the answer ShouldRetryLater is ignored.
SendDisable_Hopes ==
    /\ epRec.pc = "disable"
    /\ \/ /\ IsBusy(Current) \/ config[Current] = Nothing
          /\ UNCHANGED intentVars
       \/ config[Current] # Nothing /\ Accept(Current, "disable", Nothing)
    /\ NextPair(FALSE, "finalize") /\ NoFault
    /\ UNCHANGED <<clusterVars, objectVars, deplVars, abandoned>>

\* Disabling is answered at once: ShouldRetryLater when the intent is busy, else
\* it is unknown or the service goes on by itself.
SendDisable ==
    /\ epRec.pc = "disable"
    /\ \/ IsBusy(Current) /\ UNCHANGED intentVars /\ NextPair(TRUE, "finalize") /\ NoFault
       \/ /\ \/ ~IsBusy(Current) /\ config[Current] = Nothing /\ UNCHANGED intentVars
             \/ config[Current] # Nothing /\ Accept(Current, "disable", Nothing)
          /\ \/ NextPair(epRec.retry, "finalize") /\ NoFault
             \/ EpEnd(TRUE) /\ Fault
    /\ UNCHANGED <<clusterVars, objectVars, deplVars, abandoned>>

RemoveFinalizer ==
    /\ epRec.pc = "finalize"
    /\ \/ /\ Exists /\ "epRec" \notin stale
          /\ Write(NoObject)
          /\ EpEnd(FALSE) /\ NoFault
       \/ /\ IF Exists /\ "epRec" \notin stale THEN Fault ELSE NoFault
          /\ UNCHANGED objectVars
          /\ EpEnd(TRUE)
    /\ UNCHANGED <<intentVars, clusterVars, deplVars, abandoned>>
-----------------------------------------------------------------------------
(* The telemetry service *)

\* A client that still waits is answered: OK, or FAILED, which ends its pass.
Answer(i, ok) ==
    IF epRec.waiting /\ Current = i
    THEN IF ok THEN NextPair(epRec.retry, "update") ELSE EpEnd(TRUE)
    ELSE UNCHANGED epVars

Serve(i) ==
    \E ok \in BOOLEAN :
        /\ Finish(i, ok)
        /\ Answer(i, ok)
        /\ IF ok THEN NoFault ELSE Fault
        /\ abandoned' = IF ~ok /\ serving[i] = "disable" THEN abandoned \cup {i} ELSE abandoned
        /\ UNCHANGED <<clusterVars, objectVars, deplVars>>
-----------------------------------------------------------------------------
Cache == Sync \/ SyncDeployment
DeploymentPass == DeplReturn \/ CreateDeployments \/ CreateEndpoints \/ ListPods \/ UpdateEntries
EndpointsPass ==
    \/ EpReturn \/ EpBegin \/ SendConfigure \/ UpdateReady \/ SendDisable \/ RemoveFinalizer
Service == \E i \in Intent : Serve(i)
Cluster ==
    \/ \E p \in Pod : PodStarts(p) \/ PodTerminates(p) \/ PodGoes(p)
    \/ findEndpointsThatUseCollector
    \/ Delete

Next ==
    \/ Cache \/ DeploymentPass \/ EndpointsPass \/ Service
    \/ CollectEndpoints \/ Cluster \/ LoseAnswer

Spec == Init /\ [][Next]_vars

\* Passes that are queued are run to their end, the cache catches up, the
\* garbage collector collects, and requests end (RequestsEnd of the service).
FairSpec ==
    /\ Spec
    /\ WF_vars(Sync) /\ WF_vars(SyncDeployment)
    /\ WF_vars(DeploymentPass) /\ WF_vars(EndpointsPass)
    /\ WF_vars(CollectEndpoints)
    /\ \A i \in Intent : WF_vars(Serve(i))
-----------------------------------------------------------------------------
TypeOK ==
    /\ config \in [Intent -> {Nothing} \cup Content]
    /\ serving \in [Intent -> {"none", "configure", "disable"}]
    /\ asked \in [Intent -> {Nothing} \cup Content]
    /\ deleted \in BOOLEAN /\ deletedSeen \in BOOLEAN
    /\ deployments \subseteq {Deployments[1], Deployments[2]}
    /\ pod \in [Pod -> {"waiting", "running", "terminating", "gone"}]
    /\ collectorChanges \in 0 .. MaxCollectorChanges
    /\ {endpoints, cached} \subseteq {NoObject} \cup Endpoints
    /\ stale \subseteq Holders
    /\ deplQueued \in BOOLEAN
    /\ deplRec \in [pc : {"idle", "update"}, entries : Entries]
    /\ epQueued \in BOOLEAN
    /\ epRec \in [pc : {"idle", "configure", "update", "disable", "finalize"}, pair : {1, 2},
                  copy : {NoObject} \cup Endpoints, retry : BOOLEAN, waiting : BOOLEAN]
    /\ abandoned \subseteq Intent
    /\ faults \in 0 .. MaxFaults

\* A pod whose entry says READY has telemetry in both directions, although the
\* pass that says so works with a copy, calls may be lost and served late, and
\* one of the two directions may be refused.
ReadyIsConfigured ==
    Exists /\ ~endpoints.marked =>
        \A p \in DOMAIN endpoints.entries, i \in Intent :
            endpoints.entries[p] = "READY" => config[i] # Nothing /\ p \in config[i]

\* A pod leaves the list only when no direction has telemetry for it any more:
\* otherwise nobody would ever remember to take it off the switches.  (When the
\* object has been deleted and made again, disabling may still be under way.)
ForgottenIsUnconfigured ==
    Exists => \A i \in Intent :
        \/ config[i] = Nothing
        \/ config[i] \subseteq DOMAIN endpoints.entries
        \/ serving[i] = "disable"
        \/ i \in abandoned

\* The endpoints object goes only when the telemetry of both directions has
\* gone, or the service has promised to see to it.
GoneIsDisabled ==
    ~Exists => \A i \in Intent :
        /\ serving[i] # "configure"
        /\ config[i] = Nothing \/ serving[i] = "disable" \/ i \in abandoned

\* Every running pod gets telemetry, if the collector stays available from some
\* time on and the resource is not deleted.
RunningGetsReady ==
    <>[]Available =>
        \A p \in Pod :
            (pod[p] = "running" /\ ~deleted) ~>
                \/ pod[p] # "running" \/ deleted
                \/ Exists /\ p \in DOMAIN endpoints.entries /\ endpoints.entries[p] = "READY"

\* Deleting the resource ends its telemetry, wherever the controllers are, with
\* or without a collector; a finalizer never blocks it for good.
DeletionCompletes ==
    deleted ~> ~Exists /\ \A i \in Intent : config[i] = Nothing \/ i \in abandoned
=============================================================================
