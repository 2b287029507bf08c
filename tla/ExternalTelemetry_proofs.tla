----------------------- MODULE ExternalTelemetry_proofs -----------------------
(***************************************************************************)
(* Proofs that the status and the entries of the external endpoints say    *)
(* what is configured, for any pods, topology and number of lost calls,    *)
(* refused requests, failing writes and edits.                             *)
(***************************************************************************)
EXTENDS ExternalTelemetry, TLAPS

\* Entries that may say READY while their pod runs.
Measured(entries) == {p \in DOMAIN entries : entries[p] = "READY" /\ pod[p] = "running"}

EpRecs ==
    [pc : {"idle", "ingress", "ingressStatus", "entries", "pods", "update", "podsStatus"},
     dir : {1, 2}, copy : {NoObject} \cup Endpoints, targets : SUBSET Pod, waiting : BOOLEAN]

\* The types the proof needs.
ServiceTypes ==
    /\ config \in [Intent -> {Nothing} \cup Content]
    /\ serving \in [Intent -> {"none", "configure"}]
    /\ asked \in [Intent -> {Nothing} \cup Content]
    /\ \A i \in Intent : serving[i] = "configure" => asked[i] # Nothing

ObjectTypes ==
    /\ pod \in [Pod -> {"waiting", "running", "gone"}]
    /\ endpoints \in {NoObject} \cup Endpoints
    /\ cached \in {NoObject} \cup Endpoints
    /\ deplRec \in [pc : {"idle", "update"}, entries : Entries]
    /\ epRec \in EpRecs
    /\ stale \subseteq Holders

Types == ServiceTypes /\ ObjectTypes

\* Who holds a version that is not old has what is there, or what is derived
\* from it; only what the pass itself has just written is newer than the cache.
Versions ==
    /\ "cache" \notin stale => cached = endpoints
    /\ epRec.pc # "idle" /\ "epRec" \notin stale =>
          /\ epRec.copy = endpoints
          /\ epRec.pc # "podsStatus" => "cache" \notin stale
    /\ deplRec.pc = "update" /\ "deplRec" \notin stale =>
          /\ Exists
          /\ \A p \in DOMAIN deplRec.entries :
                deplRec.entries[p] = "READY" =>
                    p \in DOMAIN endpoints.entries /\ endpoints.entries[p] = "READY"

\* A pod with an entry has been running, and one that is being taken off is gone.
Truthful(entries) ==
    \A p \in DOMAIN entries : pod[p] # "waiting" /\ (entries[p] = "TERMINATING" => pod[p] = "gone")

\* Old versions are good enough to configure from.
Copies ==
    /\ Exists => Truthful(endpoints.entries)
    /\ cached # NoObject =>
          /\ Exists /\ Truthful(cached.entries)
          /\ Measured(endpoints.entries) \subseteq Targets(cached.entries)
    /\ epRec.pc # "idle" =>
          /\ epRec.copy # NoObject
          /\ Exists /\ Truthful(epRec.copy.entries)
          /\ Measured(endpoints.entries) \subseteq Targets(epRec.copy.entries)
    /\ Truthful(deplRec.entries)

\* The request for the pods leaves out nobody who is ready, though its client may
\* have gone.
Requests ==
    /\ serving[PodsIntent] = "configure" /\ Exists =>
          Measured(endpoints.entries) \subseteq asked[PodsIntent].pods
    /\ ReadyIsMeasured

IngressDone(dir) == config[IngressIntent(dir)] # Nothing
PodsDone(dir) == config[PodsIntent] # Nothing /\ config[PodsIntent].collection = PodsCollection(dir)

\* How far the pass has come with the directions of its copy.
Progress ==
    LET directions == Directions(epRec.copy.policy) IN
    /\ epRec.pc \in {"ingress", "pods"} => epRec.dir <= Len(directions)
    /\ epRec.pc = "entries" => epRec.dir = 1
    /\ epRec.pc = "ingress" => \A k \in 1 .. epRec.dir - 1 : IngressDone(directions[k])
    /\ epRec.pc = "ingressStatus" => \A k \in 1 .. Len(directions) : IngressDone(directions[k])
    /\ epRec.pc = "pods" => \A k \in 1 .. epRec.dir - 1 : PodsDone(directions[k])
    /\ epRec.pc \in {"update", "podsStatus"} => \A k \in 1 .. Len(directions) : PodsDone(directions[k])

Waiting ==
    /\ epRec.waiting =>
          \/ epRec.pc = "ingress" /\ serving[IngressIntent(Direction)] = "configure"
          \/ /\ epRec.pc = "pods" /\ serving[PodsIntent] = "configure"
             /\ asked[PodsIntent] = [collection |-> PodsCollection(Direction), pods |-> epRec.targets]
    /\ epRec.pc \in {"pods", "update"} => epRec.targets = Targets(epRec.copy.entries)
    /\ epRec.pc = "update" =>
          serving[PodsIntent] = "none" /\ config[PodsIntent].pods = epRec.targets

MeasurementInv == Types /\ Versions /\ Copies /\ Requests /\ Progress /\ Waiting /\ StatusIsTrue

held == <<config, serving, asked, pod, endpoints, cached, stale, deplRec, epRec>>

LEMMA EntriesType ==
    ASSUME NEW e PROVE e \in Entries <=> DOMAIN e \in SUBSET Pod /\ e \in [DOMAIN e -> EntryStatus]
BY DEF Entries

LEMMA ObjectType ==
    ASSUME NEW x \in Endpoints
    PROVE  /\ x # NoObject /\ x.entries \in Entries
           /\ x.policy \in MonitoringPolicy
           /\ x.ext \in MonitoringPolicy \cup {NoPolicy} /\ x.int \in MonitoringPolicy \cup {NoPolicy}
           /\ Targets(x.entries) \in SUBSET Pod
BY NoObjectAssumption, EntriesType DEF Endpoints, Targets

LEMMA IdleTypes ==
    /\ EpIdle \in EpRecs /\ EpIdle.pc = "idle" /\ ~EpIdle.waiting
    /\ DeplIdle \in [pc : {"idle", "update"}, entries : Entries] /\ DeplIdle.pc = "idle"
    /\ DOMAIN DeplIdle.entries = {}
<1>1. NoEntries \in Entries /\ DOMAIN NoEntries = {}
  BY EntriesType DEF NoEntries
<1> QED
  BY <1>1 DEF EpIdle, EpRecs, DeplIdle

LEMMA ContentType ==
    /\ Content = [collection : Collection, pods : SUBSET Pod]
    /\ \A c \in Content : c # Nothing
BY ExternalAssumption, IntentsAssumption DEF ExternalAssumption, IntentsAssumption

LEMMA IntentNames ==
    /\ PodsIntent \in Intent
    /\ \A dir : /\ IngressIntent(dir) \in Intent /\ IngressIntent(dir) # PodsIntent
                /\ PodsCollection(dir) \in Collection
BY ExternalAssumption DEF ExternalAssumption, PodsIntent, IngressIntent, PodsCollection, Collection

LEMMA DirectionsType ==
    ASSUME NEW policy \in MonitoringPolicy
    PROVE  /\ Len(Directions(policy)) \in {1, 2}
           /\ \A dir \in ToSet(Directions(policy)) :
                \E k \in 1 .. Len(Directions(policy)) : dir = Directions(policy)[k]
<1>1. CASE policy = "external-to-pods"
  BY <1>1 DEF Directions, ToSet
<1>2. CASE policy = "pods-to-external"
  BY <1>2 DEF Directions, ToSet
<1>3. CASE policy = "all"
  BY <1>3 DEF Directions, ToSet
<1> QED
  BY <1>1, <1>2, <1>3 DEF MonitoringPolicy

LEMMA FirstDirection ==
    ASSUME NEW n \in {1, 2} PROVE 1 <= n /\ \A k \in 1 .. 1 - 1 : FALSE
OBVIOUS

LEMMA MeasurementInit == ASSUME Init PROVE MeasurementInv
<1>1. Types
  BY IdleTypes DEF Init, IntentsInit, Types, ServiceTypes, ObjectTypes, Holders
<1>2. ~Exists /\ cached = NoObject /\ DOMAIN deplRec.entries = {} /\ epRec = EpIdle
  BY IdleTypes DEF Init, Exists
<1>3. Versions /\ Copies
  BY <1>2, IdleTypes DEF Init, Versions, Copies, Truthful
<1> QED
  BY <1>1, <1>2, <1>3
  DEF EpIdle, MeasurementInv, Requests, ReadyIsMeasured, Progress, Waiting, StatusIsTrue

LEMMA Unaffected == ASSUME MeasurementInv, UNCHANGED held PROVE MeasurementInv'
BY DEF held, MeasurementInv, Types, ServiceTypes, ObjectTypes, Versions, Copies, Truthful, Measured,
       Requests, ReadyIsMeasured, Progress, IngressDone, PodsDone, Waiting, Direction, StatusIsTrue, Exists

LEMMA ReadVersion ==
    ASSUME Types, NEW holder \in {"deplRec", "epRec"}, Read(holder)
    PROVE  /\ stale' \subseteq Holders
           /\ "cache" \in stale' <=> "cache" \in stale
           /\ holder \notin stale' => "cache" \notin stale
           /\ \A other \in Holders \ {holder} : other \in stale' <=> other \in stale
           /\ UNCHANGED <<endpoints, cached>>
BY DEF Types, ObjectTypes, Read, Holders
-----------------------------------------------------------------------------
(* Pods, the cache, and writes of users and of the other pass *)

\* A pod without an entry may start, and a running one go.
LEMMA PodKeepsInv ==
    ASSUME MeasurementInv, NEW p \in Pod, PodStarts(p) \/ PodGoes(p) PROVE MeasurementInv'
<1>1. /\ UNCHANGED <<config, serving, asked, endpoints, cached, stale, deplRec, epRec>>
      /\ \/ pod[p] = "waiting" /\ pod' = [pod EXCEPT ![p] = "running"]
         \/ pod[p] = "running" /\ pod' = [pod EXCEPT ![p] = "gone"]
  BY DEF PodStarts, PodGoes, PodChanges, intentVars, objectVars, epVars
<1>2. pod \in [Pod -> {"waiting", "running", "gone"}]
  BY DEF MeasurementInv, Types, ObjectTypes
<1>3. \A e \in Entries : Truthful(e) => Truthful(e)'
  BY <1>1, <1>2, EntriesType DEF Truthful
<1>4. \A e \in Entries : Truthful(e) => Measured(e)' \subseteq Measured(e)
  BY <1>1, <1>2, EntriesType DEF Truthful, Measured
<1>5. /\ Exists => endpoints.entries \in Entries
      /\ cached # NoObject => cached.entries \in Entries
      /\ epRec.copy # NoObject => epRec.copy.entries \in Entries
      /\ deplRec.entries \in Entries
  BY ObjectType DEF MeasurementInv, Types, ObjectTypes, EpRecs, Exists
<1>6. Types' /\ Versions'
  BY <1>1, <1>2 DEF MeasurementInv, Types, ServiceTypes, ObjectTypes, Versions, Exists
<1>7. Exists => Measured(endpoints.entries)' \subseteq Measured(endpoints.entries)
  BY <1>1, <1>4, <1>5 DEF MeasurementInv, Copies, Measured
<1>8. Copies'
  BY <1>1, <1>3, <1>5, <1>7 DEF MeasurementInv, Copies, Exists, Truthful
<1>9. Requests'
  <2>1. ReadyIsMeasured <=>
            (Exists => \A q \in Measured(endpoints.entries) :
                config[PodsIntent] # Nothing /\ q \in config[PodsIntent].pods)
    BY DEF ReadyIsMeasured, Measured
  <2>2. (Exists => \A q \in Measured(endpoints.entries) :
            config[PodsIntent] # Nothing /\ q \in config[PodsIntent].pods)'
    BY <1>1, <1>7, <2>1 DEF MeasurementInv, Requests, Exists
  <2>3. ReadyIsMeasured'
    BY <2>2 DEF ReadyIsMeasured, Measured
  <2> QED
    BY <1>1, <1>7, <2>3 DEF MeasurementInv, Requests, Exists
<1>10. Progress' /\ Waiting' /\ StatusIsTrue'
  BY <1>1 DEF MeasurementInv, Progress, IngressDone, PodsDone, Waiting, Direction, StatusIsTrue, Exists
<1> QED
  BY <1>6, <1>8, <1>9, <1>10 DEF MeasurementInv

LEMMA SyncKeepsInv == ASSUME MeasurementInv, Sync PROVE MeasurementInv'
<1>1. /\ UNCHANGED <<config, serving, asked, pod, endpoints, deplRec, epRec>>
      /\ cached' = endpoints /\ stale' = stale \ {"cache"}
  BY DEF Sync, intentVars, clusterVars
<1>2. Types' /\ Versions'
  BY <1>1 DEF MeasurementInv, Types, ServiceTypes, ObjectTypes, Versions, Holders, Exists
<1>3. Copies'
  BY <1>1 DEF MeasurementInv, Copies, Truthful, Measured, Targets, Exists
<1>4. Requests' /\ Progress' /\ Waiting' /\ StatusIsTrue'
  BY <1>1
  DEF MeasurementInv, Requests, Measured, ReadyIsMeasured, Progress, IngressDone, PodsDone, Waiting,
      Direction, StatusIsTrue, Exists
<1> QED
  BY <1>2, <1>3, <1>4 DEF MeasurementInv

\* Entries may be added or lose READY, and the policy be edited, behind the back
\* of the pass that configures.
LEMMA ObjectChanges ==
    ASSUME MeasurementInv, Exists,
           endpoints' \in Endpoints,
           endpoints'.ext = endpoints.ext, endpoints'.int = endpoints.int,
           Truthful(endpoints'.entries),
           \A p \in DOMAIN endpoints'.entries : endpoints'.entries[p] = "READY" =>
                p \in DOMAIN endpoints.entries /\ endpoints.entries[p] = "READY",
           stale' \subseteq Holders, {"cache", "epRec"} \subseteq stale',
           deplRec' = DeplIdle \/ (deplRec' = deplRec /\ "deplRec" \in stale'),
           UNCHANGED <<config, serving, asked, pod, cached, epRec>>
    PROVE  MeasurementInv'
<1>1. Exists'
  BY ObjectType DEF Exists
<1>2. Types' /\ Versions'
  BY IdleTypes DEF MeasurementInv, Types, ServiceTypes, ObjectTypes, Versions
<1>3. Measured(endpoints.entries)' \subseteq Measured(endpoints.entries)
  BY DEF Measured
<1>4. Copies'
  <2>1. Truthful(deplRec.entries)' /\ Truthful(endpoints.entries)'
    BY IdleTypes DEF MeasurementInv, Copies, Truthful
  <2>2. cached # NoObject => Truthful(cached.entries)'
    BY DEF MeasurementInv, Copies, Truthful
  <2>3. epRec.pc # "idle" => Truthful(epRec.copy.entries)'
    BY DEF MeasurementInv, Copies, Truthful
  <2> QED
    BY <1>1, <1>3, <2>1, <2>2, <2>3 DEF MeasurementInv, Copies
<1>5. Requests'
  <2>1. ReadyIsMeasured'
    BY DEF MeasurementInv, Requests, ReadyIsMeasured
  <2> QED
    BY <1>3, <2>1 DEF MeasurementInv, Requests
<1>6. Progress' /\ Waiting'
  BY DEF MeasurementInv, Progress, IngressDone, PodsDone, Waiting, Direction
<1>7. StatusIsTrue'
  BY DEF MeasurementInv, StatusIsTrue
<1> QED
  BY <1>2, <1>4, <1>5, <1>6, <1>7 DEF MeasurementInv

LEMMA EditKeepsInv ==
    ASSUME MeasurementInv, NEW policy \in Policies, Edit(policy) PROVE MeasurementInv'
<1>1. /\ Exists /\ endpoints \in Endpoints /\ policy \in MonitoringPolicy
      /\ endpoints' = [endpoints EXCEPT !.policy = policy]
      /\ stale' = Holders
      /\ UNCHANGED <<config, serving, asked, pod, cached, epRec, deplRec>>
  BY ExternalAssumption
  DEF ExternalAssumption, Edit, Write, Holders, intentVars, clusterVars, deplVars, epVars,
      MeasurementInv, Types, ObjectTypes, Exists
<1>2. /\ endpoints' \in Endpoints /\ endpoints'.entries = endpoints.entries
      /\ endpoints'.ext = endpoints.ext /\ endpoints'.int = endpoints.int
  BY <1>1 DEF Endpoints
<1>3. Truthful(endpoints'.entries)
  BY <1>1, <1>2 DEF MeasurementInv, Copies
<1> QED
  BY <1>1, <1>2, <1>3, ObjectChanges DEF Holders

LEMMA CreateEndpointsKeepsInv == ASSUME MeasurementInv, CreateEndpoints PROVE MeasurementInv'
<1>1. /\ ~Exists /\ cached = NoObject
      /\ endpoints' = [entries |-> NoEntries, policy |-> Policy, ext |-> NoPolicy, int |-> NoPolicy]
      /\ stale' = Holders
      /\ UNCHANGED <<config, serving, asked, pod, cached, deplRec, epRec>>
  BY DEF CreateEndpoints, Write, Holders, intentVars, clusterVars, deplVars, epVars
<1>2. /\ endpoints' \in Endpoints /\ DOMAIN endpoints'.entries = {}
      /\ endpoints'.ext = NoPolicy /\ endpoints'.int = NoPolicy
  BY <1>1, EntriesType, ExternalAssumption DEF Endpoints, NoEntries, ExternalAssumption
<1>3. epRec.pc = "idle"
  BY <1>1 DEF MeasurementInv, Copies
<1>4. Types' /\ Versions'
  BY <1>1, <1>2, <1>3 DEF MeasurementInv, Types, ServiceTypes, ObjectTypes, Versions, Holders
<1>5. Exists'
  BY <1>2, ObjectType DEF Exists
<1>6. Copies'
  BY <1>1, <1>2, <1>3, <1>5 DEF MeasurementInv, Copies, Truthful, Exists
<1>7. Requests' /\ StatusIsTrue'
  BY <1>2 DEF Requests, Measured, ReadyIsMeasured, StatusIsTrue
<1>8. Progress' /\ Waiting'
  BY <1>1, <1>3 DEF MeasurementInv, Progress, Waiting
<1> QED
  BY <1>4, <1>6, <1>7, <1>8 DEF MeasurementInv

LEMMA ReconciledEntries ==
    ASSUME NEW e \in Entries, Truthful(e), pod \in [Pod -> {"waiting", "running", "gone"}],
           NEW listed, listed = {p \in Pod : pod[p] = "running"}
    PROVE  /\ reconcileEndpoints(e, listed) \in Entries
           /\ Truthful(reconcileEndpoints(e, listed))
           /\ \A p \in DOMAIN reconcileEndpoints(e, listed) :
                reconcileEndpoints(e, listed)[p] = "READY" => p \in DOMAIN e /\ e[p] = "READY"
<1> DEFINE new == reconcileEndpoints(e, listed)
<1>1. e \in [DOMAIN e -> EntryStatus] /\ DOMAIN e \subseteq Pod
  BY EntriesType
<1>2. DOMAIN new = DOMAIN e \cup listed /\ DOMAIN new \in SUBSET Pod
  BY <1>1 DEF reconcileEndpoints
<1>3. ASSUME NEW p \in DOMAIN new
      PROVE  /\ new[p] \in EntryStatus
             /\ new[p] = "READY" => p \in DOMAIN e /\ e[p] = "READY"
             /\ pod[p] # "waiting" /\ (new[p] = "TERMINATING" => pod[p] = "gone")
  <2>1. CASE p \notin listed
    <3>1. new[p] = "TERMINATING" /\ p \in DOMAIN e
      BY <1>2, <2>1 DEF reconcileEndpoints
    <3> QED
      BY <1>1, <2>1, <3>1 DEF EntryStatus, Truthful
  <2>2. CASE p \in listed /\ p \in DOMAIN e
    <3>1. new[p] = e[p]
      BY <1>2, <2>2 DEF reconcileEndpoints
    <3> QED
      BY <1>1, <2>2, <3>1 DEF Truthful
  <2>3. CASE p \in listed /\ p \notin DOMAIN e
    <3>1. new[p] = "PENDING"
      BY <1>2, <2>3 DEF reconcileEndpoints
    <3> QED
      BY <2>3, <3>1 DEF EntryStatus
  <2> QED
    BY <2>1, <2>2, <2>3
<1>4. new \in [DOMAIN new -> EntryStatus]
  BY <1>3 DEF reconcileEndpoints
<1>5. new \in Entries
  BY <1>2, <1>4, EntriesType
<1> QED
  BY <1>3, <1>5 DEF Truthful

LEMMA ListPodsKeepsInv == ASSUME MeasurementInv, ListPods PROVE MeasurementInv'
<1> DEFINE new == reconcileEndpoints(cached.entries, {p \in Pod : pod[p] = "running"})
<1>1. /\ UNCHANGED <<config, serving, asked, pod, epRec, endpoints, cached>>
      /\ Read("deplRec") /\ cached \in Endpoints /\ Exists /\ Truthful(cached.entries)
      /\ deplRec' = DeplIdle \/ deplRec' = [pc |-> "update", entries |-> new]
  BY DEF ListPods, intentVars, clusterVars, epVars, Read, MeasurementInv, Types, ObjectTypes, Copies
<1>2. /\ new \in Entries /\ Truthful(new)
      /\ \A p \in DOMAIN new :
            new[p] = "READY" => p \in DOMAIN cached.entries /\ cached.entries[p] = "READY"
  <2>1. cached.entries \in Entries /\ pod \in [Pod -> {"waiting", "running", "gone"}]
    BY <1>1, ObjectType DEF MeasurementInv, Types, ObjectTypes
  <2> QED
    BY <1>1, <2>1, ReconciledEntries
<1> HIDE DEF new
<1>3. /\ stale' \subseteq Holders /\ ("cache" \in stale' <=> "cache" \in stale)
      /\ "deplRec" \notin stale' => "cache" \notin stale
      /\ "epRec" \in stale' <=> "epRec" \in stale
  BY <1>1, ReadVersion DEF MeasurementInv, Holders
<1>4. Types'
  BY <1>1, <1>2, <1>3, IdleTypes DEF MeasurementInv, Types, ServiceTypes, ObjectTypes
<1>5. Versions'
  BY <1>1, <1>2, <1>3, IdleTypes DEF MeasurementInv, Versions, Exists
<1>6. Truthful(deplRec.entries)'
  BY <1>1, <1>2, IdleTypes DEF Truthful
<1>7. Copies'
  BY <1>1, <1>6 DEF MeasurementInv, Copies, Truthful, Measured, Exists
<1>8. Requests' /\ Progress' /\ Waiting' /\ StatusIsTrue'
  BY <1>1
  DEF MeasurementInv, Requests, Measured, ReadyIsMeasured, Progress, IngressDone, PodsDone, Waiting,
      Direction, StatusIsTrue, Exists
<1> QED
  BY <1>4, <1>5, <1>7, <1>8 DEF MeasurementInv

LEMMA UpdateEntriesKeepsInv == ASSUME MeasurementInv, UpdateEntries PROVE MeasurementInv'
<1>1. /\ UNCHANGED <<config, serving, asked, pod, epRec, cached>>
      /\ deplRec' = DeplIdle /\ deplRec.pc = "update"
      /\ \/ /\ "deplRec" \notin stale
            /\ endpoints' = [endpoints EXCEPT !.entries = deplRec.entries]
            /\ stale' = Holders \ {"deplRec"}
         \/ UNCHANGED <<endpoints, stale>>
  BY DEF UpdateEntries, intentVars, clusterVars, epVars, objectVars, Write
<1>2. CASE UNCHANGED <<endpoints, stale>>
  <2>1. Types' /\ Versions'
    BY <1>1, <1>2, IdleTypes DEF MeasurementInv, Types, ServiceTypes, ObjectTypes, Versions, Exists
  <2>2. Truthful(deplRec.entries)'
    BY <1>1, IdleTypes DEF Truthful
  <2>3. Copies'
    BY <1>1, <1>2, <2>2 DEF MeasurementInv, Copies, Truthful, Measured, Exists
  <2> QED
    BY <1>1, <1>2, <2>1, <2>3
    DEF MeasurementInv, Requests, Measured, ReadyIsMeasured, Progress, IngressDone, PodsDone, Waiting,
        Direction, StatusIsTrue, Exists
<1>3. CASE /\ "deplRec" \notin stale
           /\ endpoints' = [endpoints EXCEPT !.entries = deplRec.entries]
           /\ stale' = Holders \ {"deplRec"}
  <2>1. endpoints \in Endpoints /\ deplRec.entries \in Entries /\ Exists
    BY <1>1, <1>3 DEF MeasurementInv, Versions, Types, ObjectTypes, Exists
  <2>2. /\ endpoints' \in Endpoints /\ endpoints'.entries = deplRec.entries
        /\ endpoints'.ext = endpoints.ext /\ endpoints'.int = endpoints.int
    BY <1>3, <2>1 DEF Endpoints
  <2>3. Truthful(endpoints'.entries)
    BY <2>2 DEF MeasurementInv, Copies
  <2> QED
    BY <1>1, <1>3, <2>1, <2>2, <2>3, ObjectChanges DEF MeasurementInv, Versions, Holders
<1> QED
  BY <1>1, <1>2, <1>3
-----------------------------------------------------------------------------
(* The pass of the endpoints: its own steps *)

\* What the pass goes on with is the version it has read.
LEMMA PassKeepsCopy ==
    ASSUME MeasurementInv, epRec' \in EpRecs,
           \/ epRec'.pc = "idle"
           \/ /\ epRec'.copy = epRec.copy
              /\ epRec.pc \notin {"idle", "podsStatus"} /\ epRec'.pc # "podsStatus",
           UNCHANGED <<pod, endpoints, cached, stale, deplRec>>
    PROVE  ObjectTypes' /\ Versions' /\ Copies'
BY DEF MeasurementInv, Types, ObjectTypes, Versions, Copies, Truthful, Measured, Exists

LEMMA PassEnds ==
    ASSUME MeasurementInv, epRec' = EpIdle,
           UNCHANGED <<config, serving, asked, pod, endpoints, cached, stale, deplRec>>
    PROVE  MeasurementInv'
<1>1. ObjectTypes' /\ Versions' /\ Copies'
  BY PassKeepsCopy, IdleTypes
<1>2. ServiceTypes' /\ Requests' /\ StatusIsTrue'
  BY DEF MeasurementInv, Types, ServiceTypes, Requests, Measured, ReadyIsMeasured, StatusIsTrue, Exists
<1>3. Progress' /\ Waiting'
  BY DEF EpIdle, Progress, Waiting
<1> QED
  BY <1>1, <1>2, <1>3 DEF MeasurementInv, Types

\* A step that neither writes nor calls.
LEMMA PassMoves ==
    ASSUME MeasurementInv, epRec' \in EpRecs, epRec.pc \notin {"idle", "podsStatus"},
           epRec'.copy = epRec.copy, epRec'.dir = 1, ~epRec'.waiting,
           \/ epRec'.pc = "entries"
           \/ epRec'.pc = "pods" /\ epRec'.targets = Targets(epRec.copy.entries),
           UNCHANGED <<config, serving, asked, pod, endpoints, cached, stale, deplRec>>
    PROVE  MeasurementInv'
<1>1. ObjectTypes' /\ Versions' /\ Copies'
  BY PassKeepsCopy
<1>2. ServiceTypes' /\ Requests' /\ StatusIsTrue'
  BY DEF MeasurementInv, Types, ServiceTypes, Requests, Measured, ReadyIsMeasured, StatusIsTrue, Exists
<1>3. Waiting'
  BY DEF Waiting
<1>4. Progress'
  <2>1. epRec.copy \in Endpoints
    BY DEF MeasurementInv, Copies, Types, ObjectTypes, EpRecs
  <2>2. Len(Directions(epRec.copy.policy)) \in {1, 2}
    BY <2>1, ObjectType, DirectionsType
  <2>3. (\A k \in 1 .. epRec'.dir - 1 : FALSE) /\ epRec'.dir <= Len(Directions(epRec'.copy.policy))
    BY <2>2, FirstDirection
  <2> QED
    BY <2>3 DEF Progress
<1> QED
  BY <1>1, <1>2, <1>3, <1>4 DEF MeasurementInv, Types

LEMMA EpBeginKeepsInv == ASSUME MeasurementInv, EpBegin PROVE MeasurementInv'
<1>1. /\ UNCHANGED <<config, serving, asked, pod, deplRec, endpoints, cached>>
      /\ Read("epRec") /\ cached \in Endpoints
  BY DEF EpBegin, intentVars, clusterVars, deplVars, Read, MeasurementInv, Types, ObjectTypes
<1>2. PICK step \in {"ingress", "entries"} : epRec' = [EpIdle EXCEPT !.pc = step, !.copy = cached]
  BY DEF EpBegin
<1>3. /\ epRec' \in EpRecs /\ epRec'.pc = step /\ epRec'.dir = 1 /\ epRec'.copy = cached
      /\ ~epRec'.waiting
  BY <1>1, <1>2 DEF EpIdle, EpRecs
<1>4. /\ stale' \subseteq Holders /\ ("cache" \in stale' <=> "cache" \in stale)
      /\ "epRec" \notin stale' => "cache" \notin stale
      /\ "deplRec" \in stale' <=> "deplRec" \in stale
  BY <1>1, ReadVersion DEF MeasurementInv, Holders
<1>5. Types' /\ Versions'
  BY <1>1, <1>3, <1>4 DEF MeasurementInv, Types, ServiceTypes, ObjectTypes, Versions, Exists
<1>6. Copies'
  BY <1>1, <1>3, ObjectType DEF MeasurementInv, Copies, Truthful, Measured, Exists
<1>7. Requests' /\ StatusIsTrue'
  BY <1>1 DEF MeasurementInv, Requests, Measured, ReadyIsMeasured, StatusIsTrue, Exists
<1>8. Progress' /\ Waiting'
  <2>1. Len(Directions(epRec'.copy.policy)) \in {1, 2}
    BY <1>1, <1>3, ObjectType, DirectionsType
  <2>2. (\A k \in 1 .. epRec'.dir - 1 : FALSE) /\ epRec'.dir <= Len(Directions(epRec'.copy.policy))
    BY <1>3, <2>1, FirstDirection
  <2> QED
    BY <1>3, <2>2 DEF Progress, Waiting
<1> QED
  BY <1>5, <1>6, <1>7, <1>8 DEF MeasurementInv

LEMMA CheckEntriesKeepsInv == ASSUME MeasurementInv, CheckEntries PROVE MeasurementInv'
<1>1. /\ UNCHANGED <<config, serving, asked, pod, endpoints, cached, stale, deplRec>>
      /\ epRec.pc = "entries" /\ epRec \in EpRecs
      /\ \/ epRec' = EpIdle
         \/ epRec' = [epRec EXCEPT !.pc = "pods", !.targets = Targets(epRec.copy.entries)]
  BY DEF CheckEntries, EpEnd, intentVars, clusterVars, objectVars, deplVars, MeasurementInv, Types,
         ObjectTypes
<1>2. CASE epRec' = EpIdle
  BY <1>1, <1>2, PassEnds
<1>3. CASE epRec' = [epRec EXCEPT !.pc = "pods", !.targets = Targets(epRec.copy.entries)]
  <2>1. Targets(epRec.copy.entries) \in SUBSET Pod
    BY <1>1, ObjectType DEF MeasurementInv, Copies, EpRecs
  <2>2. epRec.dir = 1 /\ ~epRec.waiting
    BY <1>1 DEF MeasurementInv, Progress, Waiting
  <2>3. /\ epRec' \in EpRecs /\ epRec'.pc = "pods" /\ epRec'.copy = epRec.copy /\ epRec'.dir = 1
        /\ ~epRec'.waiting /\ epRec'.targets = Targets(epRec.copy.entries)
    BY <1>1, <1>3, <2>1, <2>2 DEF EpRecs
  <2> QED
    BY <1>1, <2>3, PassMoves
<1> QED
  BY <1>1, <1>2, <1>3

LEMMA FaultsKeepInv == ASSUME MeasurementInv, Faults PROVE MeasurementInv'
<1>1. UNCHANGED <<config, serving, asked, pod, endpoints, cached, stale, deplRec>>
  BY DEF Faults, IngressFails, PodsFail, intentVars, clusterVars, objectVars, deplVars
<1>2. CASE PodsFail
  BY <1>1, <1>2, PassEnds DEF PodsFail, EpEnd
<1>3. CASE IngressFails
  <2>1. /\ epRec' = [EpIdle EXCEPT !.pc = "entries", !.copy = epRec.copy]
        /\ epRec.pc = "ingress" /\ epRec.copy \in {NoObject} \cup Endpoints
    BY <1>3 DEF IngressFails, EpGoTo, MeasurementInv, Types, ObjectTypes, EpRecs
  <2>2. /\ epRec' \in EpRecs /\ epRec'.pc = "entries" /\ epRec'.copy = epRec.copy
        /\ epRec'.dir = 1 /\ ~epRec'.waiting
    BY <2>1 DEF EpIdle, EpRecs
  <2> QED
    BY <1>1, <2>1, <2>2, PassMoves
<1> QED
  BY <1>2, <1>3 DEF Faults
-----------------------------------------------------------------------------
(* The pass of the endpoints: writes *)

LEMMA FreshVersion ==
    ASSUME MeasurementInv, epRec.pc # "idle", "epRec" \notin stale
    PROVE  /\ epRec.copy = endpoints /\ endpoints \in Endpoints /\ Exists
           /\ epRec.pc # "podsStatus" => cached = endpoints
BY DEF MeasurementInv, Versions, Copies, Types, ObjectTypes, Exists

\* A status is written, and nothing else.
LEMMA StatusWritten ==
    ASSUME MeasurementInv, Exists, epRec' = EpIdle,
           endpoints' \in Endpoints, endpoints'.entries = endpoints.entries, StatusIsTrue',
           stale' = Holders \ {"epRec"},
           UNCHANGED <<config, serving, asked, pod, cached, deplRec>>
    PROVE  MeasurementInv'
<1>1. Exists'
  BY ObjectType DEF Exists
<1>2. Types' /\ Versions'
  BY IdleTypes DEF MeasurementInv, Types, ServiceTypes, ObjectTypes, Versions, Holders
<1>3. Copies'
  <2>1. Truthful(endpoints.entries)' /\ Truthful(deplRec.entries)'
    BY DEF MeasurementInv, Copies, Truthful
  <2>2. cached # NoObject => Truthful(cached.entries)'
    BY DEF MeasurementInv, Copies, Truthful
  <2>3. Measured(endpoints.entries)' = Measured(endpoints.entries)
    BY DEF Measured
  <2> QED
    BY <1>1, <2>1, <2>2, <2>3, IdleTypes DEF MeasurementInv, Copies
<1>4. Requests'
  BY <1>1 DEF MeasurementInv, Requests, Measured, ReadyIsMeasured
<1>5. Progress' /\ Waiting'
  BY DEF EpIdle, Progress, Waiting
<1> QED
  BY <1>2, <1>3, <1>4, <1>5 DEF MeasurementInv

LEMMA WriteIngressStatusKeepsInv == ASSUME MeasurementInv, WriteIngressStatus PROVE MeasurementInv'
<1>1. /\ UNCHANGED <<config, serving, asked, pod, cached, deplRec>>
      /\ epRec' = EpIdle /\ epRec.pc = "ingressStatus"
      /\ \/ /\ "epRec" \notin stale /\ stale' = Holders \ {"epRec"}
            /\ endpoints' = [epRec.copy EXCEPT !.ext = epRec.copy.policy]
         \/ UNCHANGED <<endpoints, stale>>
  BY DEF WriteIngressStatus, WriteStatus, Write, EpEnd, intentVars, clusterVars, objectVars, deplVars
<1>2. CASE UNCHANGED <<endpoints, stale>>
  BY <1>1, <1>2, PassEnds
<1>3. CASE /\ "epRec" \notin stale /\ stale' = Holders \ {"epRec"}
           /\ endpoints' = [epRec.copy EXCEPT !.ext = epRec.copy.policy]
  <2>1. epRec.copy = endpoints /\ endpoints \in Endpoints /\ Exists
    BY <1>1, <1>3, FreshVersion
  <2>2. /\ endpoints' \in Endpoints /\ endpoints'.entries = endpoints.entries
        /\ endpoints'.ext = endpoints.policy /\ endpoints'.int = endpoints.int
    BY <1>3, <2>1 DEF Endpoints
  <2>3. \A dir \in ToSet(Directions(endpoints'.ext)) : config'[IngressIntent(dir)] # Nothing
    BY <1>1, <2>1, <2>2, ObjectType, DirectionsType DEF MeasurementInv, Progress, IngressDone
  <2>4. StatusIsTrue'
    BY <1>1, <2>1, <2>2, <2>3 DEF MeasurementInv, StatusIsTrue
  <2> QED
    BY <1>1, <1>3, <2>1, <2>2, <2>4, StatusWritten
<1> QED
  BY <1>1, <1>2, <1>3

LEMMA WritePodsStatusKeepsInv == ASSUME MeasurementInv, WritePodsStatus PROVE MeasurementInv'
<1>1. /\ UNCHANGED <<config, serving, asked, pod, cached, deplRec>>
      /\ epRec' = EpIdle /\ epRec.pc = "podsStatus"
      /\ \/ /\ "epRec" \notin stale /\ stale' = Holders \ {"epRec"}
            /\ endpoints' = [epRec.copy EXCEPT !.int = epRec.copy.policy]
         \/ UNCHANGED <<endpoints, stale>>
  BY DEF WritePodsStatus, WriteStatus, Write, EpEnd, intentVars, clusterVars, objectVars, deplVars
<1>2. CASE UNCHANGED <<endpoints, stale>>
  BY <1>1, <1>2, PassEnds
<1>3. CASE /\ "epRec" \notin stale /\ stale' = Holders \ {"epRec"}
           /\ endpoints' = [epRec.copy EXCEPT !.int = epRec.copy.policy]
  <2>1. epRec.copy = endpoints /\ endpoints \in Endpoints /\ Exists
    BY <1>1, <1>3, FreshVersion
  <2>2. /\ endpoints' \in Endpoints /\ endpoints'.entries = endpoints.entries
        /\ endpoints'.int = endpoints.policy /\ endpoints'.ext = endpoints.ext
    BY <1>3, <2>1 DEF Endpoints
  <2>3. Len(Directions(endpoints.policy)) \in {1, 2}
    BY <2>1, ObjectType, DirectionsType
  <2>4. \A k \in 1 .. Len(Directions(endpoints.policy)) : PodsDone(Directions(endpoints.policy)[k])
    BY <1>1, <2>1 DEF MeasurementInv, Progress
  <2>5. /\ config[PodsIntent] # Nothing
        /\ \A dir \in ToSet(Directions(endpoints.policy)) :
                config[PodsIntent].collection = PodsCollection(dir)
    BY <2>1, <2>3, <2>4, ObjectType, DirectionsType DEF PodsDone
  <2>6. StatusIsTrue'
    BY <1>1, <2>1, <2>2, <2>5 DEF MeasurementInv, StatusIsTrue
  <2> QED
    BY <1>1, <1>3, <2>1, <2>2, <2>6, StatusWritten
<1> QED
  BY <1>1, <1>2, <1>3

\* Every entry of the version that is there becomes ready: those that were left
\* out of the request have pods that are gone.
LEMMA UpdateReadyKeepsInv == ASSUME MeasurementInv, UpdateReady PROVE MeasurementInv'
<1> DEFINE entries == [p \in DOMAIN epRec.copy.entries |-> "READY"]
           ready == [epRec.copy EXCEPT !.entries = entries]
<1>1. /\ UNCHANGED <<config, serving, asked, pod, cached, deplRec>>
      /\ epRec.pc = "update"
      /\ \/ /\ "epRec" \notin stale /\ stale' = Holders \ {"epRec"}
            /\ endpoints' = ready
            /\ epRec' = [EpIdle EXCEPT !.pc = "podsStatus", !.copy = ready]
         \/ UNCHANGED <<endpoints, stale>> /\ epRec' = EpIdle
  BY DEF UpdateReady, Write, EpEnd, EpGoTo, intentVars, clusterVars, objectVars, deplVars
<1>2. CASE UNCHANGED <<endpoints, stale>> /\ epRec' = EpIdle
  BY <1>1, <1>2, PassEnds
<1>3. CASE /\ "epRec" \notin stale /\ stale' = Holders \ {"epRec"}
           /\ endpoints' = ready
           /\ epRec' = [EpIdle EXCEPT !.pc = "podsStatus", !.copy = ready]
  <2>1. /\ epRec.copy = endpoints /\ cached = endpoints /\ endpoints \in Endpoints /\ Exists
        /\ Truthful(endpoints.entries)
    BY <1>1, <1>3, FreshVersion DEF MeasurementInv, Copies
  <2>2. entries \in Entries /\ DOMAIN entries = DOMAIN endpoints.entries
    BY <2>1, ObjectType, EntriesType DEF EntryStatus
  <2>3. \A p \in DOMAIN entries : entries[p] = "READY"
    OBVIOUS
  <2> HIDE DEF entries
  <2>4. /\ ready \in Endpoints /\ ready.entries = entries
        /\ ready.ext = endpoints.ext /\ ready.int = endpoints.int /\ ready.policy = endpoints.policy
    BY <2>1, <2>2 DEF Endpoints
  <2> HIDE DEF ready
  <2> PICK new : new = ready
    OBVIOUS
  <2>5. /\ epRec' \in EpRecs /\ epRec'.pc = "podsStatus" /\ epRec'.copy = new /\ ~epRec'.waiting
    BY <1>3, <2>4 DEF EpIdle, EpRecs
  <2>6. new # NoObject /\ endpoints' = new /\ Exists'
    BY <1>3, <2>4, ObjectType DEF Exists
  <2>7. Types' /\ Versions'
    BY <1>1, <1>3, <2>4, <2>5, <2>6
    DEF MeasurementInv, Types, ServiceTypes, ObjectTypes, Versions, Holders
  <2>8. /\ Measured(new.entries)' \subseteq Targets(endpoints.entries)
        /\ Measured(new.entries)' \subseteq Targets(new.entries)
        /\ Truthful(new.entries)'
    BY <1>1, <2>1, <2>2, <2>3, <2>4 DEF Measured, Targets, Truthful
  <2>9. Copies'
    <3>1. Truthful(deplRec.entries)' /\ Truthful(cached.entries)'
      BY <1>1, <2>1 DEF MeasurementInv, Copies, Truthful
    <3>2. Measured(endpoints.entries)' = Measured(new.entries)'
      BY <1>3 DEF Measured
    <3> QED
      BY <1>1, <1>3, <2>1, <2>5, <2>6, <2>8, <3>1, <3>2 DEF Copies, Targets, Truthful
  <2>10. /\ serving'[PodsIntent] = "none"
         /\ config'[PodsIntent] # Nothing /\ config'[PodsIntent].pods = Targets(endpoints.entries)
    <3>1. Len(Directions(endpoints.policy)) \in {1, 2}
      BY <2>1, ObjectType, DirectionsType
    <3>2. 1 \in 1 .. Len(Directions(endpoints.policy))
      BY <3>1
    <3> QED
      BY <1>1, <2>1, <3>2 DEF MeasurementInv, Progress, Waiting, PodsDone
  <2>11. Requests'
    <3>1. \A p \in Measured(new.entries)' : p \in config'[PodsIntent].pods
      BY <2>8, <2>10
    <3> QED
      BY <1>3, <2>10, <3>1 DEF Requests, ReadyIsMeasured, Measured
  <2>12. Progress'
    BY <1>1, <2>1, <2>4, <2>5 DEF MeasurementInv, Progress, PodsDone
  <2>13. Waiting'
    BY <2>5 DEF Waiting
  <2>14. StatusIsTrue'
    BY <1>1, <1>3, <2>1, <2>4 DEF MeasurementInv, StatusIsTrue
  <2> QED
    BY <2>7, <2>9, <2>11, <2>12, <2>13, <2>14 DEF MeasurementInv
<1> QED
  BY <1>1, <1>2, <1>3
-----------------------------------------------------------------------------
(* Requests *)

LEMMA AcceptStep ==
    ASSUME ServiceTypes, NEW i \in Intent, NEW content \in Content, Accept(i, "configure", content)
    PROVE  /\ ServiceTypes' /\ UNCHANGED config
           /\ serving[i] = "none" /\ serving'[i] = "configure" /\ asked'[i] = content
           /\ \A j \in Intent \ {i} : serving'[j] = serving[j] /\ asked'[j] = asked[j]
<1>1. content # Nothing
  BY ContentType
<1> QED
  BY <1>1 DEF ServiceTypes, Accept, IsBusy

\* A request is accepted and waited for.
LEMMA AcceptKeepsInv ==
    ASSUME MeasurementInv, NEW i \in Intent, NEW content \in Content, Accept(i, "configure", content),
           \/ epRec.pc = "ingress" /\ i = IngressIntent(Direction)
           \/ /\ epRec.pc = "pods" /\ i = PodsIntent
              /\ content = [collection |-> PodsCollection(Direction), pods |-> epRec.targets],
           epRec' = [epRec EXCEPT !.waiting = TRUE],
           UNCHANGED <<pod, endpoints, cached, stale, deplRec>>
    PROVE  MeasurementInv'
<1>1. /\ ServiceTypes' /\ UNCHANGED config
      /\ serving'[i] = "configure" /\ asked'[i] = content
      /\ \A j \in Intent \ {i} : serving'[j] = serving[j] /\ asked'[j] = asked[j]
  BY AcceptStep DEF MeasurementInv, Types
<1>2. /\ epRec' \in EpRecs /\ epRec'.pc = epRec.pc /\ epRec'.dir = epRec.dir
      /\ epRec'.copy = epRec.copy /\ epRec'.targets = epRec.targets
  BY DEF MeasurementInv, Types, ObjectTypes, EpRecs
<1>3. ObjectTypes' /\ Versions' /\ Copies'
  BY <1>2, PassKeepsCopy
<1>4. Measured(endpoints.entries)' = Measured(endpoints.entries)
  BY DEF Measured
<1>5. Requests'
  <2>1. ReadyIsMeasured'
    BY <1>1 DEF MeasurementInv, Requests, ReadyIsMeasured, Exists
  <2>2. CASE i = PodsIntent
    <3>1. content.pods = Targets(epRec.copy.entries)
      BY <2>2, IntentNames DEF MeasurementInv, Waiting
    <3>2. Exists => Measured(endpoints.entries) \subseteq content.pods
      BY <2>2, <3>1, IntentNames DEF MeasurementInv, Copies
    <3> QED
      BY <1>1, <1>4, <2>1, <2>2, <3>2 DEF Requests, Exists
  <2>3. CASE i # PodsIntent
    <3>1. serving'[PodsIntent] = serving[PodsIntent] /\ asked'[PodsIntent] = asked[PodsIntent]
      BY <1>1, <2>3, IntentNames
    <3> QED
      BY <1>4, <2>1, <3>1 DEF MeasurementInv, Requests, Exists
  <2> QED
    BY <2>2, <2>3
<1>6. Progress' /\ StatusIsTrue'
  BY <1>1, <1>2 DEF MeasurementInv, Progress, IngressDone, PodsDone, StatusIsTrue, Exists
<1>7. Waiting'
  <2>1. Direction' = Direction
    BY <1>2 DEF Direction
  <2> QED
    BY <1>1, <1>2, <2>1, IntentNames DEF MeasurementInv, Waiting
<1> QED
  BY <1>1, <1>3, <1>5, <1>6, <1>7 DEF MeasurementInv, Types

LEMMA SendIngressKeepsInv == ASSUME MeasurementInv, SendIngress PROVE MeasurementInv'
<1>1. /\ UNCHANGED <<pod, endpoints, cached, stale, deplRec>>
      /\ epRec.pc = "ingress"
  BY DEF SendIngress, clusterVars, objectVars, deplVars
<1>2. PICK i \in Intent : i = IngressIntent(Direction)
  BY IntentNames
<1>3. PICK content \in Content : content = [collection |-> "external", pods |-> {}]
  BY ContentType DEF Collection
<1>4. \/ EpEnd(TRUE) /\ UNCHANGED intentVars
      \/ Accept(i, "configure", content) /\ epRec' = [epRec EXCEPT !.waiting = TRUE]
  BY <1>2, <1>3 DEF SendIngress, Send
<1>5. CASE EpEnd(TRUE) /\ UNCHANGED intentVars
  BY <1>1, <1>5, PassEnds DEF EpEnd, intentVars
<1>6. CASE Accept(i, "configure", content) /\ epRec' = [epRec EXCEPT !.waiting = TRUE]
  BY <1>1, <1>2, <1>6, AcceptKeepsInv
<1> QED
  BY <1>4, <1>5, <1>6

LEMMA SendPodsKeepsInv == ASSUME MeasurementInv, SendPods PROVE MeasurementInv'
<1>1. /\ UNCHANGED <<pod, endpoints, cached, stale, deplRec>>
      /\ epRec.pc = "pods"
  BY DEF SendPods, clusterVars, objectVars, deplVars
<1>2. epRec.targets \in SUBSET Pod
  BY DEF MeasurementInv, Types, ObjectTypes, EpRecs
<1>3. PICK content \in Content :
        content = [collection |-> PodsCollection(Direction), pods |-> epRec.targets]
  BY <1>2, ContentType, IntentNames
<1>4. \/ EpEnd(TRUE) /\ UNCHANGED intentVars
      \/ Accept(PodsIntent, "configure", content) /\ epRec' = [epRec EXCEPT !.waiting = TRUE]
  BY <1>3 DEF SendPods, Send
<1>5. CASE EpEnd(TRUE) /\ UNCHANGED intentVars
  BY <1>1, <1>5, PassEnds DEF EpEnd, intentVars
<1>6. CASE Accept(PodsIntent, "configure", content) /\ epRec' = [epRec EXCEPT !.waiting = TRUE]
  BY <1>1, <1>3, <1>6, AcceptKeepsInv, IntentNames
<1> QED
  BY <1>4, <1>5, <1>6
-----------------------------------------------------------------------------
(* Answers *)

\* A request that ends disturbs nothing that is configured: it is refused, or it
\* asks for the collection that is there.
LEMMA FinishStep ==
    ASSUME MeasurementInv, NEW i \in Intent, NEW ok \in BOOLEAN, Finish(i, ok), ok => ~IsRefused(i),
           UNCHANGED <<pod, endpoints>>
    PROVE  /\ ServiceTypes' /\ Requests' /\ StatusIsTrue'
           /\ \A dir : /\ IngressDone(dir) => IngressDone(dir)'
                       /\ PodsDone(dir) => PodsDone(dir)'
           /\ serving[i] = "configure" /\ serving'[i] = "none"
           /\ ok => config'[i] = asked[i] /\ asked[i] # Nothing
           /\ \A j \in Intent \ {i} : serving'[j] = serving[j] /\ asked'[j] = asked[j] /\ config'[j] = config[j]
<1>1. /\ config' = [config EXCEPT ![i] = IF ok THEN asked[i] ELSE config[i]]
      /\ serving' = [serving EXCEPT ![i] = "none"] /\ asked' = [asked EXCEPT ![i] = Nothing]
      /\ serving[i] = "configure" /\ asked[i] # Nothing
  BY DEF Finish, IsBusy, MeasurementInv, Types, ServiceTypes
<1>2. ServiceTypes'
  BY <1>1 DEF MeasurementInv, Types, ServiceTypes
<1>3. /\ ok => config'[i] = asked[i] /\ asked[i] # Nothing
      /\ ~ok => config'[i] = config[i]
      /\ serving'[i] = "none"
      /\ \A j \in Intent \ {i} : serving'[j] = serving[j] /\ asked'[j] = asked[j] /\ config'[j] = config[j]
  BY <1>1 DEF MeasurementInv, Types, ServiceTypes
<1>4. \A j \in Intent : config[j] # Nothing =>
            config'[j] # Nothing /\ config'[j].collection = config[j].collection
  BY <1>3 DEF IsRefused
<1>5. \A dir : IngressDone(dir) => IngressDone(dir)'
  BY <1>4, IntentNames DEF IngressDone
<1>6. \A dir : PodsDone(dir) => PodsDone(dir)'
  BY <1>4, IntentNames DEF PodsDone
<1>7. StatusIsTrue'
  BY <1>4, IntentNames DEF MeasurementInv, StatusIsTrue, Exists
<1>8. Requests'
  <2>1. Measured(endpoints.entries)' = Measured(endpoints.entries) /\ Exists' = Exists
    BY DEF Measured, Exists
  <2>2. ReadyIsMeasured'
    <3>1. CASE i = PodsIntent /\ ok
      BY <1>1, <1>3, <3>1 DEF MeasurementInv, Requests, Measured, ReadyIsMeasured, Exists
    <3>2. CASE i # PodsIntent \/ ~ok
      <4>1. config'[PodsIntent] = config[PodsIntent]
        BY <1>3, <3>2, IntentNames
      <4> QED
        BY <4>1 DEF MeasurementInv, Requests, ReadyIsMeasured, Exists
    <3> QED
      BY <3>1, <3>2
  <2>3. serving'[PodsIntent] = "configure" =>
            serving[PodsIntent] = "configure" /\ asked'[PodsIntent] = asked[PodsIntent]
    BY <1>3, IntentNames
  <2> QED
    BY <2>1, <2>2, <2>3 DEF MeasurementInv, Requests
<1> QED
  BY <1>1, <1>2, <1>3, <1>5, <1>6, <1>7, <1>8

LEMMA TwoDirections ==
    ASSUME NEW dir \in {1, 2}, NEW n \in {1, 2}, dir <= n
    PROVE  /\ dir < n => dir = 1 /\ n = 2
           /\ ~(dir < n) => n = dir
           /\ \A k \in 1 .. dir : k \in 1 .. dir - 1 \/ k = dir
OBVIOUS

\* The pass that is answered OK has one more direction done.
LEMMA NextDirectionStep ==
    ASSUME MeasurementInv, NEW step \in {"ingressStatus", "update"}, NextDirection(step),
           epRec.pc \in {"ingress", "pods"},
           NEW n, n = Len(Directions(epRec.copy.policy))
    PROVE  /\ epRec' \in EpRecs /\ ~epRec'.waiting
           /\ epRec'.copy = epRec.copy /\ epRec'.targets = epRec.targets
           /\ \/ epRec'.pc = epRec.pc /\ epRec'.dir <= n /\ epRec'.dir - 1 = epRec.dir
              \/ epRec'.pc = step /\ n = epRec.dir
           /\ \A k \in 1 .. epRec.dir : k \in 1 .. epRec.dir - 1 \/ k = epRec.dir
<1>1. epRec \in EpRecs /\ epRec.copy \in Endpoints
  BY DEF MeasurementInv, Copies, Types, ObjectTypes, EpRecs
<1>2. n \in {1, 2} /\ epRec.dir <= n /\ epRec.dir \in {1, 2}
  BY <1>1, ObjectType, DirectionsType DEF MeasurementInv, Progress, EpRecs
<1>3. \A k \in 1 .. epRec.dir : k \in 1 .. epRec.dir - 1 \/ k = epRec.dir
  BY <1>2, TwoDirections
<1>4. CASE epRec.dir < n
  <2>1. epRec' = [epRec EXCEPT !.dir = epRec.dir + 1, !.waiting = FALSE]
    BY <1>4 DEF NextDirection
  <2>2. epRec.dir = 1 /\ n = 2
    BY <1>2, <1>4, TwoDirections
  <2>3. epRec.dir + 1 = 2 /\ 2 <= n /\ 2 - 1 = epRec.dir
    BY <2>2
  <2> QED
    BY <1>1, <1>3, <2>1, <2>3 DEF EpRecs
<1>5. CASE ~(epRec.dir < n)
  <2>1. epRec' = [epRec EXCEPT !.pc = step, !.dir = 1, !.waiting = FALSE]
    BY <1>5 DEF NextDirection
  <2>2. n = epRec.dir
    BY <1>2, <1>5, TwoDirections
  <2> QED
    BY <1>1, <1>3, <2>1, <2>2 DEF EpRecs
<1> QED
  BY <1>4, <1>5

\* The parts that are left to show of a step that ends a request.
LEMMA ServedStep ==
    ASSUME MeasurementInv, NEW i \in Intent, NEW ok \in BOOLEAN, Finish(i, ok), ok => ~IsRefused(i),
           UNCHANGED <<pod, endpoints, cached, stale, deplRec>>,
           epRec' \in EpRecs,
           \/ epRec'.pc = "idle"
           \/ /\ epRec'.copy = epRec.copy
              /\ epRec.pc \notin {"idle", "podsStatus"} /\ epRec'.pc # "podsStatus",
           Progress', Waiting'
    PROVE  MeasurementInv'
BY FinishStep, PassKeepsCopy DEF MeasurementInv, Types

LEMMA IngressAnswered ==
    ASSUME MeasurementInv, NEW i \in Intent, Finish(i, TRUE), ~IsRefused(i),
           epRec.pc = "ingress", IngressIntent(Direction) = i, NextDirection("ingressStatus"),
           UNCHANGED <<pod, endpoints, cached, stale, deplRec>>
    PROVE  MeasurementInv'
<1> PICK directions : directions = Directions(epRec.copy.policy)
  OBVIOUS
<1> PICK n : n = Len(directions)
  OBVIOUS
<1>1. /\ epRec' \in EpRecs /\ ~epRec'.waiting /\ epRec'.copy = epRec.copy
      /\ \/ epRec'.pc = "ingress" /\ epRec'.dir <= n /\ epRec'.dir - 1 = epRec.dir
         \/ epRec'.pc = "ingressStatus" /\ n = epRec.dir
      /\ \A k \in 1 .. epRec.dir : k \in 1 .. epRec.dir - 1 \/ k = epRec.dir
  BY NextDirectionStep
<1>2. /\ \A dir : IngressDone(dir) => IngressDone(dir)'
      /\ config'[i] # Nothing
  BY FinishStep
<1>3. \A k \in 1 .. epRec.dir : config'[IngressIntent(directions[k])] # Nothing
  <2>1. \A k \in 1 .. epRec.dir - 1 : IngressDone(directions[k])
    BY DEF MeasurementInv, Progress
  <2>2. IngressIntent(directions[epRec.dir]) = i
    BY DEF Direction
  <2> QED
    BY <1>1, <1>2, <2>1, <2>2 DEF IngressDone
<1>4. Progress' /\ Waiting'
  BY <1>1, <1>3 DEF Progress, Waiting, IngressDone
<1> QED
  BY <1>1, <1>4, ServedStep

LEMMA PodsAnswered ==
    ASSUME MeasurementInv, Finish(PodsIntent, TRUE), ~IsRefused(PodsIntent),
           epRec.waiting, epRec.pc = "pods", NextDirection("update"),
           UNCHANGED <<pod, endpoints, cached, stale, deplRec>>
    PROVE  MeasurementInv'
<1> PICK directions : directions = Directions(epRec.copy.policy)
  OBVIOUS
<1> PICK n : n = Len(directions)
  OBVIOUS
<1>1. /\ epRec' \in EpRecs /\ ~epRec'.waiting /\ epRec'.copy = epRec.copy
      /\ epRec'.targets = epRec.targets
      /\ \/ epRec'.pc = "pods" /\ epRec'.dir <= n /\ epRec'.dir - 1 = epRec.dir
         \/ epRec'.pc = "update" /\ n = epRec.dir
      /\ \A k \in 1 .. epRec.dir : k \in 1 .. epRec.dir - 1 \/ k = epRec.dir
  BY NextDirectionStep
<1>2. /\ \A dir : PodsDone(dir) => PodsDone(dir)'
      /\ serving'[PodsIntent] = "none"
      /\ config'[PodsIntent] = asked[PodsIntent] /\ asked[PodsIntent] # Nothing
  BY FinishStep, IntentNames
<1>3. /\ asked[PodsIntent].collection = PodsCollection(directions[epRec.dir])
      /\ asked[PodsIntent].pods = epRec.targets
      /\ epRec.targets = Targets(epRec.copy.entries)
  BY DEF MeasurementInv, Waiting, Direction
<1>4. \A k \in 1 .. epRec.dir : /\ config'[PodsIntent] # Nothing
                                /\ config'[PodsIntent].collection = PodsCollection(directions[k])
  <2>1. \A k \in 1 .. epRec.dir - 1 : PodsDone(directions[k])
    BY DEF MeasurementInv, Progress
  <2> QED
    BY <1>1, <1>2, <1>3, <2>1 DEF PodsDone
<1>5. Progress'
  BY <1>1, <1>4 DEF Progress, PodsDone
<1>6. Waiting'
  BY <1>1, <1>2, <1>3 DEF Waiting, Targets
<1> QED
  BY <1>1, <1>5, <1>6, ServedStep, IntentNames

LEMMA AnsweredFailed ==
    ASSUME MeasurementInv, NEW i \in Intent, NEW ok \in BOOLEAN, Finish(i, ok), ok => ~IsRefused(i),
           EpEnd(TRUE), UNCHANGED <<pod, endpoints, cached, stale, deplRec>>
    PROVE  MeasurementInv'
<1>1. epRec' = EpIdle
  BY DEF EpEnd
<1>2. Progress' /\ Waiting'
  BY <1>1 DEF EpIdle, Progress, Waiting
<1> QED
  BY <1>1, <1>2, ServedStep, IdleTypes

\* The client has gone, or waits for another answer.
LEMMA NobodyWaits ==
    ASSUME MeasurementInv, NEW i \in Intent, NEW ok \in BOOLEAN, Finish(i, ok), ok => ~IsRefused(i),
           ~(epRec.waiting /\ epRec.pc = "ingress" /\ IngressIntent(Direction) = i),
           ~(epRec.waiting /\ epRec.pc = "pods" /\ i = PodsIntent),
           UNCHANGED <<pod, endpoints, cached, stale, deplRec, epRec>>
    PROVE  MeasurementInv'
<1>1. /\ ServiceTypes' /\ Requests' /\ StatusIsTrue'
      /\ \A dir : /\ IngressDone(dir) => IngressDone(dir)'
                  /\ PodsDone(dir) => PodsDone(dir)'
      /\ serving[i] = "configure"
      /\ \A j \in Intent \ {i} : serving'[j] = serving[j] /\ asked'[j] = asked[j] /\ config'[j] = config[j]
  BY FinishStep
<1>2. ObjectTypes' /\ Versions' /\ Copies'
  BY DEF MeasurementInv, Types, ObjectTypes, Versions, Copies, Truthful, Measured, Exists
<1>3. Progress'
  <2> PICK directions : directions = Directions(epRec.copy.policy)
    OBVIOUS
  <2>1. /\ epRec.pc = "ingress" => \A k \in 1 .. epRec.dir - 1 : IngressDone(directions[k])'
        /\ epRec.pc = "ingressStatus" => \A k \in 1 .. Len(directions) : IngressDone(directions[k])'
        /\ epRec.pc = "pods" => \A k \in 1 .. epRec.dir - 1 : PodsDone(directions[k])'
        /\ epRec.pc \in {"update", "podsStatus"} =>
              \A k \in 1 .. Len(directions) : PodsDone(directions[k])'
    BY <1>1 DEF MeasurementInv, Progress
  <2> QED
    BY <2>1 DEF MeasurementInv, Progress, IngressDone, PodsDone
<1>4. Waiting'
  <2>1. Direction' = Direction
    BY DEF Direction
  <2>2. CASE i = PodsIntent
    BY <1>1, <2>1, <2>2, IntentNames DEF MeasurementInv, Waiting
  <2>3. CASE i # PodsIntent
    <3>1. /\ serving'[PodsIntent] = serving[PodsIntent] /\ asked'[PodsIntent] = asked[PodsIntent]
          /\ config'[PodsIntent] = config[PodsIntent]
      BY <1>1, <2>3, IntentNames
    <3>2. epRec.waiting /\ epRec.pc = "ingress" =>
            serving'[IngressIntent(Direction)] = serving[IngressIntent(Direction)]
      BY <1>1, IntentNames
    <3> QED
      BY <2>1, <3>1, <3>2 DEF MeasurementInv, Waiting
  <2> QED
    BY <2>2, <2>3
<1> QED
  BY <1>1, <1>2, <1>3, <1>4 DEF MeasurementInv, Types

LEMMA ServeKeepsInv == ASSUME MeasurementInv, NEW i \in Intent, Serve(i) PROVE MeasurementInv'
<1>1. UNCHANGED <<pod, endpoints, cached, stale, deplRec>>
  BY DEF Serve, clusterVars, objectVars, deplVars
<1>2. PICK ok \in BOOLEAN : Finish(i, ok) /\ Answer(i, ok) /\ (ok => ~IsRefused(i))
  BY DEF Serve
<1>3. CASE epRec.waiting /\ epRec.pc = "ingress" /\ IngressIntent(Direction) = i
  <2>1. IF ok THEN NextDirection("ingressStatus") ELSE EpEnd(TRUE)
    BY <1>2, <1>3 DEF Answer
  <2>2. CASE ok
    BY <1>1, <1>2, <1>3, <2>1, <2>2, IngressAnswered
  <2>3. CASE ~ok
    BY <1>1, <1>2, <2>1, <2>3, AnsweredFailed
  <2> QED
    BY <2>2, <2>3
<1>4. CASE epRec.waiting /\ epRec.pc = "pods" /\ i = PodsIntent
  <2>1. IF ok THEN NextDirection("update") ELSE EpEnd(TRUE)
    BY <1>2, <1>4 DEF Answer
  <2>2. CASE ok
    BY <1>1, <1>2, <1>4, <2>1, <2>2, PodsAnswered
  <2>3. CASE ~ok
    BY <1>1, <1>2, <2>1, <2>3, AnsweredFailed
  <2> QED
    BY <2>2, <2>3
<1>5. CASE /\ ~(epRec.waiting /\ epRec.pc = "ingress" /\ IngressIntent(Direction) = i)
           /\ ~(epRec.waiting /\ epRec.pc = "pods" /\ i = PodsIntent)
  <2>1. UNCHANGED epRec
    BY <1>2, <1>5 DEF Answer, epVars
  <2> QED
    BY <1>1, <1>2, <1>5, <2>1, NobodyWaits
<1> QED
  BY <1>3, <1>4, <1>5
-----------------------------------------------------------------------------
LEMMA MeasurementStep == ASSUME MeasurementInv, [Next]_vars PROVE MeasurementInv'
<1>1. CASE \/ UNCHANGED vars \/ DeplReturn \/ CreateDeployment \/ Trigger
           \/ \E s \in IncSwitch : ProgramChanges(s)
  <2>1. UNCHANGED held
    BY <1>1
    DEF vars, DeplReturn, CreateDeployment, Trigger, ProgramChanges, held, intentVars, clusterVars,
        objectVars, deplVars, epVars
  <2> QED
    BY <2>1, Unaffected
<1>2. CASE Sync \/ CreateEndpoints \/ ListPods \/ UpdateEntries
  BY <1>2, SyncKeepsInv, CreateEndpointsKeepsInv, ListPodsKeepsInv, UpdateEntriesKeepsInv
<1>3. CASE EndpointsPass \/ Faults
  BY <1>3, EpBeginKeepsInv, SendIngressKeepsInv, WriteIngressStatusKeepsInv, CheckEntriesKeepsInv,
     SendPodsKeepsInv, UpdateReadyKeepsInv, WritePodsStatusKeepsInv, FaultsKeepInv
  DEF EndpointsPass
<1>4. CASE \E i \in Intent : Serve(i)
  BY <1>4, ServeKeepsInv
<1>5. CASE \/ \E p \in Pod : PodStarts(p) \/ PodGoes(p)
           \/ \E policy \in Policies : Edit(policy)
  BY <1>5, PodKeepsInv, EditKeepsInv
<1> QED
  BY <1>1, <1>2, <1>3, <1>4, <1>5 DEF Next, DeploymentPass, Cluster

LEMMA MeasurementInvHolds == Spec => []MeasurementInv
<1>1. Init => MeasurementInv
  BY MeasurementInit
<1>2. MeasurementInv /\ [Next]_vars => MeasurementInv'
  BY MeasurementStep
<1> QED
  BY <1>1, <1>2, PTL DEF Spec

(***************************************************************************)
(* What the status of the endpoints says is configured, is configured:     *)
(* EpBegin works with a copy, whose directions it asks for one by one      *)
(* while the object is edited, requests are refused and answers lost       *)
(* (externalinnetworktelemetryendpoints_controller.go).                    *)
(***************************************************************************)
THEOREM StatusIsTrueTheorem == Spec => []StatusIsTrue
<1>1. MeasurementInv => StatusIsTrue
  BY DEF MeasurementInv
<1> QED
  BY <1>1, MeasurementInvHolds, PTL

(***************************************************************************)
(* A running pod whose entry is READY has telemetry, although UpdateReady  *)
(* makes every entry of its copy ready                                     *)
(* (externalinnetworktelemetryendpoints_controller.go).                    *)
(***************************************************************************)
THEOREM ReadyIsMeasuredTheorem == Spec => []ReadyIsMeasured
<1>1. MeasurementInv => ReadyIsMeasured
  BY DEF MeasurementInv, Requests
<1> QED
  BY <1>1, MeasurementInvHolds, PTL

(***************************************************************************)
(* The controller uses the service as it promises to be used: every step   *)
(* is one of TelemetryIntents, which TelemetryService implements, or       *)
(* leaves it alone.                                                        *)
(***************************************************************************)
THEOREM ExternalUsesTheService == Spec => IntentsInit /\ [][IntentsNext]_intentVars
<1>1. Init => IntentsInit
  BY DEF Init
<1>2. MeasurementInv /\ [Next]_vars => [IntentsNext]_intentVars
  <2> SUFFICES ASSUME MeasurementInv, [Next]_vars PROVE [IntentsNext]_intentVars
    OBVIOUS
  <2>1. CASE SendIngress
    <3>1. [collection |-> "external", pods |-> {}] \in Content
      BY ContentType DEF Collection
    <3> QED
      BY <2>1, <3>1, IntentNames DEF SendIngress, Send, IntentsNext
  <2>2. CASE SendPods
    <3>1. [collection |-> PodsCollection(Direction), pods |-> epRec.targets] \in Content
      BY ContentType, IntentNames DEF MeasurementInv, Types, ObjectTypes, EpRecs
    <3> QED
      BY <2>2, <3>1, IntentNames DEF SendPods, Send, IntentsNext
  <2>3. CASE \E i \in Intent : Serve(i)
    BY <2>3 DEF Serve, IntentsNext
  <2>4. CASE \/ UNCHANGED vars \/ Sync \/ DeploymentPass \/ Faults \/ Cluster
             \/ EpBegin \/ WriteIngressStatus \/ CheckEntries \/ UpdateReady \/ WritePodsStatus
    <3>1. UNCHANGED intentVars
      BY <2>4
      DEF vars, Sync, DeploymentPass, DeplReturn, CreateDeployment, CreateEndpoints, ListPods, UpdateEntries,
          Faults, IngressFails, PodsFail, Cluster, PodStarts, PodGoes, PodChanges, ProgramChanges, Trigger,
          Edit, EpBegin, WriteIngressStatus, WriteStatus, CheckEntries, UpdateReady, WritePodsStatus
    <3> QED
      BY <3>1
  <2> QED
    BY <2>1, <2>2, <2>3, <2>4 DEF Next, EndpointsPass
<1> QED
  BY <1>1, <1>2, MeasurementInvHolds, PTL DEF Spec
===============================================================================
