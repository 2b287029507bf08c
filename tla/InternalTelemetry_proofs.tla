----------------------- MODULE InternalTelemetry_proofs -----------------------
(***************************************************************************)
(* Proofs that the entries of the endpoints object and the telemetry of    *)
(* both directions agree, for any pods and any number of lost calls,       *)
(* refused requests, failing writes and changes of the collector.          *)
(***************************************************************************)
EXTENDS InternalTelemetry, TLAPS

Kept(object) == getEntitiesForEndpoints(object.entries)
ReadyIn(entries) == {p \in DOMAIN entries : entries[p] = "READY"}

\* Only a living object's entries are read as a promise.
Live == Exists /\ ~endpoints.marked

\* The types the proof needs.
ServiceTypes ==
    /\ config \in [Intent -> {Nothing} \cup SUBSET Pod]
    /\ serving \in [Intent -> {"none", "configure", "disable"}]
    /\ asked \in [Intent -> {Nothing} \cup SUBSET Pod]
    /\ abandoned \subseteq Intent
    /\ \A i \in Intent :
        /\ serving[i] = "configure" => asked[i] # Nothing
        /\ serving[i] = "disable" => asked[i] = Nothing

ObjectTypes ==
    /\ endpoints \in {NoObject} \cup Endpoints
    /\ cached \in {NoObject} \cup Endpoints
    /\ deplRec \in [pc : {"idle", "update"}, entries : Entries]
    /\ epRec \in [pc : {"idle", "configure", "update", "disable", "finalize"}, pair : {1, 2},
                  copy : {NoObject} \cup Endpoints, retry : BOOLEAN, waiting : BOOLEAN]
    /\ stale \subseteq Holders

Types == ServiceTypes /\ ObjectTypes

\* Who holds a version that is not old has what is there, and what is derived
\* from it; nobody holds a newer one than the cache.
Versions ==
    /\ "cache" \in stale => stale = Holders
    /\ "cache" \notin stale => cached = endpoints
    /\ epRec.pc # "idle" /\ "epRec" \notin stale => epRec.copy = endpoints
    /\ deplRec.pc = "update" /\ "deplRec" \notin stale =>
          /\ Exists
          /\ DOMAIN endpoints.entries \subseteq DOMAIN deplRec.entries
          /\ ReadyIn(deplRec.entries) \subseteq ReadyIn(endpoints.entries)

\* A set of entities that may be configured: it names pods of the list only, and
\* all that are ready.
Suitable(entities) ==
    /\ Exists
    /\ entities \subseteq DOMAIN endpoints.entries
    /\ Live => ReadyIn(endpoints.entries) \subseteq entities

NobodyIsReady == Live => ReadyIn(endpoints.entries) = {}

\* Old versions are good enough to configure from, and an object that was marked
\* for deletion has no living successor in which a pod is ready.
Copies ==
    /\ cached # NoObject =>
          IF cached.marked THEN ~Live ELSE Suitable(Kept(cached))
    /\ epRec.pc \in {"configure", "update"} =>
          epRec.copy # NoObject /\ ~epRec.copy.marked /\ Suitable(Kept(epRec.copy))
    /\ epRec.pc \in {"disable", "finalize"} =>
          epRec.copy # NoObject /\ epRec.copy.marked /\ NobodyIsReady

\* What the service works on, whether or not its client still waits.
Requests ==
    \A i \in Intent :
        /\ serving[i] = "configure" => Suitable(asked[i])
        /\ serving[i] = "disable" => NobodyIsReady

IsConfigured(i) == ~IsBusy(i) /\ config[i] = Kept(epRec.copy)

\* How far the pass has come with the pairs.
Progress ==
    /\ epRec.pc = "idle" => ~epRec.retry /\ ~epRec.waiting
    /\ epRec.waiting =>
          /\ epRec.pc = "configure"
          /\ serving[Current] = "configure" /\ asked[Current] = Kept(epRec.copy)
    /\ epRec.pc = "configure" /\ epRec.pair = 2 /\ ~epRec.retry =>
          PairedDeployments[1] = Current \/ IsConfigured(PairedDeployments[1])
    /\ epRec.pc = "update" => \A i \in Intent : IsConfigured(i)

IsDisabled(i) ==
    /\ serving[i] # "configure"
    /\ config[i] = Nothing \/ serving[i] = "disable" \/ i \in abandoned

Removal ==
    /\ epRec.pc = "disable" /\ epRec.pair = 2 /\ ~epRec.retry => IsDisabled(PairedDeployments[1])
    /\ epRec.pc = "finalize" => \A i \in Intent : IsDisabled(i)

ReadyIsIn(i) ==
    Live /\ ReadyIn(endpoints.entries) # {} =>
        config[i] # Nothing /\ ReadyIn(endpoints.entries) \subseteq config[i]

Agreement ==
    /\ \A i \in Intent : ReadyIsIn(i)
    /\ ForgottenIsUnconfigured
    /\ GoneIsDisabled

TelemetryInv == Types /\ Versions /\ Copies /\ Requests /\ Progress /\ Removal /\ Agreement

intentsAndEntries == <<config, serving, asked, abandoned, endpoints, cached, stale, deplRec, epRec>>

LEMMA EntriesType ==
    ASSUME NEW e PROVE e \in Entries <=> DOMAIN e \in SUBSET Pod /\ e \in [DOMAIN e -> EntryStatus]
BY DEF Entries

LEMMA ObjectType ==
    ASSUME NEW x \in Endpoints
    PROVE  /\ x # NoObject /\ x = [entries |-> x.entries, marked |-> x.marked]
           /\ x.entries \in Entries /\ x.marked \in BOOLEAN
           /\ Kept(x) \subseteq DOMAIN x.entries /\ ReadyIn(x.entries) \subseteq Kept(x)
           /\ Kept(x) \in SUBSET Pod
BY NoObjectAssumption, EntriesType
   DEF Endpoints, Kept, ReadyIn, getEntitiesForEndpoints

\* A set of pods is no absence of content.
LEMMA PodsAreContent == \A ps \in SUBSET Pod : ps # Nothing
BY IntentsAssumption, InternalAssumption DEF InternalAssumption, IntentsAssumption

LEMMA PairsAreIntents ==
    /\ Intent = {PairedDeployments[1], PairedDeployments[2]}
    /\ ObjectTypes => Current \in Intent
BY InternalAssumption DEF InternalAssumption, ObjectTypes, Current

LEMMA TelemetryInit == ASSUME Init PROVE TelemetryInv
<1> USE DEF Init, IntentsInit, DeplIdle, EpIdle
<1>1. NoEntries \in Entries
  BY EntriesType DEF NoEntries
<1>2. Types
  BY <1>1 DEF Types, ServiceTypes, ObjectTypes
<1>3. ~Exists
  BY DEF Exists
<1> QED
  BY <1>2, <1>3
  DEF TelemetryInv, Versions, Copies, Requests, Progress, Removal, Agreement, IsDisabled, ReadyIsIn,
      Live, ForgottenIsUnconfigured, GoneIsDisabled, Holders

LEMMA Unaffected == ASSUME TelemetryInv, UNCHANGED intentsAndEntries PROVE TelemetryInv'
BY DEF intentsAndEntries, TelemetryInv, Types, ServiceTypes, ObjectTypes, Versions, Copies, Requests,
       Progress, Removal, Agreement, IsDisabled, IsConfigured, ReadyIsIn, Live, Exists, Suitable,
       NobodyIsReady, ForgottenIsUnconfigured, GoneIsDisabled, Current, IsBusy

\* A version that is not old has been made from a cache that is not old.
LEMMA ReadVersion ==
    ASSUME TelemetryInv, NEW holder \in {"deplRec", "epRec"}, Read(holder)
    PROVE  /\ stale' \subseteq Holders
           /\ "cache" \in stale' <=> "cache" \in stale
           /\ "cache" \in stale' => stale' = Holders
           /\ holder \notin stale' => cached = endpoints
           /\ \A other \in Holders \ {holder} : other \in stale' <=> other \in stale
           /\ UNCHANGED <<endpoints, cached>>
BY DEF TelemetryInv, Types, ObjectTypes, Versions, Read, Holders

LEMMA FreshVersion ==
    ASSUME TelemetryInv, epRec.pc # "idle", "epRec" \notin stale
    PROVE  cached = endpoints /\ epRec.copy = endpoints
BY DEF TelemetryInv, Versions, Holders
-----------------------------------------------------------------------------
(* The cache, and writes of the other pass and the garbage collector *)

LEMMA SyncKeepsInv == ASSUME TelemetryInv, Sync PROVE TelemetryInv'
<1>1. /\ UNCHANGED <<config, serving, asked, abandoned, endpoints, deplRec, epRec>>
      /\ cached' = endpoints /\ stale' = {"deplRec", "epRec"}
  BY DEF Sync, intentVars, deplVars, TelemetryInv, Versions, Holders
<1>2. Types'
  BY <1>1 DEF TelemetryInv, Types, ServiceTypes, ObjectTypes, Holders
<1>3. Versions'
  BY <1>1 DEF Versions
<1>4. Copies'
  BY <1>1, ObjectType
  DEF TelemetryInv, Types, ObjectTypes, Copies, Suitable, NobodyIsReady, Live, Exists, Kept
<1>5. Requests' /\ Progress' /\ Removal' /\ Agreement'
  BY <1>1
  DEF TelemetryInv, Requests, Progress, Removal, Agreement, IsDisabled, IsConfigured, ReadyIsIn, Live,
      Exists, Suitable, NobodyIsReady, ForgottenIsUnconfigured, GoneIsDisabled, Current, IsBusy
<1> QED
  BY <1>2, <1>3, <1>4, <1>5 DEF TelemetryInv

\* Entries may be added or lose READY, and the object be marked, behind the back
\* of the pass that configures.
LEMMA EntriesGrow ==
    ASSUME TelemetryInv, Exists,
           endpoints' \in Endpoints,
           endpoints.marked => endpoints'.marked,
           DOMAIN endpoints.entries \subseteq DOMAIN endpoints'.entries,
           ReadyIn(endpoints'.entries) \subseteq ReadyIn(endpoints.entries),
           stale' = Holders, deplRec' \in {deplRec, DeplIdle},
           UNCHANGED <<config, serving, asked, abandoned, cached, epRec>>
    PROVE  TelemetryInv'
<1>1. Exists' /\ (Live' => Live)
  BY ObjectType DEF Exists, Live
<1>2. Types'
  <2>1. DeplIdle \in [pc : {"idle", "update"}, entries : Entries]
    BY EntriesType DEF DeplIdle, NoEntries
  <2> QED
    BY <2>1 DEF TelemetryInv, Types, ServiceTypes, ObjectTypes
<1>3. Versions'
  BY DEF Versions, Holders
<1>4. \A es : Suitable(es) => Suitable(es)'
  BY <1>1 DEF Suitable
<1>5. NobodyIsReady => NobodyIsReady'
  BY <1>1 DEF NobodyIsReady
<1>6. Copies'
  BY <1>1, <1>4, <1>5 DEF TelemetryInv, Copies, Kept
<1>7. Requests'
  BY <1>4, <1>5 DEF TelemetryInv, Requests
<1>8. Progress' /\ Removal'
  BY DEF TelemetryInv, Progress, Removal, IsDisabled, IsConfigured, Current, IsBusy
<1>9. Agreement'
  BY <1>1 DEF TelemetryInv, Agreement, ReadyIsIn, ForgottenIsUnconfigured, GoneIsDisabled, Exists
<1> QED
  BY <1>2, <1>3, <1>6, <1>7, <1>8, <1>9 DEF TelemetryInv

LEMMA CollectEndpointsKeepsInv == ASSUME TelemetryInv, CollectEndpoints PROVE TelemetryInv'
<1>1. /\ Exists /\ endpoints \in Endpoints
      /\ endpoints' = [endpoints EXCEPT !.marked = TRUE]
      /\ stale' = Holders
      /\ UNCHANGED <<config, serving, asked, abandoned, cached, epRec, deplRec>>
  BY DEF CollectEndpoints, Write, intentVars, deplVars, epVars, TelemetryInv, Types, ObjectTypes, Exists
<1>2. /\ endpoints' \in Endpoints /\ endpoints'.marked
      /\ endpoints'.entries = endpoints.entries
  BY <1>1 DEF Endpoints
<1> QED
  BY <1>1, <1>2, EntriesGrow

LEMMA CreateEndpointsKeepsInv == ASSUME TelemetryInv, CreateEndpoints PROVE TelemetryInv'
<1>1. /\ ~Exists /\ cached = NoObject
      /\ endpoints' = [entries |-> NoEntries, marked |-> FALSE]
      /\ stale' = Holders
      /\ UNCHANGED <<config, serving, asked, abandoned, cached, deplRec, epRec>>
  BY DEF CreateEndpoints, Write, intentVars, deplVars, epVars
<1>2. endpoints' \in Endpoints /\ ReadyIn(endpoints'.entries) = {}
  BY <1>1, EntriesType DEF Endpoints, NoEntries, ReadyIn
<1>3. epRec.pc \notin {"configure", "update"} /\ \A i \in Intent : serving[i] # "configure"
  BY <1>1 DEF TelemetryInv, Copies, Suitable, Agreement, GoneIsDisabled
<1>4. Types'
  BY <1>1, <1>2 DEF TelemetryInv, Types, ServiceTypes, ObjectTypes
<1>5. Versions' /\ Copies' /\ Requests'
  BY <1>1, <1>2, <1>3
  DEF TelemetryInv, Versions, Holders, Copies, Requests, NobodyIsReady
<1>6. Progress' /\ Removal'
  BY <1>1 DEF TelemetryInv, Progress, Removal, IsDisabled, IsConfigured, Current, IsBusy
<1>7. Exists'
  BY <1>2, ObjectType DEF Exists
<1>8. Agreement'
  BY <1>1, <1>2, <1>7
  DEF TelemetryInv, Agreement, ReadyIsIn, ForgottenIsUnconfigured, GoneIsDisabled
<1> QED
  BY <1>4, <1>5, <1>6, <1>8 DEF TelemetryInv
-----------------------------------------------------------------------------
(* The pass of the deployment *)

LEMMA ReconciledEntries ==
    ASSUME NEW e \in Entries
    PROVE  /\ reconcileDeploymentEndpointEntries(e) \in Entries
           /\ DOMAIN e \subseteq DOMAIN reconcileDeploymentEndpointEntries(e)
           /\ ReadyIn(reconcileDeploymentEndpointEntries(e)) \subseteq ReadyIn(e)
<1> DEFINE new == reconcileDeploymentEndpointEntries(e)
<1>1. e \in [DOMAIN e -> EntryStatus] /\ DOMAIN e \subseteq Pod
  BY EntriesType
<1>2. DOMAIN new = DOMAIN e \cup Listed /\ DOMAIN new \in SUBSET Pod
  BY <1>1 DEF reconcileDeploymentEndpointEntries, Listed
<1>3. ASSUME NEW p \in DOMAIN new
      PROVE  new[p] \in EntryStatus /\ (new[p] = "READY" => p \in DOMAIN e /\ e[p] = "READY")
  <2>1. CASE p \notin Listed
    BY <1>2, <2>1 DEF reconcileDeploymentEndpointEntries, EntryStatus
  <2>2. CASE p \in Listed /\ p \in DOMAIN e
    BY <1>1, <1>2, <2>2 DEF reconcileDeploymentEndpointEntries
  <2>3. CASE p \in Listed /\ p \notin DOMAIN e
    BY <1>2, <2>3 DEF reconcileDeploymentEndpointEntries, EntryStatus
  <2> QED
    BY <2>1, <2>2, <2>3
<1>4. new \in [DOMAIN new -> EntryStatus]
  BY <1>3 DEF reconcileDeploymentEndpointEntries
<1>5. new \in Entries
  BY <1>2, <1>4, EntriesType
<1> QED
  BY <1>2, <1>3, <1>5 DEF ReadyIn

LEMMA ListPodsKeepsInv == ASSUME TelemetryInv, ListPods PROVE TelemetryInv'
<1> DEFINE new == reconcileDeploymentEndpointEntries(cached.entries)
<1>1. /\ UNCHANGED <<config, serving, asked, abandoned, epRec, endpoints, cached>>
      /\ Read("deplRec") /\ cached \in Endpoints
      /\ deplRec' = DeplIdle \/ deplRec' = [pc |-> "update", entries |-> new]
  BY DEF ListPods, intentVars, epVars, Read, TelemetryInv, Types, ObjectTypes
<1>2. /\ cached.entries \in Entries /\ new \in Entries
      /\ DOMAIN cached.entries \subseteq DOMAIN new
      /\ ReadyIn(new) \subseteq ReadyIn(cached.entries)
  BY <1>1, ObjectType, ReconciledEntries
<1>3. DeplIdle.pc = "idle" /\ DeplIdle \in [pc : {"idle", "update"}, entries : Entries]
  BY EntriesType DEF DeplIdle, NoEntries
<1> HIDE DEF new
<1>4. stale' \subseteq Holders /\ ("cache" \in stale' <=> "cache" \in stale)
      /\ ("cache" \in stale' => stale' = Holders) /\ ("deplRec" \notin stale' => cached = endpoints)
      /\ ("epRec" \in stale' <=> "epRec" \in stale)
  BY <1>1, ReadVersion DEF Holders
<1>5. Types'
  BY <1>1, <1>2, <1>3, <1>4 DEF TelemetryInv, Types, ServiceTypes, ObjectTypes
<1>6. Versions'
  BY <1>1, <1>2, <1>3, <1>4, ObjectType DEF TelemetryInv, Versions, Exists
<1>7. Copies' /\ Requests' /\ Progress' /\ Removal' /\ Agreement'
  BY <1>1
  DEF TelemetryInv, Copies, Requests, Progress, Removal, Agreement, IsDisabled, IsConfigured, ReadyIsIn,
      Live, Exists, Suitable, NobodyIsReady, ForgottenIsUnconfigured, GoneIsDisabled, Current, IsBusy
<1> QED
  BY <1>5, <1>6, <1>7 DEF TelemetryInv

LEMMA UpdateEntriesKeepsInv == ASSUME TelemetryInv, UpdateEntries PROVE TelemetryInv'
<1>1. /\ UNCHANGED <<config, serving, asked, abandoned, epRec, cached>>
      /\ deplRec' = DeplIdle /\ deplRec.pc = "update"
      /\ \/ /\ Exists /\ "deplRec" \notin stale
            /\ endpoints' = [endpoints EXCEPT !.entries = deplRec.entries]
            /\ stale' = Holders
         \/ UNCHANGED <<endpoints, stale>>
  BY DEF UpdateEntries, intentVars, epVars, objectVars, Write
<1>2. CASE UNCHANGED <<endpoints, stale>>
  <2>1. DeplIdle.pc = "idle" /\ DeplIdle \in [pc : {"idle", "update"}, entries : Entries]
    BY EntriesType DEF DeplIdle, NoEntries
  <2>2. Types' /\ Versions'
    BY <1>1, <1>2, <2>1 DEF TelemetryInv, Types, ServiceTypes, ObjectTypes, Versions
  <2> QED
    BY <1>1, <1>2, <2>2
    DEF TelemetryInv, Copies, Requests, Progress, Removal, Agreement, IsDisabled, IsConfigured, ReadyIsIn,
        Live, Exists, Suitable, NobodyIsReady, ForgottenIsUnconfigured, GoneIsDisabled, Current, IsBusy
<1>3. CASE /\ Exists /\ "deplRec" \notin stale
           /\ endpoints' = [endpoints EXCEPT !.entries = deplRec.entries]
           /\ stale' = Holders
  <2>1. endpoints \in Endpoints /\ deplRec.entries \in Entries
    BY <1>3 DEF TelemetryInv, Types, ObjectTypes, Exists
  <2>2. /\ endpoints' \in Endpoints /\ endpoints'.marked = endpoints.marked
        /\ endpoints'.entries = deplRec.entries
    BY <1>3, <2>1 DEF Endpoints
  <2> QED
    BY <1>1, <1>3, <2>2, EntriesGrow DEF TelemetryInv, Versions
<1> QED
  BY <1>1, <1>2, <1>3
-----------------------------------------------------------------------------
(* The pass of the endpoints: reading, and ending without a write *)

LEMMA EpBeginKeepsInv == ASSUME TelemetryInv, EpBegin PROVE TelemetryInv'
<1>1. /\ UNCHANGED <<config, serving, asked, abandoned, deplRec, endpoints, cached>>
      /\ Read("epRec") /\ cached \in Endpoints /\ epRec.pc = "idle"
  BY DEF EpBegin, EpStart, intentVars, deplVars, Read, TelemetryInv, Types, ObjectTypes
<1>2. PICK step \in {"disable", "configure"} :
        /\ epRec' = [epRec EXCEPT !.pc = step, !.pair = 1, !.copy = cached]
        /\ cached.marked <=> step = "disable"
  BY <1>1, ObjectType DEF EpBegin, EpGoTo
<1>3. stale' \subseteq Holders /\ ("cache" \in stale' <=> "cache" \in stale)
      /\ ("cache" \in stale' => stale' = Holders) /\ ("epRec" \notin stale' => cached = endpoints)
      /\ ("deplRec" \in stale' <=> "deplRec" \in stale)
  BY <1>1, ReadVersion DEF Holders
<1>4. /\ epRec'.pc = step /\ epRec'.pair = 1 /\ epRec'.copy = cached /\ ~epRec'.waiting
      /\ epRec' \in [pc : {"idle", "configure", "update", "disable", "finalize"}, pair : {1, 2},
                     copy : {NoObject} \cup Endpoints, retry : BOOLEAN, waiting : BOOLEAN]
  BY <1>1, <1>2 DEF TelemetryInv, Types, ObjectTypes, Progress
<1>5. Types' /\ Versions'
  BY <1>1, <1>3, <1>4 DEF TelemetryInv, Types, ServiceTypes, ObjectTypes, Versions, Exists
<1>6. cached # NoObject
  BY <1>1, ObjectType
<1>7. Copies'
  BY <1>1, <1>2, <1>4, <1>6
  DEF TelemetryInv, Copies, Suitable, NobodyIsReady, Live, Exists, Kept
<1>8. Requests' /\ Progress' /\ Removal' /\ Agreement'
  BY <1>1, <1>4
  DEF TelemetryInv, Requests, Progress, Removal, Agreement, IsDisabled, ReadyIsIn, Live, Exists,
      Suitable, NobodyIsReady, ForgottenIsUnconfigured, GoneIsDisabled
<1> QED
  BY <1>5, <1>7, <1>8 DEF TelemetryInv

LEMMA PassEnds ==
    ASSUME TelemetryInv, epRec' = EpIdle,
           UNCHANGED <<config, serving, asked, abandoned, endpoints, cached, stale, deplRec>>
    PROVE  TelemetryInv'
<1>1. /\ epRec'.pc = "idle" /\ ~epRec'.retry /\ ~epRec'.waiting
      /\ epRec' \in [pc : {"idle", "configure", "update", "disable", "finalize"}, pair : {1, 2},
                     copy : {NoObject} \cup Endpoints, retry : BOOLEAN, waiting : BOOLEAN]
  BY DEF EpIdle
<1>2. Types' /\ Versions'
  BY <1>1 DEF TelemetryInv, Types, ServiceTypes, ObjectTypes, Versions, Exists
<1> QED
  BY <1>1, <1>2
  DEF TelemetryInv, Copies, Requests, Progress, Removal, Agreement, IsDisabled, ReadyIsIn, Live, Exists,
      Suitable, NobodyIsReady, ForgottenIsUnconfigured, GoneIsDisabled
-----------------------------------------------------------------------------
(* The pass of the endpoints and the service *)

EpRecs ==
    [pc : {"idle", "configure", "update", "disable", "finalize"}, pair : {1, 2},
     copy : {NoObject} \cup Endpoints, retry : BOOLEAN, waiting : BOOLEAN]

LEMMA NextPairStep ==
    ASSUME Types, NEW retry \in BOOLEAN, NEW step \in {"update", "finalize"}, NextPair(retry, step)
    PROVE  /\ epRec' \in EpRecs /\ ~epRec'.waiting
           /\ \/ /\ epRec.pair = 1 /\ epRec'.pair = 2
                 /\ epRec'.pc = epRec.pc /\ epRec'.copy = epRec.copy /\ epRec'.retry = retry
              \/ /\ epRec.pair = 2 /\ ~retry
                 /\ epRec'.pc = step /\ epRec'.copy = epRec.copy
              \/ epRec.pair = 2 /\ retry /\ epRec' = EpIdle
<1>1. epRec \in EpRecs /\ (epRec.pair = 1 \/ epRec.pair = 2)
  BY DEF Types, ObjectTypes, EpRecs
<1>2. CASE epRec.pair = 1
  <2>1. epRec' = [epRec EXCEPT !.pair = 2, !.retry = retry, !.waiting = FALSE]
    BY <1>2 DEF NextPair
  <2> QED
    BY <1>1, <1>2, <2>1 DEF EpRecs
<1>3. CASE epRec.pair = 2 /\ retry
  <2>1. epRec' = EpIdle
    BY <1>3 DEF NextPair, EpEnd
  <2> QED
    BY <1>3, <2>1 DEF EpIdle, EpRecs
<1>4. CASE epRec.pair = 2 /\ ~retry
  <2>1. epRec' = [epRec EXCEPT !.pc = step, !.waiting = FALSE]
    BY <1>4 DEF NextPair
  <2> QED
    BY <1>1, <1>4, <2>1 DEF EpRecs
<1> QED
  BY <1>1, <1>2, <1>3, <1>4

\* The steps of calls keep to the version that has been read.
LEMMA CallKeepsCopy ==
    ASSUME TelemetryInv, epRec' \in EpRecs,
           \/ epRec'.pc = "idle"
           \/ /\ epRec'.copy = epRec.copy
              /\ \/ {epRec.pc, epRec'.pc} \subseteq {"configure", "update"}
                 \/ {epRec.pc, epRec'.pc} \subseteq {"disable", "finalize"},
           UNCHANGED <<endpoints, cached, stale, deplRec>>
    PROVE  ObjectTypes' /\ Versions' /\ Copies'
<1>1. ObjectTypes' /\ Versions'
  BY DEF TelemetryInv, Types, ObjectTypes, EpRecs, Versions, Exists
<1>2. Copies'
  BY DEF TelemetryInv, Copies, Suitable, NobodyIsReady, Live, Exists, Kept
<1> QED
  BY <1>1, <1>2

LEMMA AcceptStep ==
    ASSUME ServiceTypes, NEW i \in Intent, NEW kind \in {"configure", "disable"},
           NEW content \in {Nothing} \cup SUBSET Pod, Accept(i, kind, content),
           kind = "configure" <=> content # Nothing
    PROVE  /\ UNCHANGED config /\ serving[i] = "none"
           /\ serving'[i] = kind /\ asked'[i] = content
           /\ \A j \in Intent \ {i} : serving'[j] = serving[j] /\ asked'[j] = asked[j]
           /\ abandoned' = abandoned => ServiceTypes'
BY DEF ServiceTypes, Accept, IsBusy

LEMMA SendConfigureKeepsInv == ASSUME TelemetryInv, SendConfigure PROVE TelemetryInv'
<1>1. /\ UNCHANGED <<abandoned, endpoints, cached, stale, deplRec>>
      /\ epRec.pc = "configure" /\ ~epRec.waiting /\ epRec \in EpRecs
      /\ Current \in Intent
  BY PairsAreIntents
  DEF SendConfigure, objectVars, deplVars, TelemetryInv, Types, ObjectTypes, EpRecs
<1>2. CASE EpEnd(TRUE) /\ UNCHANGED intentVars
  BY <1>1, <1>2, PassEnds DEF EpEnd, intentVars
<1>3. CASE IsBusy(Current) /\ NextPair(TRUE, "update") /\ UNCHANGED intentVars
  <2>1. CASE epRec' = EpIdle
    BY <1>1, <1>3, <2>1, PassEnds DEF intentVars
  <2>2. CASE /\ epRec'.pair = 2 /\ epRec'.pc = epRec.pc /\ epRec'.copy = epRec.copy
             /\ epRec'.retry = TRUE /\ ~epRec'.waiting /\ epRec' \in EpRecs
    <3>1. ObjectTypes' /\ Versions' /\ Copies'
      BY <1>1, <2>2, CallKeepsCopy
    <3>2. ServiceTypes' /\ Progress' /\ Removal'
      BY <1>1, <1>3, <2>2
      DEF intentVars, TelemetryInv, Types, ServiceTypes, Progress, Removal
    <3>3. Requests' /\ Agreement'
      BY <1>1, <1>3
      DEF intentVars, TelemetryInv, Requests, Agreement, IsDisabled, ReadyIsIn, Live, Exists,
          Suitable, NobodyIsReady, ForgottenIsUnconfigured, GoneIsDisabled
    <3> QED
      BY <3>1, <3>2, <3>3 DEF TelemetryInv, Types
  <2> QED
    BY <1>1, <1>3, <2>1, <2>2, NextPairStep DEF TelemetryInv
<1>4. CASE /\ Accept(Current, "configure", getEntitiesForEndpoints(epRec.copy.entries))
           /\ epRec' = [epRec EXCEPT !.waiting = TRUE]
  <2>1. /\ Suitable(Kept(epRec.copy)) /\ Exists
        /\ Kept(epRec.copy) \in SUBSET Pod /\ Kept(epRec.copy) # Nothing
    BY <1>1, ObjectType, PodsAreContent DEF TelemetryInv, Copies, Suitable, EpRecs
  <2>2. Accept(Current, "configure", Kept(epRec.copy))
    BY <1>4 DEF Kept
  <2>3. /\ UNCHANGED config /\ serving[Current] = "none"
        /\ serving'[Current] = "configure" /\ asked'[Current] = Kept(epRec.copy)
        /\ \A j \in Intent \ {Current} : serving'[j] = serving[j] /\ asked'[j] = asked[j]
        /\ ServiceTypes'
    BY <1>1, <2>1, <2>2, AcceptStep DEF TelemetryInv, Types
  <2>4. /\ epRec' \in EpRecs /\ epRec'.pc = epRec.pc /\ epRec'.copy = epRec.copy
        /\ epRec'.pair = epRec.pair /\ epRec'.retry = epRec.retry /\ epRec'.waiting
    BY <1>1, <1>4 DEF EpRecs
  <2>5. ObjectTypes' /\ Versions' /\ Copies'
    BY <1>1, <2>4, CallKeepsCopy
  <2>6. Requests'
    BY <1>1, <2>1, <2>3
    DEF TelemetryInv, Requests, Suitable, NobodyIsReady, Live, Exists
  <2>7. Progress'
    <3>1. Current' = Current
      BY <2>4 DEF Current
    <3>2. PairedDeployments[1] \in Intent
      BY PairsAreIntents
    <3> QED
      BY <1>1, <2>3, <2>4, <3>1, <3>2 DEF TelemetryInv, Progress, IsConfigured, IsBusy, Kept
  <2>8. Removal'
    BY <1>1, <2>4 DEF Removal
  <2>9. Agreement'
    <3>1. \A i \in Intent : ReadyIsIn(i)'
      BY <1>1, <2>3 DEF TelemetryInv, Agreement, ReadyIsIn, Live, Exists
    <3>2. ForgottenIsUnconfigured'
      BY <1>1, <2>3 DEF TelemetryInv, Agreement, ForgottenIsUnconfigured, Exists
    <3>3. GoneIsDisabled'
      BY <1>1, <2>1 DEF GoneIsDisabled, Exists
    <3> QED
      BY <3>1, <3>2, <3>3 DEF Agreement
  <2> QED
    BY <2>3, <2>5, <2>6, <2>7, <2>8, <2>9 DEF TelemetryInv, Types
<1> QED
  BY <1>2, <1>3, <1>4 DEF SendConfigure

\* A request to disable that has been accepted, or is not needed, sees to the
\* intent, and so it stays.
LEMMA DisablingStep ==
    ASSUME TelemetryInv, NEW i \in Intent, UNCHANGED abandoned,
           \/ UNCHANGED intentVars
           \/ config[i] # Nothing /\ Accept(i, "disable", Nothing)
    PROVE  /\ ServiceTypes' /\ UNCHANGED config
           /\ \A j \in Intent : IsDisabled(j) => IsDisabled(j)'
           /\ \/ UNCHANGED intentVars
              \/ serving'[i] = "disable" /\ IsDisabled(i)'
           /\ \A j \in Intent :
                \/ serving'[j] = serving[j] /\ asked'[j] = asked[j]
                \/ serving'[j] = "disable" /\ serving[j] = "none"
<1>1. CASE UNCHANGED intentVars
  BY <1>1 DEF intentVars, TelemetryInv, Types, ServiceTypes, IsDisabled
<1>2. CASE Accept(i, "disable", Nothing)
  <2>1. /\ UNCHANGED config /\ serving[i] = "none"
        /\ serving'[i] = "disable" /\ asked'[i] = Nothing
        /\ \A j \in Intent \ {i} : serving'[j] = serving[j] /\ asked'[j] = asked[j]
        /\ ServiceTypes'
    BY <1>2, AcceptStep DEF TelemetryInv, Types
  <2> QED
    BY <2>1 DEF IsDisabled
<1> QED
  BY <1>1, <1>2

LEMMA SendDisableKeepsInv == ASSUME TelemetryInv, SendDisable PROVE TelemetryInv'
<1>1. /\ UNCHANGED <<abandoned, endpoints, cached, stale, deplRec>>
      /\ epRec.pc = "disable" /\ epRec \in EpRecs /\ ~epRec.waiting
      /\ Current \in Intent
  BY PairsAreIntents
  DEF SendDisable, objectVars, deplVars, TelemetryInv, Types, ObjectTypes, EpRecs, Progress
<1>2. PICK i \in Intent : i = Current
  BY <1>1
<1>3. /\ \/ UNCHANGED intentVars
         \/ config[i] # Nothing /\ Accept(i, "disable", Nothing)
      /\ \/ epRec' = EpIdle
         \/ NextPair(TRUE, "finalize")
         \/ NextPair(epRec.retry, "finalize") /\ IsDisabled(i)'
  <2>1. CASE IsBusy(i) /\ UNCHANGED intentVars /\ NextPair(TRUE, "finalize")
    BY <2>1
  <2>2. ASSUME \/ ~IsBusy(i) /\ config[i] = Nothing /\ UNCHANGED intentVars
               \/ config[i] # Nothing /\ Accept(i, "disable", Nothing)
        PROVE  IsDisabled(i)'
    <3>1. CASE ~IsBusy(i) /\ config[i] = Nothing /\ UNCHANGED intentVars
      BY <3>1 DEF IsBusy, intentVars, IsDisabled
    <3>2. CASE config[i] # Nothing /\ Accept(i, "disable", Nothing)
      BY <3>2, AcceptStep DEF IsDisabled, TelemetryInv, Types
    <3> QED
      BY <2>2, <3>1, <3>2
  <2>3. \/ /\ IsBusy(i) /\ UNCHANGED intentVars /\ NextPair(TRUE, "finalize")
        \/ /\ \/ ~IsBusy(i) /\ config[i] = Nothing /\ UNCHANGED intentVars
              \/ config[i] # Nothing /\ Accept(i, "disable", Nothing)
           /\ NextPair(epRec.retry, "finalize") \/ epRec' = EpIdle
    BY <1>2 DEF SendDisable, EpEnd
  <2> QED
    BY <2>1, <2>2, <2>3
<1>4. /\ ServiceTypes' /\ UNCHANGED config
      /\ \A j \in Intent : IsDisabled(j) => IsDisabled(j)'
      /\ \A j \in Intent :
            \/ serving'[j] = serving[j] /\ asked'[j] = asked[j]
            \/ serving'[j] = "disable" /\ serving[j] = "none"
  BY <1>1, <1>3, DisablingStep
<1>5. /\ epRec' \in EpRecs /\ ~epRec'.waiting
      /\ \/ epRec' = EpIdle
         \/ /\ epRec.pair = 1 /\ epRec'.pair = 2
            /\ epRec'.pc = "disable" /\ epRec'.copy = epRec.copy
            /\ epRec'.retry \/ IsDisabled(i)'
         \/ /\ epRec.pair = 2 /\ ~epRec.retry
            /\ epRec'.pc = "finalize" /\ epRec'.copy = epRec.copy
            /\ IsDisabled(i)'
  <2>1. EpIdle \in EpRecs /\ ~EpIdle.waiting
    BY DEF EpIdle, EpRecs
  <2>2. CASE NextPair(TRUE, "finalize")
    BY <1>1, <2>2, NextPairStep DEF TelemetryInv
  <2>3. CASE NextPair(epRec.retry, "finalize") /\ IsDisabled(i)'
    <3>1. epRec.retry \in BOOLEAN
      BY <1>1 DEF EpRecs
    <3> QED
      BY <1>1, <2>3, <3>1, NextPairStep DEF TelemetryInv
  <2> QED
    BY <1>3, <2>1, <2>2, <2>3
<1>6. ObjectTypes' /\ Versions' /\ Copies'
  <2>1. EpIdle.pc = "idle"
    BY DEF EpIdle
  <2> QED
    BY <1>1, <1>5, <2>1, CallKeepsCopy
<1>7. Requests'
  <2>1. NobodyIsReady
    BY <1>1 DEF TelemetryInv, Copies
  <2> QED
    BY <1>1, <1>4, <2>1 DEF TelemetryInv, Requests, Suitable, NobodyIsReady, Live, Exists
<1>8. Progress'
  BY <1>5 DEF Progress, EpIdle
<1>9. Removal'
  <2>1. PairedDeployments[1] \in Intent /\ Intent = {PairedDeployments[1], PairedDeployments[2]}
    BY PairsAreIntents
  <2>2. CASE epRec.pair = 1
    <3>1. i = PairedDeployments[1]
      BY <1>2, <2>2 DEF Current
    <3> QED
      BY <1>5, <2>2, <3>1 DEF Removal, EpIdle
  <2>3. CASE epRec.pair = 2 /\ ~epRec.retry
    <3>1. i = PairedDeployments[2] /\ IsDisabled(PairedDeployments[1])'
      BY <1>1, <1>2, <1>4, <2>1, <2>3 DEF Current, TelemetryInv, Removal
    <3> QED
      BY <1>5, <2>1, <2>3, <3>1 DEF Removal, EpIdle
  <2>4. CASE epRec' = EpIdle
    BY <2>4 DEF Removal, EpIdle
  <2> QED
    BY <1>5, <2>2, <2>3, <2>4
<1>10. Agreement'
  <2>1. \A j \in Intent : ReadyIsIn(j)'
    BY <1>1, <1>4 DEF TelemetryInv, Agreement, ReadyIsIn, Live, Exists
  <2>2. ForgottenIsUnconfigured'
    BY <1>1, <1>4 DEF TelemetryInv, Agreement, ForgottenIsUnconfigured, Exists
  <2>3. GoneIsDisabled <=> (~Exists => \A j \in Intent : IsDisabled(j))
    BY DEF GoneIsDisabled, IsDisabled
  <2>4. (~Exists => \A j \in Intent : IsDisabled(j))'
    BY <1>1, <1>4, <2>3 DEF TelemetryInv, Agreement, Exists
  <2>5. GoneIsDisabled'
    BY <2>4 DEF GoneIsDisabled, IsDisabled
  <2> QED
    BY <2>1, <2>2, <2>5 DEF Agreement
<1> QED
  BY <1>4, <1>6, <1>7, <1>8, <1>9, <1>10 DEF TelemetryInv, Types

\* The version that is written from is the latest one, which nobody is being
\* asked to change.
LEMMA UpdateReadyKeepsInv == ASSUME TelemetryInv, UpdateReady PROVE TelemetryInv'
<1>1. /\ UNCHANGED <<config, serving, asked, abandoned, cached, deplRec>>
      /\ epRec' = EpIdle /\ epRec.pc = "update"
      /\ \/ /\ Exists /\ "epRec" \notin stale
            /\ endpoints' = [endpoints EXCEPT !.entries = [p \in Kept(epRec.copy) |-> "READY"]]
            /\ stale' = Holders
         \/ UNCHANGED <<endpoints, stale>>
  BY DEF UpdateReady, EpEnd, intentVars, deplVars, objectVars, Write, Kept
<1>2. CASE UNCHANGED <<endpoints, stale>>
  BY <1>1, <1>2, PassEnds
<1>3. CASE /\ Exists /\ "epRec" \notin stale
           /\ endpoints' = [endpoints EXCEPT !.entries = [p \in Kept(epRec.copy) |-> "READY"]]
           /\ stale' = Holders
  <2> DEFINE kept == Kept(epRec.copy)
  <2>1. /\ endpoints \in Endpoints /\ cached = endpoints /\ epRec.copy = endpoints
        /\ ~endpoints.marked
    BY <1>1, <1>3, FreshVersion DEF TelemetryInv, Types, ObjectTypes, Copies, Exists
  <2>2. kept \in SUBSET Pod /\ kept # Nothing /\ kept = Kept(endpoints)
    BY <2>1, ObjectType, PodsAreContent
  <2> HIDE DEF kept
  <2>3. [p \in kept |-> "READY"] \in Entries
    BY <2>2, EntriesType DEF EntryStatus
  <2>4. endpoints' = [endpoints EXCEPT !.entries = [p \in kept |-> "READY"]]
    BY <1>3 DEF kept
  <2>5. /\ endpoints' \in Endpoints /\ endpoints'.marked = endpoints.marked
        /\ DOMAIN endpoints'.entries = kept /\ ReadyIn(endpoints'.entries) = kept
    BY <2>1, <2>3, <2>4 DEF Endpoints, ReadyIn
  <2>6. Exists'
    BY <2>5, ObjectType DEF Exists
  <2>7. \A i \in Intent : serving[i] = "none" /\ config[i] = kept
    BY <1>1 DEF TelemetryInv, Progress, IsConfigured, IsBusy, kept
  <2>8. Types'
    BY <1>1, <1>3, <2>5
    DEF TelemetryInv, Types, ServiceTypes, ObjectTypes, EpIdle, Holders
  <2>9. Versions'
    BY <1>1, <1>3 DEF Versions, Holders, EpIdle
  <2>10. Copies'
    <3>1. Kept(cached') = kept /\ ~cached'.marked
      BY <1>1, <2>1, <2>2
    <3> QED
      BY <1>1, <2>5, <2>6, <3>1 DEF Copies, Suitable, EpIdle
  <2>11. Requests' /\ Progress' /\ Removal'
    BY <1>1, <2>7 DEF Requests, Progress, Removal, EpIdle
  <2>12. Agreement'
    BY <1>1, <2>2, <2>5, <2>6, <2>7
    DEF Agreement, ReadyIsIn, ForgottenIsUnconfigured, GoneIsDisabled
  <2> QED
    BY <2>8, <2>9, <2>10, <2>11, <2>12 DEF TelemetryInv
<1> QED
  BY <1>1, <1>2, <1>3

LEMMA RemoveFinalizerKeepsInv == ASSUME TelemetryInv, RemoveFinalizer PROVE TelemetryInv'
<1>1. /\ UNCHANGED <<config, serving, asked, abandoned, cached, deplRec>>
      /\ epRec' = EpIdle /\ epRec.pc = "finalize"
      /\ \/ /\ Exists /\ "epRec" \notin stale
            /\ endpoints' = NoObject /\ stale' = Holders
         \/ UNCHANGED <<endpoints, stale>>
  BY DEF RemoveFinalizer, EpEnd, intentVars, deplVars, objectVars, Write
<1>2. CASE UNCHANGED <<endpoints, stale>>
  BY <1>1, <1>2, PassEnds
<1>3. CASE /\ Exists /\ "epRec" \notin stale
           /\ endpoints' = NoObject /\ stale' = Holders
  <2>1. cached = endpoints /\ epRec.copy = endpoints /\ endpoints # NoObject /\ endpoints.marked
    BY <1>1, <1>3, FreshVersion DEF TelemetryInv, Copies
  <2>2. ~Exists'
    BY <1>3 DEF Exists
  <2>3. \A i \in Intent : IsDisabled(i) /\ IsDisabled(i)'
    BY <1>1 DEF TelemetryInv, Removal, IsDisabled
  <2>4. Types'
    BY <1>1, <1>3 DEF TelemetryInv, Types, ServiceTypes, ObjectTypes, EpIdle, Holders
  <2>5. Versions' /\ Progress' /\ Removal'
    BY <1>1, <1>3 DEF Versions, Progress, Removal, Holders, EpIdle
  <2>6. Copies'
    BY <1>1, <2>1, <2>2 DEF Copies, Live, EpIdle
  <2>7. Requests'
    BY <2>2, <2>3 DEF Requests, IsDisabled, NobodyIsReady, Live
  <2>8. Agreement'
    BY <2>2, <2>3
    DEF Agreement, ReadyIsIn, Live, ForgottenIsUnconfigured, GoneIsDisabled, IsDisabled
  <2> QED
    BY <2>4, <2>5, <2>6, <2>7, <2>8 DEF TelemetryInv
<1> QED
  BY <1>1, <1>2, <1>3

LEMMA LoseAnswerKeepsInv == ASSUME TelemetryInv, LoseAnswer PROVE TelemetryInv'
BY PassEnds DEF LoseAnswer, EpEnd, intentVars, objectVars, deplVars

\* What the service does to one intent, whoever waits for it.
LEMMA FinishStep ==
    ASSUME TelemetryInv, NEW i \in Intent, NEW ok \in BOOLEAN, Finish(i, ok),
           abandoned' = IF ~ok /\ serving[i] = "disable" THEN abandoned \cup {i} ELSE abandoned,
           UNCHANGED endpoints
    PROVE  /\ ServiceTypes' /\ Requests' /\ Agreement'
           /\ IsBusy(i) /\ ~IsBusy(i)'
           /\ ok => config'[i] = asked[i]
           /\ \A j \in Intent : IsDisabled(j) => IsDisabled(j)'
           /\ \A j \in Intent \ {i} :
                serving'[j] = serving[j] /\ asked'[j] = asked[j] /\ config'[j] = config[j]
<1>1. /\ serving[i] \in {"configure", "disable"}
      /\ serving'[i] = "none" /\ asked'[i] = Nothing
      /\ config'[i] = IF ok THEN asked[i] ELSE config[i]
      /\ \A j \in Intent \ {i} :
            serving'[j] = serving[j] /\ asked'[j] = asked[j] /\ config'[j] = config[j]
  BY DEF Finish, IsBusy, TelemetryInv, Types, ServiceTypes
<1>2. ServiceTypes'
  BY <1>1 DEF Finish, TelemetryInv, Types, ServiceTypes
<1>3. Requests'
  BY <1>1 DEF TelemetryInv, Requests, Suitable, NobodyIsReady, Live, Exists
<1>4. \A j \in Intent : IsDisabled(j) => IsDisabled(j)'
  BY <1>1 DEF IsDisabled, TelemetryInv, Types, ServiceTypes
<1>5. \A j \in Intent : ReadyIsIn(j)'
  <2>1. ASSUME NEW j \in Intent \ {i} PROVE ReadyIsIn(j)'
    BY <1>1, <2>1 DEF TelemetryInv, Agreement, ReadyIsIn, Live, Exists
  <2>2. CASE serving[i] = "disable"
    <3>1. NobodyIsReady
      BY <2>2 DEF TelemetryInv, Requests
    <3> QED
      BY <3>1, <2>1 DEF ReadyIsIn, NobodyIsReady, Live, Exists
  <2>3. CASE serving[i] = "configure"
    <3>1. Suitable(asked[i]) /\ asked[i] # Nothing /\ ReadyIsIn(i)
      BY <2>3 DEF TelemetryInv, Requests, Types, ServiceTypes, Agreement
    <3>2. ReadyIsIn(i)'
      BY <1>1, <3>1 DEF ReadyIsIn, Suitable, Live, Exists
    <3> QED
      BY <2>1, <3>2
  <2> QED
    BY <1>1, <2>2, <2>3
<1>6. ForgottenIsUnconfigured'
  BY <1>1
  DEF TelemetryInv, Agreement, ForgottenIsUnconfigured, Types, ServiceTypes, Requests, Suitable, Exists
<1>7. GoneIsDisabled'
  <2>1. ~Exists => \A j \in Intent : IsDisabled(j)
    BY DEF TelemetryInv, Agreement, GoneIsDisabled, IsDisabled
  <2> QED
    BY <1>4, <2>1 DEF GoneIsDisabled, IsDisabled, Exists
<1> QED
  BY <1>1, <1>2, <1>3, <1>4, <1>5, <1>6, <1>7 DEF Agreement, IsBusy

LEMMA ServeKeepsInv ==
    ASSUME TelemetryInv, NEW i \in Intent, Serve(i) PROVE TelemetryInv'
<1>1. PICK ok \in BOOLEAN :
        /\ Finish(i, ok) /\ Answer(i, ok)
        /\ abandoned' = IF ~ok /\ serving[i] = "disable" THEN abandoned \cup {i} ELSE abandoned
        /\ UNCHANGED <<endpoints, cached, stale, deplRec>>
  BY DEF Serve, objectVars, deplVars
<1>2. /\ ServiceTypes' /\ Requests' /\ Agreement'
      /\ IsBusy(i) /\ ~IsBusy(i)'
      /\ ok => config'[i] = asked[i]
      /\ \A j \in Intent : IsDisabled(j) => IsDisabled(j)'
      /\ \A j \in Intent \ {i} :
            serving'[j] = serving[j] /\ asked'[j] = asked[j] /\ config'[j] = config[j]
  BY <1>1, FinishStep
<1>3. /\ Intent = {PairedDeployments[1], PairedDeployments[2]} /\ Current \in Intent
      /\ epRec \in EpRecs
  BY PairsAreIntents DEF TelemetryInv, Types, ObjectTypes, EpRecs
<1>4. CASE UNCHANGED epVars /\ ~(epRec.waiting /\ Current = i)
  <2>1. ObjectTypes' /\ Versions' /\ Copies'
    BY <1>1, <1>4
    DEF epVars, TelemetryInv, Types, ObjectTypes, Versions, Copies, Suitable, NobodyIsReady, Live, Exists
  <2>2. Current' = Current /\ epRec' = epRec
    BY <1>4 DEF epVars, Current
  <2>3. Progress'
    BY <1>2, <1>3, <1>4, <2>2 DEF TelemetryInv, Progress, IsConfigured, IsBusy
  <2>4. Removal'
    BY <1>2, <1>3, <2>2 DEF TelemetryInv, Removal
  <2> QED
    BY <1>2, <2>1, <2>3, <2>4 DEF TelemetryInv, Types
<1>5. CASE epRec.waiting /\ Current = i
  <2>1. epRec.pc = "configure" /\ asked[i] = Kept(epRec.copy)
    BY <1>5 DEF TelemetryInv, Progress
  <2>2. /\ epRec' \in EpRecs /\ ~epRec'.waiting
        /\ \/ epRec' = EpIdle
           \/ /\ ok /\ epRec.pair = 1 /\ epRec'.pair = 2 /\ epRec'.retry = epRec.retry
              /\ epRec'.pc = "configure" /\ epRec'.copy = epRec.copy
           \/ /\ ok /\ epRec.pair = 2 /\ ~epRec.retry
              /\ epRec'.pc = "update" /\ epRec'.copy = epRec.copy
    <3>1. CASE ok
      <4>1. NextPair(epRec.retry, "update") /\ epRec.retry \in BOOLEAN
        BY <1>1, <1>3, <1>5, <3>1 DEF Answer, EpRecs
      <4> QED
        BY <2>1, <3>1, <4>1, NextPairStep DEF TelemetryInv
    <3>2. CASE ~ok
      <4>1. epRec' = EpIdle
        BY <1>1, <1>5, <3>2 DEF Answer, EpEnd
      <4> QED
        BY <4>1 DEF EpIdle, EpRecs
    <3> QED
      BY <3>1, <3>2
  <2>3. ObjectTypes' /\ Versions' /\ Copies'
    <3>1. EpIdle.pc = "idle"
      BY DEF EpIdle
    <3> QED
      BY <1>1, <2>1, <2>2, <3>1, CallKeepsCopy
  <2>4. Removal'
    BY <2>2 DEF Removal, EpIdle
  <2>5. Progress'
    <3>1. CASE epRec' = EpIdle
      BY <3>1 DEF Progress, EpIdle
    <3>2. CASE /\ ok /\ epRec.pair = 1 /\ epRec'.pc = "configure" /\ epRec'.copy = epRec.copy
      <4>1. i = PairedDeployments[1] /\ config'[i] = Kept(epRec'.copy)
        BY <1>2, <1>5, <2>1, <3>2 DEF Current
      <4> QED
        BY <1>2, <2>2, <3>2, <4>1 DEF Progress, IsConfigured
    <3>3. CASE /\ ok /\ epRec.pair = 2 /\ ~epRec.retry
               /\ epRec'.pc = "update" /\ epRec'.copy = epRec.copy
      <4>1. i = PairedDeployments[2] /\ config'[i] = Kept(epRec.copy)
        BY <1>2, <1>5, <2>1, <3>3 DEF Current
      <4>2. PairedDeployments[1] = i \/ IsConfigured(PairedDeployments[1])
        BY <1>5, <2>1, <3>3 DEF TelemetryInv, Progress
      <4>3. \A j \in Intent : ~IsBusy(j)' /\ config'[j] = Kept(epRec.copy)
        BY <1>2, <1>3, <4>1, <4>2 DEF IsConfigured, IsBusy
      <4> QED
        BY <2>2, <3>3, <4>3 DEF Progress, IsConfigured
    <3> QED
      BY <2>2, <3>1, <3>2, <3>3
  <2> QED
    BY <1>2, <2>3, <2>4, <2>5 DEF TelemetryInv, Types
<1> QED
  BY <1>1, <1>4, <1>5 DEF Answer
-----------------------------------------------------------------------------
LEMMA TelemetryStep == ASSUME TelemetryInv, [Next]_vars PROVE TelemetryInv'
<1>1. CASE \/ UNCHANGED vars
           \/ SyncDeployment \/ DeplReturn \/ CreateDeployments \/ EpReturn
           \/ Cluster
  <2>1. UNCHANGED intentsAndEntries
    BY <1>1
    DEF vars, intentVars, clusterVars, objectVars, deplVars, epVars, intentsAndEntries, SyncDeployment,
        DeplReturn, CreateDeployments, EpReturn, Cluster, PodStarts, PodTerminates, PodGoes, PodChanges,
        findEndpointsThatUseCollector, Delete
  <2> QED
    BY <2>1, Unaffected
<1>2. CASE Sync \/ CollectEndpoints \/ CreateEndpoints \/ ListPods \/ UpdateEntries
  BY <1>2, SyncKeepsInv, CollectEndpointsKeepsInv, CreateEndpointsKeepsInv, ListPodsKeepsInv,
     UpdateEntriesKeepsInv
<1>3. CASE EpBegin \/ SendConfigure \/ UpdateReady \/ SendDisable \/ RemoveFinalizer \/ LoseAnswer
  BY <1>3, EpBeginKeepsInv, SendConfigureKeepsInv, UpdateReadyKeepsInv, SendDisableKeepsInv,
     RemoveFinalizerKeepsInv, LoseAnswerKeepsInv
<1>4. ASSUME NEW i \in Intent, Serve(i) PROVE TelemetryInv'
  BY <1>4, ServeKeepsInv
<1> QED
  BY <1>1, <1>2, <1>3, <1>4 DEF Next, Cache, DeploymentPass, EndpointsPass, Service

LEMMA TelemetryInvHolds == Spec => []TelemetryInv
BY TelemetryInit, TelemetryStep, PTL DEF Spec

(***************************************************************************)
(* A pod whose entry says READY has telemetry in both directions, whatever *)
(* version of the endpoints the pass worked from, and whichever calls have *)
(* been lost, refused or served late                                       *)
(* (internalinnetworktelemetryendpoints_controller.go).                    *)
(***************************************************************************)
THEOREM ReadyIsConfiguredTheorem == Spec => []ReadyIsConfigured
<1>1. TelemetryInv => ReadyIsConfigured
  BY DEF TelemetryInv, Agreement, ReadyIsIn, ReadyIn, Live, ReadyIsConfigured
<1> QED
  BY <1>1, TelemetryInvHolds, PTL

(***************************************************************************)
(* A pod leaves the list of entries only when neither direction has        *)
(* telemetry for it, or the service is about to remove it.                 *)
(***************************************************************************)
THEOREM ForgottenIsUnconfiguredTheorem == Spec => []ForgottenIsUnconfigured
<1>1. TelemetryInv => ForgottenIsUnconfigured
  BY DEF TelemetryInv, Agreement
<1> QED
  BY <1>1, TelemetryInvHolds, PTL

(***************************************************************************)
(* The finalizer keeps the endpoints object until the service has been     *)
(* asked to remove the telemetry of both directions, also if the object    *)
(* has been deleted and made again.                                        *)
(***************************************************************************)
THEOREM GoneIsDisabledTheorem == Spec => []GoneIsDisabled
<1>1. TelemetryInv => GoneIsDisabled
  BY DEF TelemetryInv, Agreement
<1> QED
  BY <1>1, TelemetryInvHolds, PTL
-----------------------------------------------------------------------------
(* Types, and the use of the service *)

ClusterTypes ==
    /\ deleted \in BOOLEAN /\ deletedSeen \in BOOLEAN
    /\ deployments \subseteq {Deployments[1], Deployments[2]}
    /\ pod \in [Pod -> {"waiting", "running", "terminating", "gone"}]
    /\ collectorChanges \in 0 .. MaxCollectorChanges

QueueTypes == deplQueued \in BOOLEAN /\ epQueued \in BOOLEAN /\ faults \in 0 .. MaxFaults

LEMMA ClusterTypesStep == ASSUME ClusterTypes, [Next]_vars PROVE ClusterTypes'
<1>1. CASE \/ UNCHANGED vars \/ Sync \/ DeplReturn \/ CreateEndpoints \/ ListPods \/ UpdateEntries
           \/ EndpointsPass \/ Service \/ CollectEndpoints \/ LoseAnswer
  <2>1. UNCHANGED clusterVars
    BY <1>1
    DEF vars, Sync, DeplReturn, CreateEndpoints, ListPods, UpdateEntries, EndpointsPass, EpReturn, EpBegin,
        SendConfigure, UpdateReady, SendDisable, RemoveFinalizer, Service, Serve, CollectEndpoints, LoseAnswer
  <2> QED
    BY <2>1 DEF clusterVars, ClusterTypes
<1>2. CASE SyncDeployment \/ CreateDeployments
  BY <1>2 DEF SyncDeployment, CreateDeployments, createDeploymentForIntdepl, Missing, ClusterTypes
<1>3. ASSUME NEW p \in Pod, PodStarts(p) \/ PodTerminates(p) \/ PodGoes(p) PROVE ClusterTypes'
  BY <1>3 DEF PodStarts, PodTerminates, PodGoes, PodChanges, ClusterTypes
<1>4. CASE findEndpointsThatUseCollector
  <2>1. MaxCollectorChanges \in Nat
    BY InternalAssumption DEF InternalAssumption
  <2>2. collectorChanges' \in 0 .. MaxCollectorChanges
    BY <1>4, <2>1 DEF findEndpointsThatUseCollector, ClusterTypes
  <2> QED
    BY <1>4, <2>2 DEF findEndpointsThatUseCollector, ClusterTypes
<1>5. CASE Delete
  BY <1>5 DEF Delete, ClusterTypes
<1> QED
  BY <1>1, <1>2, <1>3, <1>4, <1>5 DEF Next, Cache, DeploymentPass, Cluster

LEMMA FaultType == ASSUME faults \in 0 .. MaxFaults, Fault \/ NoFault PROVE faults' \in 0 .. MaxFaults
BY InternalAssumption DEF Fault, NoFault, InternalAssumption

LEMMA EpEndQueues ==
    ASSUME QueueTypes, EpEnd(TRUE) \/ EpEnd(FALSE) PROVE epQueued' \in BOOLEAN
<1>1. (TRUE \/ epQueued) \in BOOLEAN /\ (FALSE \/ epQueued) \in BOOLEAN
  OBVIOUS
<1> QED
  BY <1>1, Zenon DEF EpEnd

LEMMA NextPairQueues ==
    ASSUME Types, QueueTypes, NEW retry \in BOOLEAN, NEW step, NextPair(retry, step)
    PROVE  epQueued' \in BOOLEAN
<1>1. epRec.pair = 1 \/ epRec.pair = 2
  BY DEF Types, ObjectTypes
<1>2. CASE epRec.pair = 1
  BY <1>2 DEF NextPair, QueueTypes
<1>3. CASE epRec.pair = 2 /\ retry
  <2>1. epQueued' = (TRUE \/ epQueued)
    BY <1>3 DEF NextPair, EpEnd
  <2> QED
    BY <2>1, Zenon
<1>4. CASE epRec.pair = 2 /\ ~retry
  BY <1>4 DEF NextPair, QueueTypes
<1> QED
  BY <1>1, <1>2, <1>3, <1>4

LEMMA QueueTypesStep == ASSUME Types, QueueTypes, [Next]_vars PROVE QueueTypes'
<1>1. CASE UNCHANGED vars \/ Cache \/ CollectEndpoints \/ Cluster
  BY <1>1
  DEF vars, Cache, Sync, SyncDeployment, CollectEndpoints, Cluster, PodStarts, PodTerminates, PodGoes,
      PodChanges, findEndpointsThatUseCollector, Delete, deplVars, epVars, QueueTypes
<1>2. CASE DeploymentPass
  <2>1. faults' \in 0 .. MaxFaults
    BY <1>2, FaultType
    DEF DeploymentPass, DeplReturn, CreateDeployments, CreateEndpoints, ListPods, UpdateEntries, NoFault,
        QueueTypes
  <2>2. UNCHANGED epQueued
    BY <1>2
    DEF DeploymentPass, DeplReturn, CreateDeployments, CreateEndpoints, ListPods, UpdateEntries, epVars
  <2>3. deplQueued' \in BOOLEAN
    BY <1>2
    DEF DeploymentPass, DeplReturn, CreateDeployments, CreateEndpoints, ListPods, UpdateEntries, deplVars,
        QueueTypes
  <2> QED
    BY <2>1, <2>2, <2>3 DEF QueueTypes
<1>3. CASE EndpointsPass \/ Service \/ LoseAnswer
  <2>1. faults' \in 0 .. MaxFaults
    BY <1>3, FaultType
    DEF EndpointsPass, EpReturn, EpBegin, SendConfigure, UpdateReady, SendDisable, RemoveFinalizer, Service,
        Serve, LoseAnswer, NoFault, QueueTypes
  <2>2. UNCHANGED deplQueued
    BY <1>3
    DEF EndpointsPass, EpReturn, EpBegin, SendConfigure, UpdateReady, SendDisable, RemoveFinalizer, Service,
        Serve, LoseAnswer, deplVars
  <2>3. epRec.retry \in BOOLEAN
    BY DEF Types, ObjectTypes
  <2>4. ASSUME EpReturn \/ EpBegin PROVE epQueued' \in BOOLEAN
    <3>1. epQueued' = FALSE
      BY <2>4, Zenon DEF EpReturn, EpBegin
    <3> QED
      BY <3>1
  <2>5. ASSUME UpdateReady \/ RemoveFinalizer \/ LoseAnswer PROVE epQueued' \in BOOLEAN
    <3>1. EpEnd(TRUE) \/ EpEnd(FALSE)
      BY <2>5 DEF UpdateReady, RemoveFinalizer, LoseAnswer
    <3> QED
      BY <3>1, EpEndQueues
  <2>6. ASSUME SendConfigure \/ SendDisable PROVE epQueued' \in BOOLEAN
    <3>1. \/ EpEnd(TRUE) \/ UNCHANGED epQueued
          \/ NextPair(TRUE, "update") \/ NextPair(TRUE, "finalize") \/ NextPair(epRec.retry, "finalize")
      BY <2>6 DEF SendConfigure, SendDisable
    <3> QED
      BY <2>3, <3>1, EpEndQueues, NextPairQueues DEF QueueTypes
  <2>7. ASSUME Service PROVE epQueued' \in BOOLEAN
    <3>1. EpEnd(TRUE) \/ UNCHANGED epQueued \/ NextPair(epRec.retry, "update")
      BY <2>7 DEF Service, Serve, Answer, epVars
    <3> QED
      BY <2>3, <3>1, EpEndQueues, NextPairQueues DEF QueueTypes
  <2> QED
    BY <1>3, <2>1, <2>2, <2>4, <2>5, <2>6, <2>7 DEF EndpointsPass, QueueTypes
<1> QED
  BY <1>1, <1>2, <1>3 DEF Next

(***************************************************************************)
(* Type correctness, for any pods and bounds.                              *)
(***************************************************************************)
THEOREM TypeCorrect == Spec => []TypeOK
<1>1. Init => ClusterTypes /\ QueueTypes
  <2>1. 0 \in 0 .. MaxCollectorChanges /\ 0 \in 0 .. MaxFaults
    BY InternalAssumption DEF InternalAssumption
  <2> QED
    BY <2>1 DEF Init, ClusterTypes, QueueTypes
<1>2. ClusterTypes /\ [Next]_vars => ClusterTypes'
  BY ClusterTypesStep
<1>3. TelemetryInv /\ QueueTypes /\ [Next]_vars => QueueTypes'
  BY QueueTypesStep DEF TelemetryInv
<1>4. TelemetryInv /\ ClusterTypes /\ QueueTypes => TypeOK
  BY InternalAssumption
  DEF TelemetryInv, Types, ServiceTypes, ObjectTypes, ClusterTypes, QueueTypes, TypeOK, InternalAssumption
<1> QED
  BY <1>1, <1>2, <1>3, <1>4, TelemetryInvHolds, PTL DEF Spec

(***************************************************************************)
(* The controllers use the service as it promises to be used: every step   *)
(* is one of TelemetryIntents, which TelemetryService implements, or       *)
(* leaves it alone.                                                        *)
(***************************************************************************)
THEOREM UsesTheService == Spec => IntentsInit /\ [][IntentsNext]_intentVars
<1>1. Init => IntentsInit
  BY DEF Init
<1>2. TelemetryInv /\ [Next]_vars => [IntentsNext]_intentVars
  <2> SUFFICES ASSUME TelemetryInv, [Next]_vars PROVE [IntentsNext]_intentVars
    OBVIOUS
  <2>1. CASE SendConfigure
    <3>1. Current \in Intent
      BY PairsAreIntents DEF TelemetryInv, Types
    <3>2. Kept(epRec.copy) \in Content
      BY <2>1, ObjectType, InternalAssumption
      DEF SendConfigure, TelemetryInv, Types, ObjectTypes, Copies, InternalAssumption
    <3> QED
      BY <2>1, <3>1, <3>2 DEF SendConfigure, Kept, IntentsNext
  <2>2. CASE SendDisable
    <3>1. Current \in Intent
      BY PairsAreIntents DEF TelemetryInv, Types
    <3> QED
      BY <2>2, <3>1 DEF SendDisable, IntentsNext
  <2>3. CASE Service
    BY <2>3 DEF Service, Serve, IntentsNext
  <2>4. CASE \/ UNCHANGED vars \/ Cache \/ DeploymentPass \/ CollectEndpoints \/ Cluster \/ LoseAnswer
             \/ EpReturn \/ EpBegin \/ UpdateReady \/ RemoveFinalizer
    <3>1. UNCHANGED intentVars
      BY <2>4
      DEF vars, Cache, Sync, SyncDeployment, DeploymentPass, DeplReturn, CreateDeployments, CreateEndpoints,
          ListPods, UpdateEntries, CollectEndpoints, Cluster, PodStarts, PodTerminates, PodGoes, PodChanges,
          findEndpointsThatUseCollector, Delete, LoseAnswer, EpReturn, EpBegin, UpdateReady, RemoveFinalizer
    <3> QED
      BY <3>1
  <2> QED
    BY <2>1, <2>2, <2>3, <2>4 DEF Next, EndpointsPass
<1> QED
  BY <1>1, <1>2, TelemetryInvHolds, PTL DEF Spec
===============================================================================
