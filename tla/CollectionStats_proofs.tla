------------------------ MODULE CollectionStats_proofs ------------------------
(***************************************************************************)
(* Proof that no handler is left for a resource that has gone, for any     *)
(* resources, collection ids, pods and disruptions.                        *)
(***************************************************************************)
EXTENDS CollectionStats, TLAPS

Kept == {s \in Stats : resource[s] \in {"kept", "deleting"}}

\* The types the proof needs.  No handler that is registered has ended.
Living ==
    {NoHandler} \cup [phase : {"waiting", "busy"}, key : Stats, address : Nat]
Passes ==
    {RecIdle} \cup
    [pc : {"remove", "removeFinalizer", "stopAll", "readdress"}, key : Stats,
     stops : SUBSET CollectionId, address : Nat]

StatsTypes ==
    /\ collectionIdOf \in [Stats -> CollectionId]
    /\ resource \in [Stats -> {"absent", "new", "kept", "deleting", "gone"}]
    /\ due \subseteq Stats
    /\ handlers \in [CollectionId -> Living]
    /\ rec \in Passes
    /\ api \in [number : Nat, exists : BOOLEAN]

\* A handler works for a resource with its collection id and with a finalizer,
\* so that it does not go without a pass.
HandledIsKept ==
    \A id \in Registered :
        handlers[id].key \in Kept /\ collectionIdOf[handlers[id].key] = id

\* So does a pass; one that removes the finalizer has stopped the handler.
PassIsForKept ==
    rec # RecIdle =>
        /\ rec.key \in Kept
        /\ rec.pc = "remove" =>
              resource[rec.key] = "deleting" /\ rec.stops = {collectionIdOf[rec.key]}
        /\ rec.pc = "removeFinalizer" =>
              resource[rec.key] = "deleting" /\ handlers[collectionIdOf[rec.key]] = NoHandler

\* The handlers a pass is about to stop are registered.
StopsAreRegistered == rec # RecIdle => rec.stops \subseteq Registered

HandlersInv == StatsTypes /\ HandledIsKept /\ PassIsForKept /\ StopsAreRegistered

LEMMA HandlersInit == ASSUME CollectionStatsAssumption, Init PROVE HandlersInv
BY DEF CollectionStatsAssumption, Init, CollectorInit, HandlersInv, StatsTypes, Living, Passes,
       HandledIsKept, PassIsForKept, StopsAreRegistered, Registered, RecIdle, NoHandler

\* Only the resources, the handlers, the pass and their owners matter.
LEMMA Unaffected ==
    ASSUME HandlersInv, UNCHANGED <<collectionIdOf, resource, handlers, rec>>,
           due' \subseteq Stats, api' \in [number : Nat, exists : BOOLEAN]
    PROVE  HandlersInv'
BY DEF HandlersInv, StatsTypes, HandledIsKept, PassIsForKept, StopsAreRegistered, Registered, Kept

-----------------------------------------------------------------------------
(* Users, the collector, restarts *)

LEMMA CollectorStepKeepsInv == ASSUME HandlersInv, CollectorStep PROVE HandlersInv'
<1>1. api' \in [number : Nat, exists : BOOLEAN]
  <2>1. api \in [number : Nat, exists : BOOLEAN]
    BY DEF HandlersInv, StatsTypes
  <2>2. CASE CollectorPass
    <3>1. api' = api \/ createClusterIpServiceForCollectorAPI
      BY <2>2
      DEF CollectorPass, ReturnIfGone, InitStatus, CreateDaemonSet, CreateNodePort, CreateApi,
          Observe, WriteStatus, objectVars
    <3>2. CASE api' = [number |-> api.number + 1, exists |-> TRUE]
      BY <2>1, <3>2
    <3> QED
      BY <2>1, <3>1, <3>2 DEF createClusterIpServiceForCollectorAPI
  <2>3. CASE Kubernetes
    BY <2>1, <2>3 DEF Kubernetes, Scheduled, PodChanges
  <2>4. CASE Interference
    BY <2>1, <2>4 DEF Interference, OwnedIsDeleted, CollectorIsDeleted
  <2> QED
    BY <2>2, <2>3, <2>4 DEF CollectorStep
<1>2. due' \subseteq Stats
  BY DEF CollectorStep, Notified, Existing, HandlersInv, StatsTypes
<1> QED
  BY <1>1, <1>2, Unaffected DEF CollectorStep

\* A resource that is not kept has no handler, so it may go.
LEMMA ResourceStep ==
    ASSUME HandlersInv, NEW s \in Stats, Create(s) \/ Delete(s) PROVE HandlersInv'
<1>1. \E state \in {"new", "gone", "deleting"} :
        /\ resource' = [resource EXCEPT ![s] = state]
        /\ state = "deleting" => resource[s] = "kept"
        /\ state # "deleting" => s \notin Kept
  BY DEF Create, Delete, Set, Kept
<1>2. /\ UNCHANGED <<collectionIdOf, handlers, rec, api>>
      /\ due' = due \cup {s}
  BY DEF Create, Delete, Set, collectorVars, objectVars
<1>3. StatsTypes'
  BY <1>1, <1>2 DEF HandlersInv, StatsTypes
<1>4. Kept \subseteq Kept' /\ \A r \in Kept : resource[r] = "deleting" => resource'[r] = "deleting"
  BY <1>1 DEF HandlersInv, StatsTypes, Kept
<1> QED
  BY <1>2, <1>3, <1>4
  DEF HandlersInv, HandledIsKept, PassIsForKept, StopsAreRegistered, Registered

LEMMA RestartKeepsInv == ASSUME HandlersInv, Restart PROVE HandlersInv'
BY DEF Restart, objectVars, HandlersInv, StatsTypes, Living, Passes, Existing,
       HandledIsKept, PassIsForKept, StopsAreRegistered, Registered, RecIdle, NoHandler
-----------------------------------------------------------------------------
(* The pass *)

\* A pass that goes on works for a resource that is kept.
LEMMA PassBeginsKeepsInv ==
    ASSUME HandlersInv, NEW s \in Stats, PassBegins(s) PROVE HandlersInv'
<1>1. CASE Skip(s)
  BY <1>1, Unaffected DEF Skip, PassEnds, collectorVars, objectVars, HandlersInv, StatsTypes
<1>2. CASE AddFinalizer(s)
  <2>1. UNCHANGED <<collectionIdOf, due, handlers, rec, api>> /\ rec = RecIdle
    BY <1>2 DEF AddFinalizer, PassFor, objectVars
  <2>2. resource' = [resource EXCEPT ![s] = "kept"] \/ UNCHANGED resource
    BY <1>2 DEF AddFinalizer
  <2>3. StatsTypes' /\ Kept \subseteq Kept'
    BY <2>1, <2>2 DEF HandlersInv, StatsTypes, Kept
  <2> QED
    BY <2>1, <2>3
    DEF HandlersInv, HandledIsKept, PassIsForKept, StopsAreRegistered, Registered
<1>3. ASSUME NEW step \in {"remove", "removeFinalizer", "stopAll", "readdress"},
             NEW stops \in SUBSET Registered,
             PassGoesTo(s, step, stops), s \in Kept,
             UNCHANGED <<collectorVars, collectionIdOf, resource, handlers>>,
             step = "remove" => resource[s] = "deleting" /\ stops = {collectionIdOf[s]},
             step = "removeFinalizer" =>
                resource[s] = "deleting" /\ handlers[collectionIdOf[s]] = NoHandler
      PROVE  HandlersInv'
  BY <1>3
  DEF PassGoesTo, collectorVars, objectVars, HandlersInv, StatsTypes, Passes, RecIdle,
      HandledIsKept, PassIsForKept, StopsAreRegistered, Registered, Kept
<1>4. CASE BeginDelete(s)
  BY <1>3, <1>4 DEF BeginDelete, Registered, Kept, HandlersInv, StatsTypes
<1>5. CASE WithoutCollector(s)
  <2>1. CASE Registered # {}
    BY <1>3, <1>5, <2>1 DEF WithoutCollector, Kept
  <2>2. CASE Registered = {}
    BY <1>5, <2>2, Unaffected
    DEF WithoutCollector, PassEnds, collectorVars, objectVars, HandlersInv, StatsTypes
  <2> QED
    BY <2>1, <2>2
<1>6. CASE WithCollector(s)
  BY <1>3, <1>6 DEF WithCollector, Kept
<1> QED
  BY <1>1, <1>2, <1>4, <1>5, <1>6 DEF PassBegins

\* The finalizer goes when the handler of the collection id has been stopped.
LEMMA RemoveFinalizerKeepsInv == ASSUME HandlersInv, RemoveFinalizer PROVE HandlersInv'
<1>1. /\ UNCHANGED <<collectionIdOf, handlers, api>>
      /\ rec' = RecIdle
      /\ rec.key \in Kept /\ handlers[collectionIdOf[rec.key]] = NoHandler
      /\ due' = due \cup {rec.key}
      /\ resource' = [resource EXCEPT ![rec.key] = "gone"] \/ UNCHANGED resource
  BY DEF RemoveFinalizer, Set, HandlersInv, PassIsForKept, RecIdle, objectVars
<1>2. StatsTypes'
  BY <1>1 DEF HandlersInv, StatsTypes, Passes, Kept
<1>3. \A r \in Kept \ {rec.key} : r \in Kept'
  BY <1>1 DEF Kept, HandlersInv, StatsTypes
<1> QED
  BY <1>1, <1>2, <1>3
  DEF HandlersInv, HandledIsKept, PassIsForKept, StopsAreRegistered, Registered, RecIdle

\* Stopping one handler, with or without another in its place.
LEMMA StopKeepsInv ==
    ASSUME HandlersInv, NEW id \in CollectionId,
           StopForRemoval(id) \/ StopOneOfAll(id) \/ Readdress(id)
    PROVE  HandlersInv'
<1>1. /\ UNCHANGED <<collectionIdOf, resource, due, api>>
      /\ rec \in Passes \ {RecIdle} /\ id \in Registered
      /\ handlers[id].key \in Kept /\ collectionIdOf[handlers[id].key] = id
  BY DEF StopForRemoval, StopOneOfAll, Readdress, Stopping, HandlersInv, StatsTypes, RecIdle,
         Registered, StopsAreRegistered, HandledIsKept, collectorVars, objectVars
<1>2. ASSUME handlers' = [handlers EXCEPT ![id] = NoHandler],
             \/ rec' = RecIdle
             \/ /\ rec' \in Passes \ {RecIdle} /\ rec'.key = rec.key
                /\ rec'.stops = rec.stops \ {id}
                /\ \/ rec'.pc = "stopAll"
                   \/ /\ rec'.pc = "removeFinalizer" /\ resource[rec.key] = "deleting"
                      /\ id = collectionIdOf[rec.key]
      PROVE  HandlersInv'
  <2>1. StatsTypes'
    BY <1>1, <1>2 DEF HandlersInv, StatsTypes, Living, Passes
  <2>2. Registered' = Registered \ {id} /\ \A j \in Registered' : handlers'[j] = handlers[j]
    BY <1>2 DEF HandlersInv, StatsTypes, Registered
  <2>3. HandledIsKept' /\ StopsAreRegistered'
    BY <1>1, <1>2, <2>2 DEF HandlersInv, HandledIsKept, StopsAreRegistered, Kept
  <2>4. PassIsForKept'
    BY <1>1, <1>2 DEF HandlersInv, StatsTypes, PassIsForKept, Kept
  <2> QED
    BY <2>1, <2>3, <2>4 DEF HandlersInv
<1>3. CASE StopForRemoval(id)
  <2>1. rec.pc = "remove" /\ rec.stops = {id} /\ id = collectionIdOf[rec.key]
    BY <1>1, <1>3 DEF StopForRemoval, Stopping, HandlersInv, PassIsForKept
  <2>2. rec' = [rec EXCEPT !.stops = rec.stops \ {id}, !.pc = "removeFinalizer"]
    BY <1>3, <2>1 DEF StopForRemoval, Stopped
  <2>3. rec' \in Passes \ {RecIdle} /\ rec'.pc = "removeFinalizer"
    BY <1>1, <2>2 DEF Passes, RecIdle
  <2> QED
    BY <1>1, <1>2, <1>3, <2>1, <2>2, <2>3
    DEF StopForRemoval, Register, HandlersInv, PassIsForKept, Passes, RecIdle
<1>4. CASE StopOneOfAll(id)
  <2>1. rec' = RecIdle \/ rec' = [rec EXCEPT !.stops = rec.stops \ {id}]
    <3>1. CASE rec.stops = {id}
      BY <1>4, <3>1 DEF StopOneOfAll
    <3>2. CASE rec.stops # {id}
      BY <1>1, <1>4, <3>2 DEF StopOneOfAll, Stopped, Stopping, Passes, RecIdle
    <3> QED
      BY <3>1, <3>2
  <2>2. rec.pc = "stopAll" /\ handlers' = [handlers EXCEPT ![id] = NoHandler]
    BY <1>4 DEF StopOneOfAll, Stopping, Register
  <2> QED
    BY <1>1, <1>2, <2>1, <2>2 DEF Passes, RecIdle
<1>5. CASE Readdress(id)
  BY <1>1, <1>5
  DEF Readdress, Stopping, Started, Register, HandlersInv, StatsTypes, Living, Passes, NoHandler,
      RecIdle, HandledIsKept, PassIsForKept, StopsAreRegistered, Registered, Kept
<1> QED
  BY <1>3, <1>4, <1>5

\* The pass's own handler: it takes the place of whoever had the collection id.
LEMMA OwnKeepsInv == ASSUME HandlersInv, Own PROVE HandlersInv'
<1>1. /\ UNCHANGED <<collectionIdOf, resource, due, api>> /\ rec' = RecIdle
      /\ rec \in Passes \ {RecIdle} /\ rec.key \in Kept
  BY DEF Own, collectorVars, objectVars, HandlersInv, StatsTypes, PassIsForKept, RecIdle
<1>2. \/ UNCHANGED handlers
      \/ handlers' = [handlers EXCEPT ![collectionIdOf[rec.key]] = Started(rec.key, rec.address)]
  BY DEF Own, Register
<1>3. Started(rec.key, rec.address) \in Living
  BY <1>1 DEF Started, Living, Passes
<1> QED
  BY <1>1, <1>2, <1>3
  DEF Started, HandlersInv, StatsTypes, Passes, NoHandler, RecIdle, HandledIsKept, PassIsForKept,
      StopsAreRegistered, Registered, Kept
-----------------------------------------------------------------------------
(* The handlers *)

LEMMA HandlerKeepsInv ==
    ASSUME HandlersInv, NEW id \in CollectionId, Tick(id) \/ TickEnds(id) PROVE HandlersInv'
<1>1. /\ UNCHANGED <<collectionIdOf, resource, due, rec, api>>
      /\ id \in Registered
  BY DEF Tick, TickEnds, HandlerGoes, collectorVars, objectVars, HandlersInv, StatsTypes,
         Registered, NoHandler
<1>2. PICK to \in {"waiting", "busy"} :
        handlers' = [handlers EXCEPT ![id] = [handlers[id] EXCEPT !.phase = to]]
  BY DEF Tick, TickEnds, HandlerGoes, Register
<1>3. /\ handlers' \in [CollectionId -> Living]
      /\ handlers'[id] # NoHandler /\ handlers'[id].key = handlers[id].key
      /\ \A j \in CollectionId \ {id} : handlers'[j] = handlers[j]
  BY <1>1, <1>2 DEF HandlersInv, StatsTypes, Living, Registered, NoHandler
<1> QED
  BY <1>1, <1>3
  DEF HandlersInv, StatsTypes, HandledIsKept, PassIsForKept, StopsAreRegistered, Registered, Kept
-----------------------------------------------------------------------------
LEMMA HandlersStep == ASSUME HandlersInv, [Next]_vars PROVE HandlersInv'
<1>1. CASE UNCHANGED vars
  BY <1>1, Unaffected DEF vars, statsVars, collectorVars, objectVars, HandlersInv, StatsTypes
<1>2. CASE Next
  BY <1>2, ResourceStep, CollectorStepKeepsInv, RestartKeepsInv, PassBeginsKeepsInv,
     RemoveFinalizerKeepsInv, StopKeepsInv, OwnKeepsInv, HandlerKeepsInv DEF Next, StatsPass
<1> QED
  BY <1>1, <1>2

LEMMA HandlersInvHolds == Spec => []HandlersInv
<1>1. Init => HandlersInv
  BY CollectionStatsAssumption, HandlersInit
<1> QED
  BY <1>1, HandlersStep, PTL DEF Spec

(***************************************************************************)
(* A resource that has gone has no handler that writes to it, however      *)
(* resources share collection ids, the collector comes and goes and the    *)
(* operator restarts (CollectorStatHandlers, RemoveStatHandler and         *)
(* StopAll of telemetrycollectionstats_controller.go).                     *)
(***************************************************************************)
THEOREM GoneIsNotHandledTheorem == Spec => []GoneIsNotHandled
<1>1. HandlersInv => GoneIsNotHandled
  BY DEF HandlersInv, HandledIsKept, GoneIsNotHandled, Existing, Kept
<1> QED
  BY <1>1, HandlersInvHolds, PTL

(***************************************************************************)
(* A pass never waits to stop a handler that has ended: the send on its    *)
(* channel would block for ever (StatHandler.Stop, line 431).              *)
(***************************************************************************)
THEOREM StopsReachHandlersTheorem == Spec => []StopsReachHandlers
<1>1. HandlersInv => StopsReachHandlers
  BY DEF HandlersInv, StatsTypes, StopsAreRegistered, Registered, Living, NoHandler,
         StopsReachHandlers
<1> QED
  BY <1>1, HandlersInvHolds, PTL
===============================================================================
