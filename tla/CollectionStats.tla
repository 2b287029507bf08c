---------------------------- MODULE CollectionStats ----------------------------
(***************************************************************************)
(* The controller of TelemetryCollectionStats resources: a goroutine, the  *)
(* handler, for every collection id in use asks the collector for metrics  *)
(* at every tick and shows them in the status of a resource                *)
(* (inc-operator/controllers/telemetrycollectionstats_controller.go).      *)
(*                                                                         *)
(* One collector, that of module Collector, is referred to by all.  The    *)
(* handlers live in memory, keyed by collection id; stopping one is a send *)
(* on an unbuffered channel, that is a rendezvous with a handler that      *)
(* waits at its select: the only pass there is waits with it.  A pass is   *)
(* a decision on what it reads and the stops and starts it leads to.       *)
(*                                                                         *)
(* External: users who create and delete resources, the API server, which  *)
(* deletes a resource once its finalizer is removed, and the telemetry     *)
(* service and the collector, which answer or fail.  Specs are not edited  *)
(* ("we also should keep info about collectionId and collectorRef").       *)
(***************************************************************************)
EXTENDS Collector

CONSTANTS
    Stats,          \* the resources
    CollectionId,
    Specs           \* which resource may be created with which collection id

ASSUME CollectionStatsAssumption == Specs \subseteq [Stats -> CollectionId]

VARIABLES
    collectionIdOf, \* resource -> the collection id of its spec
    resource,       \* resource -> absent, new, kept (has the finalizer), deleting, gone
    due,            \* the resources queued for a pass
    handlers,       \* collection id -> the registered handler, or NoHandler
    rec             \* the pass: what it does next, for which resource, whom it
                    \* has to stop, the address of the metrics service it has read

statsVars == <<collectionIdOf, resource, due, handlers, rec>>
vars == <<collectorVars, statsVars>>

\* A handler that is registered but has ended is never received from again.
NoHandler == [phase |-> "none"]
Started(s, address) == [phase |-> "waiting", key |-> s, address |-> address]
Handler ==
    {NoHandler} \cup
    [phase : {"waiting", "busy", "ended"}, key : Stats,
     address : 0 .. MaxDisruptions + 1]

RecIdle == [pc |-> "idle"]
Rec ==
    {RecIdle} \cup
    [pc : {"remove", "removeFinalizer", "stopAll", "readdress"}, key : Stats,
     stops : SUBSET CollectionId, address : 0 .. MaxDisruptions + 1]

TypeOK ==
    /\ collector \in Status \cup {Gone}
    /\ daemonSet \in {"none", "created", "scheduled"} /\ running \subseteq Node
    /\ nodePort \in BOOLEAN /\ queued \in BOOLEAN
    /\ api \in [number : 0 .. MaxDisruptions + 1, exists : BOOLEAN]
    /\ observed \in Status
    /\ podChanges \in 0 .. MaxPodChanges /\ disruptions \in 0 .. MaxDisruptions
    /\ collectionIdOf \in Specs
    /\ resource \in [Stats -> {"absent", "new", "kept", "deleting", "gone"}]
    /\ due \subseteq Stats
    /\ handlers \in [CollectionId -> Handler]
    /\ rec \in Rec

Init ==
    /\ CollectorInit
    /\ collectionIdOf \in Specs
    /\ resource = [s \in Stats |-> "absent"]
    /\ due = {}
    /\ handlers = [id \in CollectionId |-> NoHandler]
    /\ rec = RecIdle

Existing == {s \in Stats : resource[s] \notin {"absent", "gone"}}
Registered == {id \in CollectionId : handlers[id] # NoHandler}
-----------------------------------------------------------------------------
(* Users and events *)

Set(s, state) == resource' = [resource EXCEPT ![s] = state] /\ due' = due \cup {s}

Create(s) ==
    /\ resource[s] = "absent" /\ Set(s, "new")
    /\ UNCHANGED <<collectorVars, collectionIdOf, handlers, rec>>

\* Without a finalizer it goes at once.
Delete(s) ==
    /\ \/ resource[s] = "new" /\ Set(s, "gone")
       \/ resource[s] = "kept" /\ Set(s, "deleting")
    /\ UNCHANGED <<collectorVars, collectionIdOf, handlers, rec>>

\* Mutant: the collector is not watched.
Notified_Unwatched == UNCHANGED due

\* findStatsThatUseCollector
Notified == due' = IF collector' # collector THEN due \cup Existing ELSE due

CollectorStep ==
    /\ CollectorPass \/ Kubernetes \/ Interference
    /\ Notified
    /\ UNCHANGED <<collectionIdOf, resource, handlers, rec>>

\* The operator restarts: what is in memory is lost, all objects are listed anew.
Restart ==
    /\ handlers' = [id \in CollectionId |-> NoHandler]
    /\ rec' = RecIdle
    /\ due' = Existing
    /\ queued' = TRUE /\ observed' = NoStatus
    /\ Disruption
    /\ UNCHANGED <<collector, objectVars, podChanges, collectionIdOf, resource>>
-----------------------------------------------------------------------------
(* The pass *)

PassFor(s) == rec = RecIdle /\ s \in due
PassEnds(s) == due' = due \ {s} /\ UNCHANGED rec
PassGoesTo(s, step, stops) ==
    /\ due' = due \ {s}
    /\ rec' = [pc |-> step, key |-> s, stops |-> stops, address |-> api.number]

Skip(s) ==
    /\ PassFor(s) /\ resource[s] \in {"absent", "gone"}
    /\ PassEnds(s)
    /\ UNCHANGED <<collectorVars, collectionIdOf, resource, handlers>>

\* A failed write repeats the pass, and so does a successful one.
AddFinalizer(s) ==
    /\ PassFor(s) /\ resource[s] = "new"
    /\ \/ resource' = [resource EXCEPT ![s] = "kept"] /\ Undisturbed
       \/ UNCHANGED resource /\ Disruption
    /\ UNCHANGED <<collector, objectVars, passVars, podChanges, collectionIdOf, due, handlers, rec>>

\* Mutant: the finalizer is removed first, the handler stays.
BeginDelete_Forgets(s) ==
    /\ PassFor(s) /\ resource[s] = "deleting"
    /\ PassGoesTo(s, "removeFinalizer", {})
    /\ UNCHANGED <<collectorVars, collectionIdOf, resource, handlers>>

\* RemoveStatHandler stops whoever handles the collection id.
BeginDelete(s) ==
    /\ PassFor(s) /\ resource[s] = "deleting"
    /\ IF handlers[collectionIdOf[s]] # NoHandler
       THEN PassGoesTo(s, "remove", {collectionIdOf[s]})
       ELSE PassGoesTo(s, "removeFinalizer", {})
    /\ UNCHANGED <<collectorVars, collectionIdOf, resource, handlers>>

RemoveFinalizer ==
    /\ rec.pc = "removeFinalizer"
    /\ rec' = RecIdle
    /\ \/ Set(rec.key, "gone") /\ Undisturbed
       \/ due' = due \cup {rec.key} /\ UNCHANGED resource /\ Disruption
    /\ UNCHANGED <<collector, objectVars, passVars, podChanges, collectionIdOf, handlers>>

\* Neither collector nor availability: all handlers are stopped.
WithoutCollector(s) ==
    /\ PassFor(s) /\ resource[s] = "kept" /\ ~IsAvailable
    /\ IF Registered # {} THEN PassGoesTo(s, "stopAll", Registered) ELSE PassEnds(s)
    /\ UNCHANGED <<collectorVars, collectionIdOf, resource, handlers>>

\* Without the metrics service the pass is repeated later: its request stays.
\* (So it would be without a topology, which is taken to be there.)
\* A new address of it has every handler replaced (UpdateCollectorAddress).
WithCollector(s) ==
    /\ PassFor(s) /\ resource[s] = "kept" /\ IsAvailable /\ api.exists
    /\ PassGoesTo(s, "readdress", {id \in Registered : handlers[id].address # api.number})
    /\ UNCHANGED <<collectorVars, collectionIdOf, resource, handlers>>

\* Stop: the rendezvous with a waiting handler, which ends.
Stopping(pc, id) ==
    rec.pc = pc /\ id \in rec.stops /\ handlers[id].phase = "waiting"

Register(id, handler) == handlers' = [handlers EXCEPT ![id] = handler]
Stopped(id, next) ==
    rec' = [rec EXCEPT !.stops = @ \ {id}, !.pc = IF rec.stops = {id} THEN next ELSE @]

StopForRemoval(id) ==
    /\ Stopping("remove", id)
    /\ Register(id, NoHandler) /\ Stopped(id, "removeFinalizer")
    /\ UNCHANGED <<collectorVars, collectionIdOf, resource, due>>

\* Mutant: the map of the handlers is kept.
StopOneOfAll_KeepsMap(id) ==
    /\ Stopping("stopAll", id)
    /\ Register(id, [handlers[id] EXCEPT !.phase = "ended"])
    /\ IF rec.stops = {id} THEN rec' = RecIdle ELSE Stopped(id, "stopAll")
    /\ UNCHANGED <<collectorVars, collectionIdOf, resource, due>>

StopOneOfAll(id) ==
    /\ Stopping("stopAll", id)
    /\ Register(id, NoHandler)
    /\ IF rec.stops = {id} THEN rec' = RecIdle ELSE Stopped(id, "stopAll")
    /\ UNCHANGED <<collectorVars, collectionIdOf, resource, due>>

Readdress(id) ==
    /\ Stopping("readdress", id)
    /\ Register(id, Started(handlers[id].key, rec.address))
    /\ rec' = [rec EXCEPT !.stops = @ \ {id}]
    /\ UNCHANGED <<collectorVars, collectionIdOf, resource, due>>

\* CreateOrUpdateStatHandler: a handler for the same resource stays, one for
\* another resource with the collection id is stopped and replaced.
Own ==
    LET id == collectionIdOf[rec.key] IN
    /\ rec.pc = "readdress" /\ rec.stops = {}
    /\ rec' = RecIdle
    /\ \/ handlers[id] = NoHandler /\ Register(id, Started(rec.key, rec.address))
       \/ /\ handlers[id] # NoHandler /\ handlers[id].key # rec.key
          /\ handlers[id].phase = "waiting"
          /\ Register(id, Started(rec.key, rec.address))
       \/ handlers[id] # NoHandler /\ handlers[id].key = rec.key /\ UNCHANGED handlers
    /\ UNCHANGED <<collectorVars, collectionIdOf, resource, due>>
-----------------------------------------------------------------------------
(* The handlers *)

HandlerGoes(id, from, to) ==
    /\ handlers[id].phase = from
    /\ Register(id, [handlers[id] EXCEPT !.phase = to])
    /\ UNCHANGED <<collectorVars, collectionIdOf, resource, due, rec>>

\* GetCollectionId is called with a deadline, the metrics are requested without
\* one.  The tick ends with a failure of either, or with the write.
Tick(id) == HandlerGoes(id, "waiting", "busy")
TickEnds(id) == HandlerGoes(id, "busy", "waiting")
-----------------------------------------------------------------------------
PassBegins(s) ==
    Skip(s) \/ AddFinalizer(s) \/ BeginDelete(s) \/ WithoutCollector(s) \/ WithCollector(s)

StatsPass ==
    \/ \E s \in Stats : PassBegins(s)
    \/ RemoveFinalizer \/ Own
    \/ \E id \in CollectionId : StopForRemoval(id) \/ StopOneOfAll(id) \/ Readdress(id)

Next ==
    \/ \E s \in Stats : Create(s) \/ Delete(s)
    \/ CollectorStep \/ Restart \/ StatsPass
    \/ \E id \in CollectionId : Tick(id) \/ TickEnds(id)

Spec == Init /\ [][Next]_vars

\* Passes are run, for a resource in its turn; calls and requests for metrics
\* end.  A stop is not always possible, but again and again: strong fairness, as
\* Go chooses at random when both channels of a handler's select are ready.
FairSpec ==
    /\ Spec
    /\ WF_vars((CollectorPass \/ Scheduled) /\ Notified /\ UNCHANGED <<collectionIdOf, resource, handlers, rec>>)
    /\ SF_vars(StatsPass)
    /\ \A s \in Stats : SF_vars(PassBegins(s))
    /\ \A id \in CollectionId : WF_vars(TickEnds(id))
-----------------------------------------------------------------------------
\* A resource that no longer exists has no handler left that writes to it,
\* although handlers are keyed by collection id and replace each other, are
\* stopped for resources and for the collector, and are lost by restarts.
GoneIsNotHandled ==
    \A id \in Registered : handlers[id].phase # "ended" => handlers[id].key \in Existing

\* A handler that a pass is about to stop is there to be stopped, whatever other
\* handlers have been stopped, replaced and lost since: the send on the channel
\* of one that has ended blocks, and with it every later pass.
StopsReachHandlers ==
    rec # RecIdle => \A id \in rec.stops : handlers[id].phase \in {"waiting", "busy"}

\* The finalizer of a deleted resource is removed: the pass never waits for a
\* handler that has ended, nor for one that does not come back.
DeletionCompletes == \A s \in Stats : resource[s] = "deleting" ~> resource[s] = "gone"

SharersOf(id) == {s \in Stats : collectionIdOf[s] = id}

\* Once the collector is left alone, a collection id in use is handled just if
\* the collector is available: as long as none of the resources that share it
\* is deleted, which stops the handler whosoever it is (and nobody starts
\* another until the collector changes).
HandlersFollowCollector ==
    <>[](\A id \in CollectionId :
            /\ \E s \in SharersOf(id) : resource[s] = "kept"
            /\ \A s \in SharersOf(id) : resource[s] \notin {"deleting", "gone"}
            => (IsAvailable <=> handlers[id] # NoHandler))
=============================================================================
