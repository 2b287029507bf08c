-------------------------- MODULE TelemetryService --------------------------
(***************************************************************************)
(* Configuring and disabling telemetry intents                             *)
(* (kinda-sdn/telemetry/service.go and changelog.go).                      *)
(*                                                                         *)
(* Requests for different intents run concurrently; those for one intent   *)
(* are kept apart by its intent lock, which is only ever tried.  A request *)
(* that does not get the lock is answered at once (IN_PROGRESS,            *)
(* ShouldRetryLater) and changes nothing, so it is no action.  A step of an *)
(* intent is what its goroutine does up to the next change that another    *)
(* goroutine can see: a change of intentLocks, of the pool, of a counter   *)
(* and the device behind it, or of what clients were told.                 *)
(*                                                                         *)
(* The pool is taken here as the exact allocator it is when its calls do   *)
(* not overlap; CollectionIdPool models what happens when they do.         *)
(***************************************************************************)
EXTENDS TelemetryTraversals, StateCounter, Bags

CONSTANTS
    Intent,
    CollectionId,
    NoCollection,       \* the empty string of an unused slot
    Request,            \* the ConfigureTelemetry requests clients send
    NoState,            \* no intentState is stored for the intent
    Capacity,           \* source entries a switch can take (127)
    MaxNumEntries       \* bound: nothing is configured past this numEntries

\* The state counters of a device are those of its five tables.
ASSUME TablesAssumption ==
    /\ Entry = TableEntry
    /\ Table = Kind \X Device
    /\ TableOf = [e \in TableEntry |-> <<e.kind, e.dev>>]

ASSUME ServiceAssumption ==
    /\ PoolSize \in Nat \ {0}
    /\ NoCollection \notin CollectionId
    /\ \A r \in Request : /\ r.intent \in Intent
                          /\ r.collectionId \in CollectionId
                          /\ IsEntities(findTelemetryEntitiesForRequest(r))
                          /\ r # NoState
    /\ Capacity \in Nat
    /\ MaxNumEntries \in Nat

\* The entities a request needs.
EntitiesOf == [r \in Request |-> findTelemetryEntitiesForRequest(r)]

VARIABLES
    lock,           \* intent -> its entry in intentLocks: absent, free, held
    intentState,    \* intent -> the request it was last configured by
    collectionId,   \* number -> the collection id it stands for
    intents,        \* number -> the intents that hold it
    pc,             \* intent -> what the goroutine holding its lock does next
    job,            \* intent -> what that goroutine was started for
    request,        \* intent -> the request it handles, or the state it disables
    todo,           \* intent -> the bag of actions its changelog has yet to do
    done,           \* intent -> the actions of the changelog done so far
    failed,         \* intent -> did its commit fail
    remaining       \* device -> the source capacity last announced to clients

poolVars == <<collectionId, intents>>
logVars == <<todo, done, failed>>
vars == <<counterVars, lock, intentState, poolVars, pc, job, request, logVars, remaining>>

Action == {"create", "delete"} \X TableEntry

Init ==
    /\ CounterInit
    /\ lock = [i \in Intent |-> "absent"]
    /\ intentState = [i \in Intent |-> NoState]
    /\ collectionId = [n \in Number |-> NoCollection]
    /\ intents = [n \in Number |-> {}]
    /\ pc = [i \in Intent |-> "idle"]
    /\ job = [i \in Intent |-> "none"]
    /\ request = [i \in Intent |-> NoState]
    /\ todo = [i \in Intent |-> EmptyBag]
    /\ done = [i \in Intent |-> <<>>]
    /\ failed = [i \in Intent |-> FALSE]
    /\ remaining = [d \in Device |-> Capacity]
-----------------------------------------------------------------------------
(* The changelog *)

Stage(kind) ==
    CASE kind = "sink" -> 1
      [] kind = "reporting" -> 2
      [] kind = "transit" -> 3
      [] kind = "activate" -> 4
      [] kind = "source" -> 5

\* Mutant: deletions in the order of creations.
Rank_Unreversed(a) == Stage(a[2].kind) + (IF a[1] = "create" THEN 0 ELSE 5)

\* makeApplyChangelog orders the creations by stage, makeDeleteChangelog the
\* deletions backwards, ExtendFrom puts these after those.
Rank(a) == IF a[1] = "create" THEN Stage(a[2].kind) ELSE 11 - Stage(a[2].kind)

Pending(i) == BagToSet(todo[i])
NextActions(i) == {a \in Pending(i) : \A b \in Pending(i) : Rank(a) <= Rank(b)}

Changelog(added, removed, n) ==
    LET creations == EntriesFor(added, n)
        deletions == EntriesFor(removed, n)
        times(a) == IF a[1] = "create" THEN creations[a[2]] ELSE deletions[a[2]]
    IN [a \in {b \in Action : times(b) > 0} |-> times(a)]

Apply(op, e, ok) == IF op = "create" THEN Increment(e, ok) ELSE Decrement(e, ok)

\* Mutant: whatever was done is deleted.
Undoing_Deletes(op) == "delete"

Undoing(op) == IF op = "create" THEN "delete" ELSE "create"
-----------------------------------------------------------------------------
(* Control *)

GoTo(i, step) == pc' = [pc EXCEPT ![i] = step]

Start(i, kind, req, step) ==
    /\ GoTo(i, step)
    /\ lock' = [lock EXCEPT ![i] = "held"]
    /\ job' = [job EXCEPT ![i] = kind]
    /\ request' = [request EXCEPT ![i] = req]
    /\ failed' = [failed EXCEPT ![i] = FALSE]

\* The goroutine ends, leaving the intent's lock as given.
Finish(i, l) ==
    /\ GoTo(i, "idle")
    /\ lock' = [lock EXCEPT ![i] = l]
    /\ job' = [job EXCEPT ![i] = "none"]
    /\ request' = [request EXCEPT ![i] = NoState]
    /\ failed' = [failed EXCEPT ![i] = FALSE]

Configured(i) == intentState[i] # NoState
-----------------------------------------------------------------------------
(* ConfigureTelemetry *)

\* lockIntent creates the lock of a new intent and tries that of a known one.
\* A configured intent keeps its collection id: "Changing collection id is
\* unsupported".
BeginConfigure(i, r) ==
    /\ pc[i] = "idle" /\ lock[i] # "held"
    /\ r.intent = i
    /\ \A t \in Table : numEntries[t] <= MaxNumEntries
    /\ Start(i, "configure", r,
             IF Configured(i) /\ intentState[i].collectionId # r.collectionId
             THEN "unlock" ELSE "alloc")
    /\ UNCHANGED <<counterVars, intentState, poolVars, todo, done, remaining>>

Stands(n, c) == collectionId[n] = c
Free(n) == intents[n] = {}

\* The number AllocOrGet returns: the one the collection id has, or else the
\* lowest free one.
IsNumberFor(n, c) ==
    \/ Stands(n, c)
    \/ /\ \A m \in Number : ~Stands(m, c)
       /\ Free(n) /\ \A m \in Number : m < n => ~Free(m)

\* AllocOrGet, and the changelog of what is to be added and removed.
Alloc(i) ==
    LET req == request[i]
        old == IF Configured(i) THEN EntitiesOf[intentState[i]] ELSE NoEntities
        diff == computeDifferences(old, EntitiesOf[req])
    IN /\ pc[i] = "alloc"
       /\ \E n \in Number :
            /\ IsNumberFor(n, req.collectionId)
            /\ collectionId' = [collectionId EXCEPT ![n] = req.collectionId]
            /\ intents' = [intents EXCEPT ![n] = @ \cup {i}]
            /\ todo' = [todo EXCEPT ![i] = Changelog(diff.added, diff.removed, n)]
       /\ GoTo(i, IF IsEmpty(diff.added) /\ IsEmpty(diff.removed) THEN "store" ELSE "commit")
       /\ UNCHANGED <<counterVars, lock, intentState, job, request, done, failed, remaining>>

\* "Resources exhausted, use different collection id"
AllocRefused(i) ==
    /\ pc[i] = "alloc"
    /\ \A n \in Number : ~IsNumberFor(n, request[i].collectionId)
    /\ GoTo(i, IF Configured(i) THEN "unlock" ELSE "deleteLock")
    /\ UNCHANGED <<counterVars, lock, intentState, poolVars, job, request, logVars, remaining>>

Store(i) ==
    /\ pc[i] = "store"
    /\ intentState' = [intentState EXCEPT ![i] = request[i]]
    /\ GoTo(i, "unlock")
    /\ UNCHANGED <<counterVars, lock, poolVars, job, request, logVars, remaining>>
-----------------------------------------------------------------------------
(* DisableTelemetry *)

\* tryLockIntentIfExists: an unknown intent needs no disabling.
BeginDisable(i) ==
    /\ pc[i] = "idle" /\ lock[i] = "free"
    /\ Start(i, "disable", NoState, "load")
    /\ UNCHANGED <<counterVars, intentState, poolVars, todo, done, remaining>>

Allocated(i, n, c) == Stands(n, c) /\ i \in intents[n]

\* Mutant: the state is dropped before the commit, which may still fail.
Load_DropsFirst(i) ==
    /\ pc[i] = "load"
    /\ request' = [request EXCEPT ![i] = intentState[i]]
    /\ intentState' = [intentState EXCEPT ![i] = NoState]
    /\ \E n \in {m \in Number : Allocated(i, m, intentState[i].collectionId)} :
         todo' = [todo EXCEPT ![i] = Changelog(NoEntities, EntitiesOf[intentState[i]], n)]
    /\ GoTo(i, "commit")
    /\ UNCHANGED <<counterVars, lock, poolVars, job, done, failed, remaining>>

\* The goroutine of a disabled intent.  Without a state it returns, and leaves
\* the lock held; it panics when the pool does not know the intent.
Load(i) ==
    LET numbers == {n \in Number : Allocated(i, n, intentState[i].collectionId)}
    IN /\ pc[i] = "load"
       /\ request' = [request EXCEPT ![i] = intentState[i]]
       /\ IF Configured(i) /\ numbers # {}
          THEN /\ \E n \in numbers :
                     todo' = [todo EXCEPT ![i] = Changelog(NoEntities, EntitiesOf[intentState[i]], n)]
               /\ GoTo(i, "commit")
          ELSE /\ GoTo(i, IF Configured(i) THEN "panic" ELSE "leaked")
               /\ UNCHANGED todo
       /\ UNCHANGED <<counterVars, lock, intentState, poolVars, job, done, failed, remaining>>

Drop(i) ==
    /\ pc[i] = "drop"
    /\ intentState' = [intentState EXCEPT ![i] = NoState]
    /\ GoTo(i, "free")
    /\ UNCHANGED <<counterVars, lock, poolVars, job, request, logVars, remaining>>
-----------------------------------------------------------------------------
(* commit *)

\* Mutant: the action that failed is rolled back with those that did not.
CommitStep_RollsBackTheFailed(i) ==
    /\ pc[i] = "commit"
    /\ \E a \in NextActions(i), ok \in BOOLEAN :
        /\ Apply(a[1], a[2], ok)
        /\ done' = [done EXCEPT ![i] = Append(@, a)]
        /\ IF ok
           THEN todo' = [todo EXCEPT ![i] = @ (-) SetToBag({a})] /\ UNCHANGED <<pc, failed>>
           ELSE /\ todo' = [todo EXCEPT ![i] = EmptyBag]
                /\ failed' = [failed EXCEPT ![i] = TRUE]
                /\ GoTo(i, "rollback")
    /\ UNCHANGED <<lock, intentState, poolVars, job, request, remaining>>

CommitStep(i) ==
    /\ pc[i] = "commit"
    /\ \E a \in NextActions(i), ok \in BOOLEAN :
        /\ Apply(a[1], a[2], ok)
        /\ IF ok
           THEN /\ todo' = [todo EXCEPT ![i] = @ (-) SetToBag({a})]
                /\ done' = [done EXCEPT ![i] = Append(@, a)]
                /\ UNCHANGED <<pc, failed>>
           ELSE /\ todo' = [todo EXCEPT ![i] = EmptyBag]
                /\ failed' = [failed EXCEPT ![i] = TRUE]
                /\ GoTo(i, "rollback")
                /\ UNCHANGED done
    /\ UNCHANGED <<lock, intentState, poolVars, job, request, remaining>>

\* Mutant: an action whose undoing fails is tried again.
RollbackStep_Retries(i) ==
    LET a == done[i][Len(done[i])]
    IN /\ pc[i] = "rollback"
       /\ done[i] # <<>>
       /\ \E ok \in BOOLEAN :
            /\ Apply(Undoing(a[1]), a[2], ok)
            /\ done' = [done EXCEPT ![i] = IF ok THEN SubSeq(@, 1, Len(@) - 1) ELSE @]
       /\ UNCHANGED <<pc, todo, failed, lock, intentState, poolVars, job, request, remaining>>

\* The last action done is undone; if that fails it is only reported.
RollbackStep(i) ==
    LET a == done[i][Len(done[i])]
    IN /\ pc[i] = "rollback"
       /\ done[i] # <<>>
       /\ \E ok \in BOOLEAN : Apply(Undoing(a[1]), a[2], ok)
       /\ done' = [done EXCEPT ![i] = SubSeq(@, 1, Len(@) - 1)]
       /\ UNCHANGED <<pc, todo, failed, lock, intentState, poolVars, job, request, remaining>>

\* Mutant: the early return after a failed commit always unlocks.
AfterCommit_AlwaysUnlocks(i) ==
    IF failed[i] THEN "unlock" ELSE IF job[i] = "configure" THEN "store" ELSE "drop"

\* Mutant: a disabled intent is unlocked, its state kept.
AfterCommit_NeverDrops(i) ==
    CASE job[i] = "configure" /\ ~failed[i] -> "store"
      [] job[i] = "configure" /\ failed[i] -> IF Configured(i) THEN "unlock" ELSE "free"
      [] job[i] = "disable" -> "unlock"

\* Mutant: a new intent whose commit failed keeps its number.
AfterCommit_KeepsNumber(i) ==
    CASE job[i] = "configure" /\ ~failed[i] -> "store"
      [] job[i] = "configure" /\ failed[i] -> IF Configured(i) THEN "unlock" ELSE "deleteLock"
      [] job[i] = "disable" /\ ~failed[i] -> "drop"
      [] job[i] = "disable" /\ failed[i] -> "unlock"

AfterCommit(i) ==
    CASE job[i] = "configure" /\ ~failed[i] -> "store"
      [] job[i] = "configure" /\ failed[i] -> IF Configured(i) THEN "unlock" ELSE "free"
      [] job[i] = "disable" /\ ~failed[i] -> "drop"
      [] job[i] = "disable" /\ failed[i] -> "unlock"

\* createCapabilityUpdate and NotifyChanged, whether the commit failed or not
\* (SourceCapabilityMonitor models what happens between the two).
Notify(i) ==
    /\ \/ pc[i] = "commit" /\ Pending(i) = {}
       \/ pc[i] = "rollback" /\ done[i] = <<>>
    /\ remaining' = [d \in Device |-> Capacity - numEntries[<<"source", d>>]]
    /\ done' = [done EXCEPT ![i] = <<>>]
    /\ GoTo(i, AfterCommit(i))
    /\ UNCHANGED <<counterVars, lock, intentState, poolVars, job, request, todo, failed>>
-----------------------------------------------------------------------------
(* The end of a request *)

\* Free clears the slot of the last intent that used it.
FreeNumber(i) ==
    /\ pc[i] = "free"
    /\ \E n \in Number :
        /\ Allocated(i, n, request[i].collectionId)
        /\ intents' = [intents EXCEPT ![n] = @ \ {i}]
        /\ collectionId' = [collectionId EXCEPT ![n] = IF intents[n] = {i} THEN NoCollection ELSE @]
    /\ GoTo(i, "deleteLock")
    /\ UNCHANGED <<counterVars, lock, intentState, job, request, logVars, remaining>>

DeleteIntentLock(i) ==
    /\ pc[i] = "deleteLock"
    /\ Finish(i, "absent")
    /\ UNCHANGED <<counterVars, intentState, poolVars, todo, done, remaining>>

UnlockIntent(i) ==
    /\ pc[i] = "unlock"
    /\ Finish(i, "free")
    /\ UNCHANGED <<counterVars, intentState, poolVars, todo, done, remaining>>
-----------------------------------------------------------------------------
Step(i) ==
    \/ Alloc(i) \/ AllocRefused(i) \/ Store(i)
    \/ Load(i) \/ Drop(i)
    \/ CommitStep(i) \/ RollbackStep(i) \/ Notify(i)
    \/ FreeNumber(i) \/ DeleteIntentLock(i) \/ UnlockIntent(i)

Next ==
    \E i \in Intent :
        \/ \E r \in Request : BeginConfigure(i, r)
        \/ BeginDisable(i)
        \/ Step(i)

Spec == Init /\ [][Next]_vars

\* A request under way keeps going: the table locks are handed to every waiter
\* and a device call ends after ENTRY_CONFIG_TIMEOUT at the latest.
FairSpec == Spec /\ \A i \in Intent : WF_vars(Step(i))
-----------------------------------------------------------------------------
(* What the service promises. *)

\* The number of an intent that is configured.
NumberOf(i) == CHOOSE n \in Number : Allocated(i, n, intentState[i].collectionId)
Needs(i, e) == IF Configured(i) THEN Occurrences(EntitiesOf[intentState[i]], NumberOf(i), e) ELSE 0

Quiescent == \A i \in Intent : pc[i] = "idle"

TypeOK ==
    /\ CounterTypeOK
    /\ lock \in [Intent -> {"absent", "free", "held"}]
    /\ intentState \in [Intent -> Request \cup {NoState}]
    /\ collectionId \in [Number -> CollectionId \cup {NoCollection}]
    /\ intents \in [Number -> SUBSET Intent]
    /\ pc \in [Intent -> {"idle", "alloc", "load", "commit", "rollback", "store", "drop",
                          "free", "deleteLock", "unlock", "leaked", "panic"}]
    /\ job \in [Intent -> {"none", "configure", "disable"}]
    /\ request \in [Intent -> Request \cup {NoState}]
    /\ \A i \in Intent : IsABag(todo[i]) /\ Pending(i) \subseteq Action
    /\ done \in [Intent -> Seq(Action)]
    /\ failed \in [Intent -> BOOLEAN]
    /\ remaining \in [Device -> Int]

\* Nobody walks away with an intent's lock: it is held exactly by a running
\* goroutine, a lock left free is that of a configured intent, and one that is
\* gone leaves no state behind.  Every early return of ConfigureTelemetry and
\* DisableTelemetry has to choose between unlocking and deleting.
LockMatchesState ==
    \A i \in Intent :
        /\ pc[i] \notin {"leaked", "panic"}
        /\ lock[i] = "held" <=> pc[i] # "idle"
        /\ lock[i] = "free" => Configured(i)
        /\ lock[i] = "absent" => ~Configured(i)

\* An intent holds a number of its collection id exactly while it is
\* configured: no path of either request loses or keeps an allocation.
AllocationMatchesState ==
    \A i \in Intent : pc[i] = "idle" =>
        \A n \in Number : i \in intents[n] =>
            Configured(i) /\ collectionId[n] = intentState[i].collectionId

\* A common edge of two states of an intent is in the same use: it gains a config
\* just if it loses one, and one it keeps occurs as often as before.
KeepsItsEdges(old, new) ==
    \A e \in DOMAIN old.sources \cap DOMAIN new.sources :
        /\ HasConfigs(ConfigsMissingFrom(new.sources[e], old.sources[e]))
           <=> HasConfigs(ConfigsMissingFrom(old.sources[e], new.sources[e]))
        /\ \A c \in Config : old.sources[e][c] > 0 /\ new.sources[e][c] > 0 =>
              old.sources[e][c] = new.sources[e][c]

\* The requests between which computeDifferences counts right.  (Between others it
\* does not: an edge that gains a config is activated once more, and once more
\* than it is ever deactivated.)
RequestsAreBalanced ==
    \A r, s \in Request :
        r.intent = s.intent /\ r.collectionId = s.collectionId =>
            KeepsItsEdges(EntitiesOf[r], EntitiesOf[s])

\* When nothing is under way, every entry is counted once for every time a
\* configured intent needs it.
CountsMatchIntents ==
    Quiescent => \A e \in TableEntry : counter[e] = Total([i \in Intent |-> Needs(i, e)], Intent)

\* The packets between the ends of the requests: one for every flow.
Packet ==
    UNION {{[src |-> s, dst |-> t, innerSrc |-> a, innerDst |-> b] :
               s \in DOMAIN r.sources, t \in DOMAIN r.targets,
               a \in UNION {r.sources[x] : x \in DOMAIN r.sources} \cup {AnyAddress},
               b \in UNION {r.targets[x] : x \in DOMAIN r.targets} \cup {AnyAddress}} : r \in Request}

\* Where a request has a switch add headers to a packet, it has a sink on the rest
\* of the packet's way.  The ways of the code are found depth first, those of the
\* packets breadth first: they agree where there is only one.
RequestsStripTheirPackets ==
    \A r \in Request, pkt \in Packet :
        LET way == Route[<<pkt.src, pkt.dst>>]
            ents == EntitiesOf[r]
        IN /\ way \in Seq(Node) /\ Len(way) >= 2
           /\ \A e \in DOMAIN ents.sources, c \in Config, k \in 2 .. Len(way) - 1 :
                 e[1] = way[k] /\ ents.sources[e][c] > 0 /\ Matches(pkt, c) =>
                     \E j \in k .. Len(way) - 1 : <<way[j], way[j + 1]>> \in ents.sinks

\* No packet reaches its target with a telemetry header on it, in the middle of
\* a commit or a rollback either: on its whole way through the network, by the
\* forwarding entries, what adds the header is in place only while a sink behind
\* it strips it off.  Creations go from the sink to the source, deletions and
\* rollbacks the other way.
HeadersAreStripped == \A pkt \in Packet : ~Delivered(installed, pkt).header

\* The flows an intent is configured to measure.
FlowsOf(r) ==
    {pkt \in Packet :
        /\ pkt.src \in DOMAIN r.sources /\ pkt.dst \in DOMAIN r.targets
        /\ IF r.tunneled
           THEN pkt.innerSrc \in r.sources[pkt.src] /\ pkt.innerDst \in r.targets[pkt.dst]
           ELSE pkt.innerSrc = AnyAddress /\ pkt.innerDst = AnyAddress}

\* The switches of a packet's way that could measure it.
Measurers(pkt) ==
    LET way == Route[<<pkt.src, pkt.dst>>]
        among[k \in 0 .. Len(way)] ==
            IF k = 0 THEN <<>>
            ELSE IF way[k] \in Device THEN Append(among[k - 1], way[k]) ELSE among[k - 1]
    IN among[Len(way)]

\* A packet of a flow that a configured intent asks for is measured by every
\* switch of its way that can, in their order, and reported; one that meets less
\* than two of them is left alone.  Requests of other intents that share entries
\* with this one do not disturb it.
FlowsAreMeasured ==
    \A i \in Intent : lock[i] = "free" =>
        \A pkt \in FlowsOf(intentState[i]) :
            Len(Measurers(pkt)) >= 2 =>
                LET d == Delivered(installed, pkt)
                IN d.measured = Measurers(pkt) /\ d.reported

\* On the way of a flow, a request has the first switch be the source, the last the
\* sink, and all of them transits; and no request has a sink in between.
MeasuresAllOf(r, pkt, way) ==
    LET ents == EntitiesOf[r]
        switches == {k \in 1 .. Len(way) : way[k] \in Device}
    IN \E first, last \in 2 .. Len(way) - 1 :
          /\ {first, last} \subseteq switches /\ switches \subseteq first .. last
          /\ <<way[first], way[first - 1]>> \in DOMAIN ents.sources
          /\ \E c \in Config : /\ Matches(pkt, c)
                               /\ ents.sources[<<way[first], way[first - 1]>>][c] > 0
          /\ \A k \in switches : way[k] \in ents.transits
          /\ <<way[last], way[last + 1]>> \in ents.sinks
          /\ \A q \in Request, k \in first .. last - 1 :
                <<way[k], way[k + 1]>> \notin EntitiesOf[q].sinks

RequestsMeasureTheirFlows ==
    \A r \in Request : \A pkt \in FlowsOf(r) : Len(Measurers(pkt)) >= 2 =>
        LET way == Route[<<pkt.src, pkt.dst>>]
        IN way \in Seq(Node) /\ MeasuresAllOf(r, pkt, way)

\* Clients are told what is really left of each switch's source capacity, or
\* less by at most one for every refused call.
AnnouncedCapacityIsReal ==
    Quiescent => \A d \in Device :
        LET left == Capacity - Cardinality({e \in installed : e.kind = "source" /\ e.dev = d})
        IN remaining[d] \in left - failures .. left

\* Every request ends and gives the intent up to the next one, whatever fails.
RequestsEnd == \A i \in Intent : pc[i] # "idle" ~> pc[i] = "idle"

\* What the outside sees of an intent: the stored state is what it is configured
\* with, and a request is served until that state is stored or dropped, or until
\* it gives up.  The moment until the unlocking counts no more.
TakenEffect(i) ==
    \/ job[i] = "configure" /\ pc[i] = "unlock" /\ intentState[i] = request[i]
    \/ job[i] = "disable" /\ pc[i] \in {"free", "deleteLock"}

IsServed(i) == pc[i] # "idle" /\ ~TakenEffect(i)

Intents == INSTANCE TelemetryIntents WITH
    Content <- Request,
    Nothing <- NoState,
    config <- intentState,
    serving <- [i \in Intent |-> IF IsServed(i) THEN job[i] ELSE "none"],
    asked <- [i \in Intent |->
                IF IsServed(i) /\ job[i] = "configure" THEN request[i] ELSE NoState]

\* Locks, pool, commits, rollbacks and the goroutine that goes on after the
\* answer add up to what clients rely on: one request at a time for an intent,
\* which changes what is configured once, as a whole, or not at all, and ends.
ImplementsIntents == Intents!IntentsSpec

\* DisableTelemetry answers before it is done: "treat is as a promise that it
\* would be deleted" (service.go:218).  It is kept unless the device fails.
DisablePromiseIsKept ==
    \A i \in Intent : (job[i] = "disable") ~> (lock[i] = "absent" \/ failures > 0)
=============================================================================
