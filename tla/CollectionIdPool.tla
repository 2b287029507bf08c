--------------------------- MODULE CollectionIdPool ---------------------------
(***************************************************************************)
(* The pool that maps stringified collection ids to the small integers the *)
(* switches carry in their telemetry entries (kinda-sdn/telemetry/pool.go).*)
(* A slot's index is the number; a slot is shared by all the intents that  *)
(* configured the same collection id.                                      *)
(*                                                                         *)
(* Grain of atomicity.  A slot is read and written under its itemLock, so  *)
(* one visit of one slot is one action.  A Load followed by a successful   *)
(* CompareAndSwap of allocCounter is one action (the swap succeeds only if *)
(* the value loaded is still there); a failed swap changes nothing.  Free  *)
(* clears the slot and then decrements the counter without releasing the   *)
(* itemLock: nobody sees the slot in between, so both happen at once.      *)
(*                                                                         *)
(* The pool's callers are the intents: the telemetry service runs at most  *)
(* one operation per intent at a time (the intent lock of service.go) and  *)
(* never changes the collection id of a configured intent, which is what   *)
(* the guards of the Begin actions say.                                    *)
(***************************************************************************)
EXTENDS Integers, FiniteSets

CONSTANTS
    Intent,         \* the intents, each of them one caller of the pool
    CollectionId,   \* the stringified collection ids
    Uses,           \* which intent is configured with which collection id
    NoCollection,   \* the empty string of an unused slot
    MaxSize         \* number of slots (128 in the service)

ASSUME PoolAssumption ==
    /\ MaxSize \in Nat \ {0}
    /\ Uses \subseteq Intent \X CollectionId
    /\ NoCollection \notin CollectionId

VARIABLES
    collectionId,   \* slot -> the collection id it stands for
    intents,        \* slot -> the intents that hold it
    allocCounter,   \* reservations: occupied slots and allocations under way
    pc,             \* intent -> the loop its current call is in
    pos,            \* intent -> the slot that loop visits next
    want,           \* intent -> the collectionId argument of its current call
    held,           \* intent -> the collection id it has been given a number of
    number          \* intent -> the number its last AllocOrGet returned

vars == <<collectionId, intents, allocCounter, pc, pos, want, held, number>>
callVars == <<pc, pos, want>>
slotVars == <<collectionId, intents, allocCounter>>

Slot == 0 .. MaxSize - 1
NoNumber == -1

Occupied == {s \in Slot : intents[s] # {}}
Placers == {i \in Intent : pc[i] = "place"}

Init ==
    /\ collectionId = [s \in Slot |-> NoCollection]
    /\ intents = [s \in Slot |-> {}]
    /\ allocCounter = 0
    /\ pc = [i \in Intent |-> "idle"]
    /\ pos = [i \in Intent |-> 0]
    /\ want = [i \in Intent |-> NoCollection]
    /\ held = [i \in Intent |-> NoCollection]
    /\ number = [i \in Intent |-> NoNumber]
-----------------------------------------------------------------------------
(* Control shared by the scans over the slots. *)

Begin(i, loop, c) ==
    /\ pc[i] = "idle"
    /\ pc' = [pc EXCEPT ![i] = loop]
    /\ pos' = [pos EXCEPT ![i] = 0]
    /\ want' = [want EXCEPT ![i] = c]

GoTo(i, loop) ==
    /\ pc' = [pc EXCEPT ![i] = loop]
    /\ pos' = [pos EXCEPT ![i] = 0]
    /\ want' = [want EXCEPT ![i] = IF loop = "idle" THEN NoCollection ELSE @]

\* The visited slot did not match: on to the next one, or past the loop.
Advance(i, after) ==
    IF pos[i] + 1 < MaxSize
    THEN /\ pos' = [pos EXCEPT ![i] = @ + 1]
         /\ UNCHANGED <<pc, want>>
    ELSE GoTo(i, after)

Return(i, c, n) ==
    /\ GoTo(i, "idle")
    /\ held' = [held EXCEPT ![i] = c]
    /\ number' = [number EXCEPT ![i] = n]
-----------------------------------------------------------------------------
(* AllocOrGet *)

\* Mutant: a new slot is reserved without looking for the collection id first.
BeginAllocOrGet_NoSearch(i, c) ==
    /\ <<i, c>> \in Uses
    /\ held[i] \in {NoCollection, c}
    /\ Begin(i, "reserve", c)
    /\ UNCHANGED <<slotVars, held, number>>

BeginAllocOrGet(i, c) ==
    /\ <<i, c>> \in Uses
    /\ held[i] \in {NoCollection, c}
    /\ Begin(i, "search", c)
    /\ UNCHANGED <<slotVars, held, number>>

\* Mutant: the number is returned without recording the intent in the slot.
Join_Unrecorded(i) ==
    /\ pc[i] = "search"
    /\ collectionId[pos[i]] = want[i]
    /\ Return(i, want[i], pos[i])
    /\ UNCHANGED slotVars

\* Some slot stands for the collection id already: the intent joins it.
Join(i) ==
    /\ pc[i] = "search"
    /\ collectionId[pos[i]] = want[i]
    /\ intents' = [intents EXCEPT ![pos[i]] = @ \cup {i}]
    /\ Return(i, want[i], pos[i])
    /\ UNCHANGED <<collectionId, allocCounter>>

SearchNext(i) ==
    /\ pc[i] = "search"
    /\ collectionId[pos[i]] # want[i]
    /\ Advance(i, "reserve")
    /\ UNCHANGED <<slotVars, held, number>>

\* Mutant: the bound is off by one.
Reserve_OffByOne(i) ==
    /\ pc[i] = "reserve"
    /\ allocCounter <= MaxSize
    /\ allocCounter' = allocCounter + 1
    /\ GoTo(i, "place")
    /\ UNCHANGED <<collectionId, intents, held, number>>

Reserve(i) ==
    /\ pc[i] = "reserve"
    /\ allocCounter < MaxSize
    /\ allocCounter' = allocCounter + 1
    /\ GoTo(i, "place")
    /\ UNCHANGED <<collectionId, intents, held, number>>

\* "can't reserve more keys, pool is full"
Refuse(i) ==
    /\ pc[i] = "reserve"
    /\ allocCounter >= MaxSize
    /\ GoTo(i, "idle")
    /\ UNCHANGED <<slotVars, held, number>>

Place(i) ==
    /\ pc[i] = "place"
    /\ intents[pos[i]] = {}
    /\ collectionId' = [collectionId EXCEPT ![pos[i]] = want[i]]
    /\ intents' = [intents EXCEPT ![pos[i]] = @ \cup {i}]
    /\ Return(i, want[i], pos[i])
    /\ UNCHANGED allocCounter

\* Past the last slot the code panics: "Failed to find free pool item even
\* though allocation tracking asserted it exists".
PlaceNext(i) ==
    /\ pc[i] = "place"
    /\ intents[pos[i]] # {}
    /\ Advance(i, "panic")
    /\ UNCHANGED <<slotVars, held, number>>
-----------------------------------------------------------------------------
(* GetIfAllocated, called to disable a configured intent *)

\* Mutant: an allocation is recognised by its intent alone.
Holds_AnyCollection(i, s, c) == i \in intents[s]

Holds(i, s, c) == i \in intents[s] /\ collectionId[s] = c

BeginGetIfAllocated(i) ==
    /\ held[i] # NoCollection
    /\ Begin(i, "get", held[i])
    /\ UNCHANGED <<slotVars, held, number>>

GetFound(i) ==
    /\ pc[i] = "get"
    /\ Holds(i, pos[i], want[i])
    /\ Return(i, held[i], pos[i])
    /\ UNCHANGED slotVars

\* Past the last slot the caller panics: "should be allocated".
GetNext(i) ==
    /\ pc[i] = "get"
    /\ ~Holds(i, pos[i], want[i])
    /\ Advance(i, "missing")
    /\ UNCHANGED <<slotVars, held, number>>
-----------------------------------------------------------------------------
(* Free *)

BeginFree(i) ==
    /\ held[i] # NoCollection
    /\ Begin(i, "free", held[i])
    /\ UNCHANGED <<slotVars, held, number>>

\* Mutant: every release gives a reservation back, also from a shared slot.
FreeFound_AlwaysDecrements(i) ==
    LET s == pos[i]
    IN /\ pc[i] = "free"
       /\ Holds(i, s, want[i])
       /\ intents' = [intents EXCEPT ![s] = @ \ {i}]
       /\ collectionId' = [collectionId EXCEPT ![s] = IF intents[s] = {i} THEN NoCollection ELSE @]
       /\ allocCounter' = allocCounter - 1
       /\ Return(i, NoCollection, NoNumber)

FreeFound(i) ==
    LET s == pos[i]
        last == intents[s] = {i}
    IN /\ pc[i] = "free"
       /\ Holds(i, s, want[i])
       /\ intents' = [intents EXCEPT ![s] = @ \ {i}]
       /\ collectionId' = [collectionId EXCEPT ![s] = IF last THEN NoCollection ELSE @]
       /\ allocCounter' = IF last THEN allocCounter - 1 ELSE allocCounter
       /\ Return(i, NoCollection, NoNumber)

\* Past the last slot the code returns silently.
FreeNext(i) ==
    /\ pc[i] = "free"
    /\ ~Holds(i, pos[i], want[i])
    /\ Advance(i, "idle")
    /\ held' = IF pos[i] + 1 < MaxSize THEN held ELSE [held EXCEPT ![i] = NoCollection]
    /\ UNCHANGED <<slotVars, number>>
-----------------------------------------------------------------------------
AllocOrGetStep(i) ==
    Join(i) \/ SearchNext(i) \/ Reserve(i) \/ Refuse(i) \/ Place(i) \/ PlaceNext(i)
GetStep(i) == GetFound(i) \/ GetNext(i)
FreeStep(i) == FreeFound(i) \/ FreeNext(i)
Step(i) == AllocOrGetStep(i) \/ GetStep(i) \/ FreeStep(i)

Next ==
    \E i \in Intent :
        \/ \E c \in CollectionId : BeginAllocOrGet(i, c)
        \/ BeginGetIfAllocated(i)
        \/ BeginFree(i)
        \/ Step(i)

Spec == Init /\ [][Next]_vars
-----------------------------------------------------------------------------
(* What the pool promises. *)

Owned(s, i) == i \in intents[s]
FreeFrom(k) == {s \in k .. MaxSize - 1 : intents[s] = {}}
PlacersFrom(k) == {i \in Placers : pos[i] >= k}

TypeOK ==
    /\ collectionId \in [Slot -> CollectionId \cup {NoCollection}]
    /\ intents \in [Slot -> SUBSET Intent]
    /\ allocCounter \in 0 .. MaxSize
    /\ pc \in [Intent -> {"idle", "search", "reserve", "place", "get", "free", "panic", "missing"}]
    /\ pos \in [Intent -> Slot]
    /\ want \in [Intent -> CollectionId \cup {NoCollection}]
    /\ held \in [Intent -> CollectionId \cup {NoCollection}]
    /\ number \in [Intent -> Slot \cup {NoNumber}]

\* The counter is what AllocOrGet decides by, without looking at a slot: it
\* has to equal the occupied slots plus the allocations that hold a
\* reservation and have not reached their slot yet, in every interleaving of
\* the unlocked gaps between a reservation, a placement and a release.
CounterTracksReservations ==
    allocCounter = Cardinality(Occupied) + Cardinality(Placers)

\* A reservation is honoured although slots behind the scan are taken and
\* freed while it runs: from any slot on there are at least as many free
\* slots as allocations still to visit them.
EveryPlacerHasASlotAhead ==
    \A k \in Slot : Cardinality(PlacersFrom(k)) <= Cardinality(FreeFrom(k))

\* The panic at the end of AllocOrGet (pool.go:73) is unreachable.
NeverPanics == \A i \in Intent : pc[i] # "panic"

\* GetIfAllocated finds the allocation of every configured intent, so the
\* panic "should be allocated" of DisableTelemetry is unreachable.
OwnerFindsItsAllocation == \A i \in Intent : pc[i] # "missing"

\* The number an intent was given stays its own until it frees it: the slot
\* keeps the intent and the collection id whatever the others do.
NumberIsHeld ==
    \A i \in Intent : held[i] # NoCollection =>
        number[i] \in Slot /\ Holds(i, number[i], held[i])

\* A collection id that at most one intent is configured with.
IsPrivate(c) == \A i, j \in Intent : <<i, c>> \in Uses /\ <<j, c>> \in Uses => i = j

\* Whatever the others share and race for, a collection id of an intent's own
\* stands for one number: "integral identifier for strigified collectionId"
\* (pool.go:39-41).
OneNumberPerCollection ==
    \A s, t \in Slot :
        /\ collectionId[s] = collectionId[t] /\ collectionId[s] # NoCollection
        /\ IsPrivate(collectionId[s])
        => s = t

\* The slot of such a collection id is held only while its intent holds the
\* collection id: Free leaves nothing behind.
NothingLeftBehind ==
    \A s \in Slot : IsPrivate(collectionId[s]) =>
        \A i \in intents[s] : held[i] = collectionId[s]

\* The number GetIfAllocated returns when an intent is disabled is the one its
\* entries were written with: the reporting entry to delete is found by it.
DisableUsesTheConfiguredNumber ==
    [][\A i \in Intent : GetFound(i) => number'[i] = number[i]]_vars
=============================================================================
