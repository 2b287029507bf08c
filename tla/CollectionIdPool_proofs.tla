----------------------- MODULE CollectionIdPool_proofs -----------------------
(***************************************************************************)
(* Proofs about CollectionIdPool, for any set of intents, any collection   *)
(* ids and any number of slots.                                            *)
(*                                                                         *)
(* The inductive invariant PoolInv has three parts next to the types: how  *)
(* a call's loop, its argument and what its intent holds go together       *)
(* (CallInv), where an intent's allocation is in relation to the scan      *)
(* looking for it (OwnInv, SearchedInv), and the count of reservations     *)
(* against free slots (CountInv).                                          *)
(***************************************************************************)
EXTENDS CollectionIdPool, FiniteSetTheorems, TLAPS

Named == \A s \in Slot : (intents[s] = {}) <=> (collectionId[s] = NoCollection)

CallOK(i) ==
    /\ pc[i] \notin {"panic", "missing"}
    /\ pc[i] \in {"search", "reserve", "place"} => want[i] \in CollectionId
    /\ pc[i] = "search" => held[i] \in {NoCollection, want[i]}
    /\ pc[i] \in {"reserve", "place"} => held[i] = NoCollection
    /\ pc[i] \in {"get", "free"} => held[i] # NoCollection /\ want[i] = held[i]

OwnOK(i) ==
    held[i] # NoCollection =>
        /\ number[i] \in Slot
        /\ Holds(i, number[i], held[i])
        /\ \A s \in Slot : s < number[i] => ~Holds(i, s, held[i])
        /\ pc[i] \in {"search", "get", "free"} => pos[i] <= number[i]

SearchedOK(i) ==
    \A s \in Slot :
        \/ pc[i] = "search" /\ s < pos[i]
        \/ pc[i] \in {"reserve", "place"}
        => ~Holds(i, s, want[i])

CallInv == \A i \in Intent : CallOK(i)
OwnInv == \A i \in Intent : OwnOK(i)
SearchedInv == \A i \in Intent : SearchedOK(i)
CountInv ==
    /\ IsFiniteSet(Placers)
    /\ CounterTracksReservations
    /\ EveryPlacerHasASlotAhead

PoolInv == TypeOK /\ Named /\ CallInv /\ OwnInv /\ SearchedInv /\ CountInv
-----------------------------------------------------------------------------
(* Counting slots and allocations under way. *)

LEMMA SlotsFinite ==
    /\ IsFiniteSet(Slot)
    /\ Cardinality(Slot) = MaxSize
    /\ \A k \in Slot : IsFiniteSet(FreeFrom(k)) /\ Cardinality(FreeFrom(k)) \in Nat
    /\ IsFiniteSet(Occupied) /\ Cardinality(Occupied) \in Nat
<1>1. IsFiniteSet(Slot) /\ Cardinality(Slot) = MaxSize
  BY FS_Interval, PoolAssumption DEF Slot
<1>2. \A S \in SUBSET Slot : IsFiniteSet(S) /\ Cardinality(S) \in Nat
  BY <1>1, FS_Subset, FS_CardinalityType
<1>3. \A k \in Slot : FreeFrom(k) \in SUBSET Slot
  BY PoolAssumption DEF FreeFrom, Slot
<1>4. Occupied \in SUBSET Slot
  BY DEF Occupied
<1> QED BY <1>1, <1>2, <1>3, <1>4

\* The free slots are those not occupied.
LEMMA FreeIsTheRest ==
    Cardinality(FreeFrom(0)) = MaxSize - Cardinality(Occupied)
<1>1. FreeFrom(0) = Slot \ Occupied
  BY PoolAssumption DEF FreeFrom, Occupied, Slot
<1>2. Cardinality(Slot \ Occupied) = Cardinality(Slot) - Cardinality(Slot \cap Occupied)
  BY SlotsFinite, FS_Difference
<1>3. Slot \cap Occupied = Occupied
  BY DEF Occupied
<1> QED BY <1>1, <1>2, <1>3, SlotsFinite

LEMMA PlacersFinite ==
    ASSUME IsFiniteSet(Placers)
    PROVE  /\ Cardinality(Placers) \in Nat
           /\ \A k \in Int : IsFiniteSet(PlacersFrom(k)) /\ Cardinality(PlacersFrom(k)) \in Nat
<1>1. \A k \in Int : PlacersFrom(k) \in SUBSET Placers
  BY DEF PlacersFrom
<1> QED BY <1>1, FS_Subset, FS_CardinalityType

\* A step that starts, moves or ends no placement and neither empties nor
\* occupies a slot keeps the count.
LEMMA CountKept ==
    ASSUME CountInv, UNCHANGED allocCounter,
           \A j \in Intent : (pc'[j] = "place") <=> (pc[j] = "place"),
           \A j \in Intent : pc[j] = "place" => pos'[j] = pos[j],
           \A s \in Slot : (intents'[s] = {}) <=> (intents[s] = {})
    PROVE  CountInv'
<1>1. Placers' = Placers
  BY DEF Placers
<1>2. Occupied' = Occupied
  BY DEF Occupied, Slot
<1>3. \A k \in Slot : PlacersFrom(k)' = PlacersFrom(k)
  BY <1>1 DEF PlacersFrom, Placers
<1>4. \A k \in Slot : FreeFrom(k)' = FreeFrom(k)
  BY PoolAssumption DEF FreeFrom, Slot
<1> QED
  BY <1>1, <1>2, <1>3, <1>4 DEF CountInv, CounterTracksReservations, EveryPlacerHasASlotAhead, Slot

-----------------------------------------------------------------------------
(* Each action preserves the invariant. *)

LEMMA InitInv == Init => PoolInv
<1> SUFFICES ASSUME Init PROVE PoolInv
  OBVIOUS
<1>1. TypeOK
  BY PoolAssumption DEF Init, TypeOK, Slot, NoNumber
<1>2. Named /\ CallInv /\ OwnInv /\ SearchedInv
  BY DEF Init, Named, CallInv, CallOK, OwnInv, OwnOK, SearchedInv, SearchedOK
<1>3. Placers = {} /\ Occupied = {} /\ \A k \in Slot : PlacersFrom(k) = {}
  BY DEF Init, Placers, PlacersFrom, Occupied
<1>4. CounterTracksReservations
  BY <1>3, FS_EmptySet DEF Init, CounterTracksReservations
<1>5. EveryPlacerHasASlotAhead
  BY <1>3, FS_EmptySet, SlotsFinite DEF EveryPlacerHasASlotAhead
<1>6. CountInv
  BY <1>3, <1>4, <1>5, FS_EmptySet DEF CountInv
<1> QED BY <1>1, <1>2, <1>6 DEF PoolInv

\* The steps that only move the program counter of one intent that is not
\* placing: Begin..., a visit that does not match, a refusal.
LEMMA BeginInv ==
    ASSUME PoolInv, NEW i \in Intent, NEW c \in CollectionId,
           BeginAllocOrGet(i, c) \/ BeginGetIfAllocated(i) \/ BeginFree(i)
    PROVE  PoolInv'
<1> USE DEF PoolInv, BeginAllocOrGet, BeginGetIfAllocated, BeginFree, Begin, slotVars
<1>0. 0 \in Slot /\ \A s \in Slot : 0 <= s /\ ~(s < 0)
  BY PoolAssumption DEF Slot
<1>1. TypeOK'
  BY <1>0 DEF TypeOK
<1>2. Named'
  BY DEF Named
<1>3. CallInv'
  BY PoolAssumption DEF CallInv, CallOK, TypeOK
<1>4. OwnInv'
  BY <1>0 DEF OwnInv, OwnOK, Holds, TypeOK
<1>5. SearchedInv'
  BY <1>0 DEF SearchedInv, SearchedOK, Holds, TypeOK
<1>6. CountInv'
  BY CountKept DEF TypeOK
<1> QED BY <1>1, <1>2, <1>3, <1>4, <1>5, <1>6

LEMMA SearchNextInv ==
    ASSUME PoolInv, NEW i \in Intent, SearchNext(i)
    PROVE  PoolInv'
<1> USE DEF PoolInv, SearchNext, slotVars
<1>0. 0 \in Slot /\ \A s \in Slot : s \in Int /\ 0 <= s /\ s < MaxSize
  BY PoolAssumption DEF Slot
<1>1. pos[i] \in Slot /\ DOMAIN pc = Intent /\ DOMAIN pos = Intent
  BY DEF TypeOK
<1>2. held[i] # NoCollection => number[i] \in Slot /\ pos[i] + 1 <= number[i]
  BY <1>0, <1>1 DEF OwnInv, OwnOK, CallInv, CallOK, Holds
<1>3. \A s \in Slot : s <= pos[i] => ~Holds(i, s, want[i])
  BY <1>0, <1>1 DEF SearchedInv, SearchedOK, Holds
<1>4. Named'
  BY DEF Named
<1>5. CASE pos[i] + 1 < MaxSize
  <2> USE DEF Advance
  <2>1. pos[i] + 1 \in Slot
    BY <1>1, <1>5, PoolAssumption DEF Slot
  <2>2. TypeOK'
    BY <1>5, <2>1 DEF TypeOK
  <2>3. CallInv'
    BY <1>5 DEF CallInv, CallOK
  <2>4. OwnInv'
    BY <1>1, <1>2, <1>5 DEF OwnInv, OwnOK, Holds
  <2>5. SearchedInv'
    BY <1>0, <1>1, <1>3, <1>5 DEF SearchedInv, SearchedOK, Holds
  <2>6. CountInv'
    BY <1>1, <1>5, CountKept
  <2> QED BY <1>4, <2>2, <2>3, <2>4, <2>5, <2>6
<1>6. CASE ~(pos[i] + 1 < MaxSize)
  <2>1. GoTo(i, "reserve")
    BY <1>6 DEF Advance
  <2>2. held[i] = NoCollection
    BY <1>0, <1>1, <1>2, <1>6, PoolAssumption
  <2>3. \A s \in Slot : ~Holds(i, s, want[i])
    BY <1>0, <1>1, <1>3, <1>6, PoolAssumption
  <2>4. want' = want
    BY <2>1 DEF GoTo, TypeOK
  <2>5. TypeOK'
    BY <1>0, <2>1, <2>4 DEF GoTo, TypeOK
  <2>6. CallInv'
    BY <1>1, <2>1, <2>2, <2>4 DEF GoTo, CallInv, CallOK
  <2>7. OwnInv'
    BY <1>1, <2>1, <2>2, <2>4 DEF GoTo, OwnInv, OwnOK, Holds
  <2>8. SearchedInv'
    BY <1>1, <2>1, <2>3, <2>4 DEF GoTo, SearchedInv, SearchedOK, Holds
  <2>9. CountInv'
    BY <1>1, <2>1, CountKept DEF GoTo
  <2> QED BY <1>4, <2>5, <2>6, <2>7, <2>8, <2>9
<1> QED BY <1>5, <1>6

LEMMA RefuseInv ==
    ASSUME PoolInv, NEW i \in Intent, Refuse(i)
    PROVE  PoolInv'
<1> USE DEF PoolInv, Refuse, GoTo, slotVars
<1>1. TypeOK'
  BY PoolAssumption DEF TypeOK, Slot
<1>2. Named'
  BY DEF Named
<1>3. CallInv' /\ OwnInv' /\ SearchedInv'
  BY DEF CallInv, CallOK, OwnInv, OwnOK, SearchedInv, SearchedOK, Holds, TypeOK
<1>4. CountInv'
  BY CountKept DEF TypeOK
<1> QED BY <1>1, <1>2, <1>3, <1>4

\* An intent that takes no step keeps its part of the invariant as long as the
\* slots say of it what they said before.
LEMMA BystanderKept ==
    ASSUME PoolInv, NEW j \in Intent,
           pc'[j] = pc[j], pos'[j] = pos[j], want'[j] = want[j],
           held'[j] = held[j], number'[j] = number[j],
           \A s \in Slot : \A c \in CollectionId \cup {NoCollection} :
               (j \in intents'[s] /\ collectionId'[s] = c) <=> Holds(j, s, c)
    PROVE  CallOK(j)' /\ OwnOK(j)' /\ SearchedOK(j)'
<1>1. held[j] \in CollectionId \cup {NoCollection} /\ want[j] \in CollectionId \cup {NoCollection}
  BY DEF PoolInv, TypeOK
<1>2. CallOK(j) /\ OwnOK(j) /\ SearchedOK(j)
  BY DEF PoolInv, CallInv, OwnInv, SearchedInv
<1>3. \A s \in Slot : Holds(j, s, held[j])' <=> Holds(j, s, held[j])
  BY <1>1 DEF Holds
<1>4. \A s \in Slot : Holds(j, s, want[j])' <=> Holds(j, s, want[j])
  BY <1>1 DEF Holds
<1> QED BY <1>2, <1>3, <1>4 DEF CallOK, OwnOK, SearchedOK

\* Joining fills no empty slot: the slot is named, so it is occupied.
LEMMA JoinInv ==
    ASSUME PoolInv, NEW i \in Intent, Join(i)
    PROVE  PoolInv'
<1> USE DEF Join, Return, GoTo
<1> DEFINE p == pos[i]
<1>0. 0 \in Slot /\ \A s \in Slot : s \in Int /\ 0 <= s
  BY PoolAssumption DEF Slot
<1>1. p \in Slot /\ want[i] \in CollectionId /\ want[i] # NoCollection
  BY PoolAssumption DEF PoolInv, TypeOK, CallInv, CallOK
<1>2. intents[p] # {} /\ collectionId[p] = want[i]
  BY <1>1 DEF PoolInv, Named
<1>3. TypeOK'
  BY <1>0, <1>1 DEF PoolInv, TypeOK
<1>4. \A s \in Slot : (intents'[s] = {}) <=> (intents[s] = {})
  BY <1>1, <1>2 DEF PoolInv, TypeOK
<1>5. Named'
  BY <1>4 DEF PoolInv, Named
<1>6. /\ held'[i] = want[i] /\ number'[i] = p /\ pc'[i] = "idle"
      /\ i \in intents'[p] /\ collectionId'[p] = want[i]
  BY <1>1, <1>2 DEF PoolInv, TypeOK
<1>7. \A s \in Slot : s < p => ~Holds(i, s, want[i])
  BY <1>1 DEF PoolInv, SearchedInv, SearchedOK
<1>8. \A s \in Slot : s < p => ~(i \in intents'[s] /\ collectionId'[s] = want[i])
  BY <1>0, <1>1, <1>7 DEF Holds, PoolInv, TypeOK
<1>9. CallOK(i)' /\ OwnOK(i)' /\ SearchedOK(i)'
  BY <1>1, <1>6, <1>8 DEF CallOK, OwnOK, SearchedOK, Holds
<1>10. ASSUME NEW j \in Intent, j # i
       PROVE  CallOK(j)' /\ OwnOK(j)' /\ SearchedOK(j)'
  <2>1. /\ pc'[j] = pc[j] /\ pos'[j] = pos[j] /\ want'[j] = want[j]
        /\ held'[j] = held[j] /\ number'[j] = number[j]
    BY <1>10 DEF PoolInv, TypeOK
  <2>2. \A s \in Slot : \A c \in CollectionId \cup {NoCollection} :
            (j \in intents'[s] /\ collectionId'[s] = c) <=> Holds(j, s, c)
    BY <1>1, <1>10 DEF Holds, PoolInv, TypeOK
  <2> QED BY <2>1, <2>2, BystanderKept
<1>11. CountInv'
  BY <1>4, CountKept DEF PoolInv, TypeOK
<1> QED BY <1>3, <1>5, <1>9, <1>10, <1>11 DEF PoolInv, CallInv, OwnInv, SearchedInv

LEMMA ReserveInv ==
    ASSUME PoolInv, NEW i \in Intent, Reserve(i)
    PROVE  PoolInv'
<1> USE DEF Reserve, GoTo
<1>0. 0 \in Slot /\ \A s \in Slot : s \in Int /\ 0 <= s
  BY PoolAssumption DEF Slot
<1>1. TypeOK'
  BY <1>0, PoolAssumption DEF PoolInv, TypeOK
<1>2. Named'
  BY DEF PoolInv, Named
<1>3. want' = want /\ pc'[i] = "place" /\ pos'[i] = 0 /\ i \notin Placers
  BY DEF PoolInv, TypeOK, Placers
<1>4. CallInv' /\ OwnInv' /\ SearchedInv'
  BY <1>3 DEF PoolInv, CallInv, CallOK, OwnInv, OwnOK, SearchedInv, SearchedOK, Holds, TypeOK
<1>5. Placers' = Placers \cup {i}
  BY <1>3 DEF Placers, PoolInv, TypeOK
<1>6. IsFiniteSet(Placers) /\ Cardinality(Placers) \in Nat
  BY PlacersFinite DEF PoolInv, CountInv
<1>7. IsFiniteSet(Placers') /\ Cardinality(Placers') = Cardinality(Placers) + 1
  BY <1>3, <1>5, <1>6, FS_AddElement
<1>8. CounterTracksReservations'
  BY <1>6, <1>7, SlotsFinite DEF PoolInv, CountInv, CounterTracksReservations, Occupied
<1>9. ASSUME NEW k \in Slot
      PROVE  Cardinality(PlacersFrom(k)') <= Cardinality(FreeFrom(k)')
  <2>1. FreeFrom(k)' = FreeFrom(k)
    BY DEF FreeFrom
  <2>2. CASE k = 0
    <3>1. PlacersFrom(0)' \in SUBSET Placers'
      BY DEF PlacersFrom
    <3>2. Cardinality(PlacersFrom(0)') <= Cardinality(Placers')
      BY <1>7, <3>1, FS_Subset
    <3>3. IsFiniteSet(PlacersFrom(0)') /\ Cardinality(PlacersFrom(0)') \in Nat
      BY <1>7, <3>1, FS_Subset, FS_CardinalityType
    <3>4. Cardinality(Placers) + 1 <= Cardinality(FreeFrom(0))
      BY <1>6, FreeIsTheRest, SlotsFinite, PoolAssumption
         DEF PoolInv, CountInv, CounterTracksReservations
    <3> QED BY <1>0, <1>6, <1>7, <2>1, <2>2, <3>2, <3>3, <3>4, SlotsFinite
  <2>3. CASE k # 0
    <3>1. \A j \in Intent : j # i => pc'[j] = pc[j] /\ pos'[j] = pos[j]
      BY DEF PoolInv, TypeOK
    <3>2. PlacersFrom(k)' = PlacersFrom(k)
      BY <1>0, <1>3, <1>5, <2>3, <3>1 DEF PlacersFrom, Placers
    <3> QED BY <2>1, <3>2 DEF PoolInv, CountInv, EveryPlacerHasASlotAhead
  <2> QED BY <2>2, <2>3
<1>10. CountInv'
  BY <1>7, <1>8, <1>9 DEF CountInv, EveryPlacerHasASlotAhead, Slot
<1> QED BY <1>1, <1>2, <1>4, <1>10 DEF PoolInv

\* Placing takes one free slot and one placer away from every count that
\* contains the slot, and changes none that does not.
LEMMA PlaceInv ==
    ASSUME PoolInv, NEW i \in Intent, Place(i)
    PROVE  PoolInv'
<1> USE DEF Place, Return, GoTo
<1> DEFINE p == pos[i]
<1>0. 0 \in Slot /\ \A s \in Slot : s \in Int /\ 0 <= s
  BY PoolAssumption DEF Slot
<1>1. /\ p \in Slot /\ want[i] \in CollectionId /\ want[i] # NoCollection
      /\ i \in Placers /\ intents[p] = {}
  BY PoolAssumption DEF PoolInv, TypeOK, CallInv, CallOK, Placers
<1>2. TypeOK'
  BY <1>0, <1>1 DEF PoolInv, TypeOK
<1>3. Named'
  BY <1>1 DEF PoolInv, Named, TypeOK
<1>4. /\ held'[i] = want[i] /\ number'[i] = p /\ pc'[i] = "idle"
      /\ i \in intents'[p] /\ collectionId'[p] = want[i]
  BY <1>1 DEF PoolInv, TypeOK
<1>5. \A s \in Slot : ~Holds(i, s, want[i])
  BY <1>1 DEF PoolInv, SearchedInv, SearchedOK
<1>6. \A s \in Slot : s < p => ~(i \in intents'[s] /\ collectionId'[s] = want[i])
  BY <1>0, <1>1, <1>5 DEF Holds, PoolInv, TypeOK
<1>7. CallOK(i)' /\ OwnOK(i)' /\ SearchedOK(i)'
  BY <1>1, <1>4, <1>6 DEF CallOK, OwnOK, SearchedOK, Holds
<1>8. ASSUME NEW j \in Intent, j # i
      PROVE  CallOK(j)' /\ OwnOK(j)' /\ SearchedOK(j)'
  <2>1. /\ pc'[j] = pc[j] /\ pos'[j] = pos[j] /\ want'[j] = want[j]
        /\ held'[j] = held[j] /\ number'[j] = number[j]
    BY <1>8 DEF PoolInv, TypeOK
  <2>2. \A s \in Slot : \A c \in CollectionId \cup {NoCollection} :
            (j \in intents'[s] /\ collectionId'[s] = c) <=> Holds(j, s, c)
    BY <1>1, <1>8 DEF Holds, PoolInv, TypeOK
  <2> QED BY <2>1, <2>2, BystanderKept
<1>9. CountInv'
  <2>1. IsFiniteSet(Placers) /\ Cardinality(Placers) \in Nat
    BY PlacersFinite DEF PoolInv, CountInv
  <2>2. Placers' = Placers \ {i}
    BY DEF Placers, PoolInv, TypeOK
  <2>3. IsFiniteSet(Placers') /\ Cardinality(Placers') = Cardinality(Placers) - 1
    BY <1>1, <2>1, <2>2, FS_RemoveElement
  <2>4. p \notin Occupied /\ Occupied' = Occupied \cup {p}
    BY <1>1 DEF Occupied, PoolInv, TypeOK
  <2>5. Cardinality(Occupied') = Cardinality(Occupied) + 1
    BY <2>4, SlotsFinite, FS_AddElement
  <2>6. CounterTracksReservations'
    BY <2>1, <2>3, <2>5, SlotsFinite DEF PoolInv, CountInv, CounterTracksReservations
  <2>7. ASSUME NEW k \in Slot
        PROVE  Cardinality(PlacersFrom(k)') <= Cardinality(FreeFrom(k)')
    <3>1. /\ IsFiniteSet(PlacersFrom(k)) /\ Cardinality(PlacersFrom(k)) \in Nat
          /\ IsFiniteSet(FreeFrom(k)) /\ Cardinality(FreeFrom(k)) \in Nat
          /\ Cardinality(PlacersFrom(k)) <= Cardinality(FreeFrom(k))
      BY <1>0, <2>1, SlotsFinite, PlacersFinite
         DEF PoolInv, CountInv, EveryPlacerHasASlotAhead
    <3>2. PlacersFrom(k)' = PlacersFrom(k) \ {i}
      BY DEF PlacersFrom, Placers, PoolInv, TypeOK
    <3>3. FreeFrom(k)' = FreeFrom(k) \ {p}
      <4>1. \A s \in Slot : (intents'[s] = {}) <=> (intents[s] = {} /\ s # p)
        BY <1>1 DEF PoolInv, TypeOK
      <4>2. \A s \in k .. MaxSize - 1 : s \in Slot
        BY PoolAssumption DEF Slot
      <4> QED BY <4>1, <4>2 DEF FreeFrom
    <3>4. CASE k <= p
      <4>1. i \in PlacersFrom(k) /\ p \in FreeFrom(k)
        BY <1>0, <1>1, <3>4, PoolAssumption DEF PlacersFrom, FreeFrom, Slot
      <4>2. Cardinality(PlacersFrom(k) \ {i}) = Cardinality(PlacersFrom(k)) - 1
        BY <3>1, <4>1, FS_RemoveElement
      <4>3. Cardinality(FreeFrom(k) \ {p}) = Cardinality(FreeFrom(k)) - 1
        BY <3>1, <4>1, FS_RemoveElement
      <4> QED BY <3>1, <3>2, <3>3, <4>2, <4>3
    <3>5. CASE ~(k <= p)
      <4>1. i \notin PlacersFrom(k) /\ p \notin FreeFrom(k)
        BY <1>0, <1>1, <3>5, PoolAssumption DEF PlacersFrom, FreeFrom, Slot
      <4>2. PlacersFrom(k) \ {i} = PlacersFrom(k) /\ FreeFrom(k) \ {p} = FreeFrom(k)
        BY <4>1
      <4> QED BY <3>1, <3>2, <3>3, <4>2
    <3> QED BY <3>4, <3>5
  <2> QED BY <2>3, <2>6, <2>7 DEF CountInv, EveryPlacerHasASlotAhead, Slot
<1> QED BY <1>2, <1>3, <1>7, <1>8, <1>9 DEF PoolInv, CallInv, OwnInv, SearchedInv

\* A placer that skips an occupied slot: the slot was not counted as free, so
\* the count it moves into is covered by the one it comes from.  From the last
\* slot there is nowhere to go, and no need to.
LEMMA PlaceNextInv ==
    ASSUME PoolInv, NEW i \in Intent, PlaceNext(i)
    PROVE  PoolInv'
<1> USE DEF PlaceNext, slotVars
<1> DEFINE p == pos[i]
<1>0. 0 \in Slot /\ \A s \in Slot : s \in Int /\ 0 <= s /\ s < MaxSize
  BY PoolAssumption DEF Slot
<1>1. p \in Slot /\ i \in PlacersFrom(p) /\ intents[p] # {}
  BY <1>0 DEF PoolInv, TypeOK, PlacersFrom, Placers
<1>2. /\ IsFiniteSet(Placers)
      /\ \A k \in Slot : /\ IsFiniteSet(PlacersFrom(k)) /\ Cardinality(PlacersFrom(k)) \in Nat
                          /\ IsFiniteSet(FreeFrom(k)) /\ Cardinality(FreeFrom(k)) \in Nat
                          /\ Cardinality(PlacersFrom(k)) <= Cardinality(FreeFrom(k))
  BY <1>0, SlotsFinite, PlacersFinite DEF PoolInv, CountInv, EveryPlacerHasASlotAhead
<1>3. p + 1 < MaxSize
  <2> SUFFICES ASSUME ~(p + 1 < MaxSize) PROVE FALSE
    OBVIOUS
  <2>1. FreeFrom(p) = {}
    BY <1>0, <1>1, PoolAssumption DEF FreeFrom, Slot
  <2>2. Cardinality(PlacersFrom(p)) = 0
    BY <1>1, <1>2, <2>1, FS_EmptySet
  <2> QED BY <1>1, <1>2, <2>2, FS_EmptySet
<1>4. p + 1 \in Slot
  BY <1>1, <1>3, PoolAssumption DEF Slot
<1>5. pos' = [pos EXCEPT ![i] = p + 1] /\ UNCHANGED <<pc, want>>
  BY <1>3 DEF Advance
<1>6. TypeOK'
  BY <1>4, <1>5 DEF PoolInv, TypeOK
<1>7. Named'
  BY DEF PoolInv, Named
<1>8. CallInv' /\ OwnInv' /\ SearchedInv'
  BY <1>5 DEF PoolInv, CallInv, CallOK, OwnInv, OwnOK, SearchedInv, SearchedOK, Holds, TypeOK
<1>9. CountInv'
  <2>1. Placers' = Placers /\ Occupied' = Occupied
    BY <1>5 DEF Placers, Occupied
  <2>2. ASSUME NEW k \in Slot
        PROVE  Cardinality(PlacersFrom(k)') <= Cardinality(FreeFrom(k)')
    <3>1. FreeFrom(k)' = FreeFrom(k)
      BY DEF FreeFrom
    <3>2. CASE k = p + 1
      <4>1. PlacersFrom(k)' \in SUBSET PlacersFrom(p)
        <5>1. \A j \in Placers : pos[j] \in Int /\ (j # i => pos'[j] = pos[j])
          BY <1>0, <1>5 DEF PoolInv, TypeOK, Placers
        <5>2. \A j \in Placers : j # i /\ pos[j] >= p + 1 => pos[j] >= p
          BY <1>0, <1>1, <5>1
        <5> QED BY <1>1, <2>1, <3>2, <5>1, <5>2 DEF PlacersFrom
      <4>2. Cardinality(PlacersFrom(k)') <= Cardinality(PlacersFrom(p))
        BY <1>1, <1>2, <4>1, FS_Subset
      <4>3. Cardinality(PlacersFrom(k)') \in Nat
        BY <1>1, <1>2, <4>1, FS_Subset, FS_CardinalityType
      <4>4. FreeFrom(p) = FreeFrom(k)
        BY <1>0, <1>1, <3>2, PoolAssumption DEF FreeFrom
      <4> QED BY <1>1, <1>2, <3>1, <4>2, <4>3, <4>4
    <3>3. CASE k # p + 1
      <4>1. PlacersFrom(k)' = PlacersFrom(k)
        BY <1>0, <1>1, <1>5, <2>1, <3>3 DEF PlacersFrom, PoolInv, TypeOK, Placers
      <4> QED BY <1>2, <3>1, <4>1
    <3> QED BY <3>2, <3>3
  <2> QED BY <1>2, <2>1, <2>2
          DEF PoolInv, CountInv, CounterTracksReservations, EveryPlacerHasASlotAhead, Slot
<1> QED BY <1>6, <1>7, <1>8, <1>9 DEF PoolInv

\* The scan for an allocation that exists stops at the number of its intent,
\* the lowest slot that holds it.
LEMMA GetFoundInv ==
    ASSUME PoolInv, NEW i \in Intent, GetFound(i)
    PROVE  PoolInv' /\ number'[i] = number[i]
<1> USE DEF GetFound, Return, GoTo, slotVars
<1>0. 0 \in Slot /\ \A s \in Slot : s \in Int /\ 0 <= s
  BY PoolAssumption DEF Slot
<1>1. pos[i] \in Slot /\ held[i] # NoCollection /\ want[i] = held[i]
  BY DEF PoolInv, TypeOK, CallInv, CallOK
<1>2. pos[i] = number[i]
  BY <1>0, <1>1 DEF PoolInv, OwnInv, OwnOK
<1>3. /\ number' = number /\ held' = held /\ pc'[i] = "idle"
      /\ \A j \in Intent : j # i => pc'[j] = pc[j] /\ pos'[j] = pos[j] /\ want'[j] = want[j]
  BY <1>2 DEF PoolInv, TypeOK
<1>4. TypeOK'
  BY <1>0, <1>3 DEF PoolInv, TypeOK
<1>5. Named'
  BY DEF PoolInv, Named
<1>6. CallInv'
  BY <1>3 DEF PoolInv, CallInv, CallOK
<1>7. OwnInv'
  BY <1>3 DEF PoolInv, OwnInv, OwnOK, Holds
<1>8. SearchedInv'
  BY <1>3 DEF PoolInv, SearchedInv, SearchedOK, Holds
<1>9. CountInv'
  BY <1>3, CountKept DEF PoolInv
<1> QED BY <1>3, <1>4, <1>5, <1>6, <1>7, <1>8, <1>9 DEF PoolInv

\* A scan that visits another slot than its intent's number is still before it.
LEMMA ScanStaysBefore ==
    ASSUME PoolInv, NEW i \in Intent, pc[i] \in {"get", "free"},
           ~Holds(i, pos[i], want[i])
    PROVE  /\ number[i] \in Slot /\ pos[i] + 1 <= number[i]
           /\ pos[i] + 1 \in Slot /\ pos[i] + 1 < MaxSize
<1>1. pos[i] \in Slot /\ held[i] # NoCollection /\ want[i] = held[i]
  BY DEF PoolInv, TypeOK, CallInv, CallOK
<1>2. number[i] \in Slot /\ pos[i] <= number[i] /\ pos[i] # number[i]
  BY <1>1 DEF PoolInv, OwnInv, OwnOK
<1> QED BY <1>1, <1>2, PoolAssumption DEF Slot

LEMMA ScanNextInv ==
    ASSUME PoolInv, NEW i \in Intent, GetNext(i) \/ FreeNext(i)
    PROVE  PoolInv'
<1> USE DEF GetNext, FreeNext, slotVars
<1>1. /\ number[i] \in Slot /\ pos[i] + 1 <= number[i]
      /\ pos[i] + 1 \in Slot /\ pos[i] + 1 < MaxSize
  BY ScanStaysBefore
<1>2. pos' = [pos EXCEPT ![i] = @ + 1] /\ UNCHANGED <<pc, want, held, number, slotVars>>
  BY <1>1 DEF Advance
<1>3. TypeOK'
  BY <1>1, <1>2 DEF PoolInv, TypeOK
<1>4. Named' /\ CallInv'
  BY <1>2 DEF PoolInv, Named, CallInv, CallOK
<1>5. \A j \in Intent : pos'[j] = IF j = i THEN pos[i] + 1 ELSE pos[j]
  BY <1>2 DEF PoolInv, TypeOK
<1>6. OwnInv'
  BY <1>1, <1>2, <1>5 DEF PoolInv, OwnInv, OwnOK, Holds
<1>7. SearchedInv'
  BY <1>2, <1>5 DEF PoolInv, SearchedInv, SearchedOK, Holds
<1>8. CountInv'
  BY <1>2, <1>5, CountKept DEF PoolInv
<1> QED BY <1>3, <1>4, <1>6, <1>7, <1>8 DEF PoolInv

LEMMA FreeFoundInv ==
    ASSUME PoolInv, NEW i \in Intent, FreeFound(i)
    PROVE  PoolInv'
<1> USE DEF FreeFound, Return, GoTo
<1> DEFINE p == pos[i]
<1>0. 0 \in Slot /\ \A s \in Slot : s \in Int /\ 0 <= s
  BY PoolAssumption DEF Slot
<1>1. p \in Slot /\ i \in intents[p] /\ want[i] # NoCollection
  BY DEF PoolInv, TypeOK, CallInv, CallOK, Holds
<1>2. held'[i] = NoCollection /\ pc'[i] = "idle"
  BY DEF PoolInv, TypeOK
<1>3. CallOK(i)' /\ OwnOK(i)' /\ SearchedOK(i)'
  BY <1>2 DEF CallOK, OwnOK, SearchedOK
<1>4. Named'
  BY <1>1 DEF PoolInv, Named, TypeOK
<1>5. ASSUME NEW j \in Intent, j # i
      PROVE  CallOK(j)' /\ OwnOK(j)' /\ SearchedOK(j)'
  <2>1. /\ pc'[j] = pc[j] /\ pos'[j] = pos[j] /\ want'[j] = want[j]
        /\ held'[j] = held[j] /\ number'[j] = number[j]
    BY <1>5 DEF PoolInv, TypeOK
  <2>2. \A s \in Slot : \A c \in CollectionId \cup {NoCollection} :
            (j \in intents'[s] /\ collectionId'[s] = c) <=> Holds(j, s, c)
    BY <1>1, <1>5 DEF Holds, PoolInv, TypeOK
  <2> QED BY <2>1, <2>2, BystanderKept
<1>6. \A j \in Intent : /\ (pc'[j] = "place") <=> (pc[j] = "place")
                        /\ pc[j] = "place" => pos'[j] = pos[j]
  BY DEF PoolInv, TypeOK
<1>7. CASE intents[p] = {i}
  <2>1. allocCounter' = allocCounter - 1
    BY <1>7
  <2>2. IsFiniteSet(Placers) /\ Cardinality(Placers) \in Nat /\ Placers' = Placers
    BY <1>6, PlacersFinite DEF PoolInv, CountInv, Placers
  <2>3. p \in Occupied /\ Occupied' = Occupied \ {p}
    BY <1>1, <1>7 DEF Occupied, PoolInv, TypeOK
  <2>4. Cardinality(Occupied') = Cardinality(Occupied) - 1 /\ Cardinality(Occupied') \in Nat
    BY <2>3, SlotsFinite, FS_RemoveElement, FS_CardinalityType
  <2>5. CounterTracksReservations'
    BY <2>1, <2>2, <2>4, SlotsFinite DEF PoolInv, CountInv, CounterTracksReservations
  <2>6. allocCounter' \in 0 .. MaxSize
    BY <2>1, <2>2, <2>4, <2>5, PoolAssumption DEF PoolInv, TypeOK, CounterTracksReservations
  <2>7. TypeOK'
    BY <1>0, <1>1, <2>6 DEF PoolInv, TypeOK
  <2>8. ASSUME NEW k \in Slot
        PROVE  Cardinality(PlacersFrom(k)') <= Cardinality(FreeFrom(k)')
    <3>1. PlacersFrom(k)' = PlacersFrom(k)
      BY <1>6, <2>2 DEF PlacersFrom, Placers
    <3>2. \A s \in k .. MaxSize - 1 : s \in Slot
      BY PoolAssumption DEF Slot
    <3>3. FreeFrom(k) \in SUBSET (FreeFrom(k)') /\ FreeFrom(k)' \in SUBSET Slot
      BY <1>1, <1>7, <3>2 DEF FreeFrom, PoolInv, TypeOK
    <3>4. IsFiniteSet(FreeFrom(k)') /\ Cardinality(FreeFrom(k)') \in Nat
      BY <3>3, SlotsFinite, FS_Subset, FS_CardinalityType
    <3>5. Cardinality(FreeFrom(k)) <= Cardinality(FreeFrom(k)')
      BY <3>3, <3>4, FS_Subset
    <3>6. /\ Cardinality(PlacersFrom(k)) <= Cardinality(FreeFrom(k))
          /\ Cardinality(PlacersFrom(k)) \in Nat /\ Cardinality(FreeFrom(k)) \in Nat
      BY <1>0, <2>2, SlotsFinite, PlacersFinite DEF PoolInv, CountInv, EveryPlacerHasASlotAhead
    <3> QED BY <3>1, <3>4, <3>5, <3>6
  <2>9. CountInv'
    BY <2>2, <2>5, <2>8 DEF CountInv, EveryPlacerHasASlotAhead, Slot
  <2> QED BY <1>3, <1>4, <1>5, <2>7, <2>9 DEF PoolInv, CallInv, OwnInv, SearchedInv
<1>8. CASE intents[p] # {i}
  <2>1. TypeOK'
    BY <1>0, <1>1, <1>8 DEF PoolInv, TypeOK
  <2>2. \A s \in Slot : (intents'[s] = {}) <=> (intents[s] = {})
    BY <1>1, <1>8 DEF PoolInv, TypeOK
  <2>3. CountInv'
    BY <1>6, <1>8, <2>2, CountKept DEF PoolInv
  <2> QED BY <1>3, <1>4, <1>5, <2>1, <2>3 DEF PoolInv, CallInv, OwnInv, SearchedInv
<1> QED BY <1>7, <1>8
-----------------------------------------------------------------------------
(* The theorems. *)

LEMMA StepInv ==
    ASSUME PoolInv, [Next]_vars
    PROVE  PoolInv'
<1>1. CASE UNCHANGED vars
  <2> USE <1>1 DEF vars
  <2>1. TypeOK' /\ Named'
    BY DEF PoolInv, TypeOK, Named
  <2>2. CallInv' /\ OwnInv' /\ SearchedInv'
    BY DEF PoolInv, CallInv, CallOK, OwnInv, OwnOK, SearchedInv, SearchedOK, Holds
  <2>3. CountInv'
    BY CountKept DEF PoolInv
  <2> QED BY <2>1, <2>2, <2>3 DEF PoolInv
<1>2. ASSUME NEW i \in Intent, NEW c \in CollectionId, BeginAllocOrGet(i, c)
      PROVE  PoolInv'
  BY <1>2, BeginInv
<1>3. ASSUME NEW i \in Intent, BeginGetIfAllocated(i) \/ BeginFree(i)
      PROVE  PoolInv'
  <2>1. held[i] \in CollectionId
    BY <1>3 DEF BeginGetIfAllocated, BeginFree, PoolInv, TypeOK
  <2> QED BY <1>3, <2>1, BeginInv
<1>4. ASSUME NEW i \in Intent, AllocOrGetStep(i)
      PROVE  PoolInv'
  BY <1>4, JoinInv, SearchNextInv, ReserveInv, RefuseInv, PlaceInv, PlaceNextInv DEF AllocOrGetStep
<1>5. ASSUME NEW i \in Intent, GetStep(i) \/ FreeStep(i)
      PROVE  PoolInv'
  BY <1>5, GetFoundInv, ScanNextInv, FreeFoundInv DEF GetStep, FreeStep
<1> QED BY <1>1, <1>2, <1>3, <1>4, <1>5 DEF Next, Step

\* The inductive invariant holds in every reachable state.
THEOREM PoolInvariance == Spec => []PoolInv
BY InitInv, StepInv, PTL DEF Spec

\* Every variable keeps its type; in particular the counter is never negative
\* and never exceeds the number of slots.
THEOREM PoolTypeCorrect == Spec => []TypeOK
<1>1. PoolInv => TypeOK
  BY DEF PoolInv
<1> QED BY <1>1, PoolInvariance, PTL

\* The counter AllocOrGet decides by is exact (pool.go:54-62 and 111-116).
THEOREM CounterIsExact == Spec => []CounterTracksReservations
<1>1. PoolInv => CounterTracksReservations
  BY DEF PoolInv, CountInv
<1> QED BY <1>1, PoolInvariance, PTL

\* The panic at the end of AllocOrGet (pool.go:73) is unreachable, with any
\* number of concurrent callers.
THEOREM AllocOrGetNeverPanics == Spec => []NeverPanics
<1>1. PoolInv => NeverPanics
  BY DEF PoolInv, CallInv, CallOK, NeverPanics
<1> QED BY <1>1, PoolInvariance, PTL

\* The panic "should be allocated" of DisableTelemetry (service.go:203) is
\* unreachable: a configured intent finds its allocation.
THEOREM ConfiguredIntentFindsItsAllocation == Spec => []OwnerFindsItsAllocation
<1>1. PoolInv => OwnerFindsItsAllocation
  BY DEF PoolInv, CallInv, CallOK, OwnerFindsItsAllocation
<1> QED BY <1>1, PoolInvariance, PTL

\* The number an intent was given keeps standing for its collection id until
\* the intent frees it.
THEOREM NumbersAreHeld == Spec => []NumberIsHeld
<1>1. PoolInv => NumberIsHeld
  BY DEF PoolInv, OwnInv, OwnOK, NumberIsHeld
<1> QED BY <1>1, PoolInvariance, PTL

\* Disabling an intent looks up the number its entries were configured with.
THEOREM DisableFindsTheConfiguredNumber == Spec => DisableUsesTheConfiguredNumber
<1>1. PoolInv => \A i \in Intent : GetFound(i) => number'[i] = number[i]
  BY GetFoundInv
<1>2. PoolInv => [\A i \in Intent : GetFound(i) => number'[i] = number[i]]_vars
  BY <1>1
<1> QED BY <1>2, PoolInvariance, PTL DEF DisableUsesTheConfiguredNumber
-----------------------------------------------------------------------------
(* Collection ids of one intent. *)

\* Whatever an intent wants, holds or occupies is a collection id it uses.
UsesOK ==
    \A i \in Intent :
        /\ held[i] # NoCollection => <<i, held[i]>> \in Uses
        /\ want[i] # NoCollection => <<i, want[i]>> \in Uses

PrivateInv == PoolInv /\ UsesOK /\ NothingLeftBehind /\ OneNumberPerCollection

LEMMA UsesStep ==
    ASSUME PoolInv, UsesOK, [Next]_vars
    PROVE  UsesOK'
<1>1. CASE UNCHANGED vars
  BY <1>1 DEF vars, UsesOK
<1>2. ASSUME NEW i \in Intent, NEW c \in CollectionId, BeginAllocOrGet(i, c)
      PROVE  UsesOK'
  BY <1>2 DEF BeginAllocOrGet, Begin, UsesOK, PoolInv, TypeOK
<1>3. ASSUME NEW i \in Intent, BeginGetIfAllocated(i) \/ BeginFree(i)
      PROVE  UsesOK'
  BY <1>3 DEF BeginGetIfAllocated, BeginFree, Begin, UsesOK, PoolInv, TypeOK
<1>4. ASSUME NEW i \in Intent, Join(i) \/ Place(i) \/ GetFound(i) \/ FreeFound(i)
      PROVE  UsesOK'
  BY <1>4 DEF Join, Place, GetFound, FreeFound, Return, GoTo, UsesOK, PoolInv, TypeOK
<1>5. ASSUME NEW i \in Intent,
             SearchNext(i) \/ PlaceNext(i) \/ GetNext(i) \/ FreeNext(i) \/ Reserve(i) \/ Refuse(i)
      PROVE  UsesOK'
  <2>1. \A j \in Intent : /\ want'[j] \in {want[j], NoCollection}
                          /\ held'[j] \in {held[j], NoCollection}
    BY <1>5 DEF SearchNext, PlaceNext, GetNext, FreeNext, Reserve, Refuse, Advance, GoTo,
                PoolInv, TypeOK
  <2> QED BY <2>1 DEF UsesOK
<1> QED BY <1>1, <1>2, <1>3, <1>4, <1>5 DEF Next, Step, AllocOrGetStep, GetStep, FreeStep

LEMMA PrivateStep ==
    ASSUME PrivateInv, [Next]_vars
    PROVE  PrivateInv'
<1>1. PoolInv' /\ UsesOK'
  BY StepInv, UsesStep DEF PrivateInv
<1> USE DEF PrivateInv, NothingLeftBehind, OneNumberPerCollection
<1>2. CASE UNCHANGED <<collectionId, intents, held>>
  BY <1>1, <1>2
<1>3. ASSUME NEW i \in Intent, Place(i)
      PROVE  PrivateInv'
  <2> DEFINE p == pos[i]
  <2>1. /\ p \in Slot /\ intents[p] = {} /\ held[i] = NoCollection
        /\ want[i] \in CollectionId /\ want[i] # NoCollection /\ <<i, want[i]>> \in Uses
    BY <1>3, PoolAssumption DEF Place, PoolInv, TypeOK, CallInv, CallOK, UsesOK
  <2>2. ASSUME NEW s \in Slot, collectionId[s] = want[i], IsPrivate(want[i])
        PROVE  FALSE
    <3>1. PICK j \in intents[s] : held[j] = collectionId[s] /\ j \in Intent
      BY <2>1, <2>2 DEF PoolInv, TypeOK, Named
    <3>2. <<j, want[i]>> \in Uses
      BY <2>1, <2>2, <3>1 DEF UsesOK
    <3> QED BY <2>1, <2>2, <3>1, <3>2 DEF IsPrivate
  <2>3. \A s \in Slot : IsPrivate(collectionId[s]) => i \notin intents[s]
    BY <2>1 DEF PoolInv, TypeOK, Named
  <2>4. /\ \A s \in Slot : intents'[s] = IF s = p THEN {i} ELSE intents[s]
        /\ \A s \in Slot : collectionId'[s] = IF s = p THEN want[i] ELSE collectionId[s]
        /\ \A j \in Intent : held'[j] = IF j = i THEN want[i] ELSE held[j]
    BY <1>3, <2>1 DEF Place, Return, PoolInv, TypeOK
  <2>5. NothingLeftBehind'
    BY <2>1, <2>3, <2>4 DEF PoolInv, TypeOK
  <2>6. OneNumberPerCollection'
    BY <2>1, <2>2, <2>4
  <2> QED BY <1>1, <2>5, <2>6
<1>4. ASSUME NEW i \in Intent, Join(i)
      PROVE  PrivateInv'
  <2> DEFINE p == pos[i]
  <2>1. /\ p \in Slot /\ collectionId[p] = want[i] /\ want[i] # NoCollection
        /\ <<i, want[i]>> \in Uses /\ want[i] \in CollectionId
        /\ held[i] \in {NoCollection, want[i]}
    BY <1>4, PoolAssumption DEF Join, PoolInv, TypeOK, CallInv, CallOK, UsesOK
  <2>2. CASE IsPrivate(want[i])
    <3>1. PICK j \in intents[p] : held[j] = collectionId[p] /\ j \in Intent
      BY <2>1, <2>2 DEF PoolInv, TypeOK, Named
    <3>2. j = i
      BY <2>1, <2>2, <3>1 DEF IsPrivate, UsesOK
    <3>3. UNCHANGED <<collectionId, intents, held>>
      BY <1>4, <2>1, <3>1, <3>2 DEF Join, Return, PoolInv, TypeOK
    <3> QED BY <1>2, <3>3
  <2>3. CASE ~IsPrivate(want[i])
    <3>1. /\ UNCHANGED collectionId
          /\ \A s \in Slot : s # p => intents'[s] = intents[s]
          /\ \A j \in Intent : j # i => held'[j] = held[j]
      BY <1>4 DEF Join, Return, PoolInv, TypeOK
    <3>2. OneNumberPerCollection'
      BY <3>1
    <3>3. ASSUME NEW s \in Slot, IsPrivate(collectionId'[s]), NEW j \in intents'[s]
          PROVE  held'[j] = collectionId'[s]
      <4>1. s # p /\ IsPrivate(collectionId[s])
        BY <2>1, <2>3, <3>1, <3>3
      <4>2. j \in intents[s] /\ j \in Intent /\ held[j] = collectionId[s]
        BY <3>1, <3>3, <4>1 DEF PoolInv, TypeOK
      <4>3. j # i
        BY <2>1, <2>3, <4>1, <4>2 DEF PoolInv, Named
      <4> QED BY <3>1, <4>2, <4>3
    <3>4. NothingLeftBehind'
      BY <3>3 DEF Slot
    <3> QED BY <1>1, <3>2, <3>4
  <2> QED BY <2>2, <2>3
<1>5. ASSUME NEW i \in Intent, FreeFound(i)
      PROVE  PrivateInv'
  <2> DEFINE p == pos[i]
  <2>1. /\ p \in Slot /\ i \in intents[p] /\ collectionId[p] = held[i] /\ held[i] # NoCollection
    BY <1>5 DEF FreeFound, Holds, PoolInv, TypeOK, CallInv, CallOK
  <2>2. \A s \in Slot : s # p /\ IsPrivate(collectionId[s]) => i \notin intents[s]
    BY <2>1
  <2>3. /\ \A s \in Slot : intents'[s] = IF s = p THEN intents[s] \ {i} ELSE intents[s]
        /\ \A s \in Slot : collectionId'[s] =
              IF s = p /\ intents[s] = {i} THEN NoCollection ELSE collectionId[s]
        /\ \A j \in Intent : held'[j] = IF j = i THEN NoCollection ELSE held[j]
    BY <1>5, <2>1 DEF FreeFound, Return, PoolInv, TypeOK
  <2>4. ASSUME NEW s \in Slot, IsPrivate(collectionId'[s]), NEW j \in intents'[s]
        PROVE  held'[j] = collectionId'[s]
    <3>1. j \in intents[s] /\ intents[s] \in SUBSET Intent /\ intents[s] # {i}
      <4>1. intents'[s] = IF s = p THEN intents[s] \ {i} ELSE intents[s]
        BY <2>3
      <4>2. s # p => intents[s] # {i}
        BY <2>1, <2>2, <2>3, <2>4
      <4>3. intents[s] \in SUBSET Intent
        BY DEF PoolInv, TypeOK
      <4> QED BY <2>4, <4>1, <4>2, <4>3
    <3>2. collectionId'[s] = collectionId[s]
      BY <2>3, <3>1
    <3>3. j # i
      BY <2>2, <2>3, <2>4, <3>2
    <3> QED BY <2>3, <2>4, <3>1, <3>2, <3>3
  <2>5. OneNumberPerCollection'
    BY <2>1, <2>3
  <2>6. NothingLeftBehind'
    BY <2>4 DEF Slot
  <2> QED BY <1>1, <2>5, <2>6
<1>6. ASSUME NEW i \in Intent, GetFound(i)
      PROVE  PrivateInv'
  <2>1. UNCHANGED <<collectionId, intents, held>>
    BY <1>6 DEF GetFound, Return, slotVars, PoolInv, TypeOK
  <2> QED BY <1>2, <2>1
<1>7. ASSUME NEW i \in Intent, FreeNext(i)
      PROVE  PrivateInv'
  <2>1. pos[i] + 1 < MaxSize
    BY <1>7, ScanStaysBefore DEF FreeNext
  <2>2. UNCHANGED <<collectionId, intents, held>>
    BY <1>7, <2>1 DEF FreeNext, slotVars
  <2> QED BY <1>2, <2>2
<1>8. ASSUME NEW i \in Intent,
             \/ \E c \in CollectionId : BeginAllocOrGet(i, c)
             \/ BeginGetIfAllocated(i) \/ BeginFree(i)
             \/ SearchNext(i) \/ PlaceNext(i) \/ GetNext(i) \/ Reserve(i) \/ Refuse(i)
      PROVE  PrivateInv'
  <2>1. UNCHANGED <<collectionId, intents, held>>
    BY <1>8 DEF BeginAllocOrGet, BeginGetIfAllocated, BeginFree, SearchNext, PlaceNext, GetNext,
                Reserve, Refuse, slotVars
  <2> QED BY <1>2, <2>1
<1> QED
  BY <1>2, <1>3, <1>4, <1>5, <1>6, <1>7, <1>8
     DEF Next, Step, AllocOrGetStep, GetStep, FreeStep, vars

\* A collection id that one intent is configured with has one number, and Free
\* leaves nothing of it behind (pool.go:39-41), whatever the other intents share
\* and race for.
THEOREM PrivateCollectionsAreExact == Spec => [](OneNumberPerCollection /\ NothingLeftBehind)
<1>1. Init => PrivateInv
  <2>1. Init => UsesOK /\ NothingLeftBehind /\ OneNumberPerCollection
    BY DEF Init, UsesOK, NothingLeftBehind, OneNumberPerCollection
  <2> QED BY <2>1, InitInv DEF PrivateInv
<1>2. PrivateInv /\ [Next]_vars => PrivateInv'
  BY PrivateStep
<1>3. PrivateInv => OneNumberPerCollection /\ NothingLeftBehind
  BY DEF PrivateInv
<1> QED BY <1>1, <1>2, <1>3, PTL DEF Spec
=============================================================================
