----------------------- MODULE TelemetryService_proofs -----------------------
(***************************************************************************)
(* Proofs about StateCounter, for every set of entries and tables, every   *)
(* kind of failure and any number of failing calls; about TelemetryService,*)
(* which writes its entries through it, for every topology, every set of   *)
(* intents and requests, every pool, and whatever device calls fail: the   *)
(* control of its goroutines and their allocations depend on nothing else; *)
(* and, after the sums they need, about the counts the service keeps, the  *)
(* headers the switches strip and the flows they measure, which do depend  *)
(* on the requests and on what fails.                                      *)
(***************************************************************************)
EXTENDS TelemetryService, FiniteSetTheorems, WellFoundedInduction, TLAPS

(***************************************************************************)
(* The counters                                                            *)
(***************************************************************************)

\* The inductive invariant: besides the property, that a table's number is the
\* size of a finite set or more, which keeps it from going below zero.
CounterInv ==
    /\ counter \in [Entry -> Nat]
    /\ numEntries \in [Table -> Int]
    /\ installed \subseteq Entry
    /\ IsFiniteSet(installed)
    /\ failures \in 0 .. MaxFailures
    /\ CapacityIsNeverOverstated

LEMMA CounterInvInit == CounterInit => CounterInv
<1> SUFFICES ASSUME CounterInit PROVE CounterInv
  OBVIOUS
<1> USE DEF CounterInit
<1>1. IsFiniteSet(installed)
  BY FS_EmptySet
<1>2. CapacityIsNeverOverstated
  <2>1. \A t \in Table : HeldBy(t) = {}
    BY DEF HeldBy
  <2> QED
    BY <2>1, FS_EmptySet DEF CapacityIsNeverOverstated
<1> QED
  BY <1>1, <1>2, CounterAssumption DEF CounterInv

LEMMA HeldByIsFinite ==
  ASSUME CounterInv, NEW t \in Table
  PROVE  IsFiniteSet(HeldBy(t)) /\ Cardinality(HeldBy(t)) \in Nat
<1>1. HeldBy(t) \subseteq installed
  BY DEF HeldBy
<1> QED
  BY <1>1, FS_Subset, FS_CardinalityType DEF CounterInv

\* A step on e that installs at most e, where numEntries grows by one.
LEMMA WritingIsCounted ==
  ASSUME CounterInv, NEW e \in Entry, NEW ok \in BOOLEAN, WriteEntry(e, ok),
         numEntries' = [numEntries EXCEPT ![TableOf[e]] = @ + 1]
  PROVE  /\ installed' \subseteq Entry
         /\ IsFiniteSet(installed')
         /\ failures' \in 0 .. MaxFailures
         /\ numEntries' \in [Table -> Int]
         /\ CapacityIsNeverOverstated'
<1> USE CounterAssumption
<1>1. installed' = installed \/ installed' = installed \cup {e}
  BY DEF WriteEntry, Fails
<1>2. failures' \in 0 .. MaxFailures
  BY DEF WriteEntry, Fails, CounterInv
<1>3. installed' \subseteq Entry /\ IsFiniteSet(installed')
  BY <1>1, FS_AddElement DEF CounterInv
<1>4. numEntries' \in [Table -> Int]
  BY DEF CounterInv
<1>5. ASSUME NEW t \in Table
      PROVE  Cardinality(HeldBy(t)') <= numEntries'[t]
  <2>1. Cardinality(HeldBy(t)) <= numEntries[t] /\ numEntries[t] \in Int
    BY DEF CounterInv, CapacityIsNeverOverstated
  <2>2. IsFiniteSet(HeldBy(t)) /\ Cardinality(HeldBy(t)) \in Nat
    BY HeldByIsFinite
  <2>3. CASE t = TableOf[e]
    <3>1. numEntries'[t] = numEntries[t] + 1
      BY <2>3 DEF CounterInv
    <3>2. HeldBy(t)' = HeldBy(t) \/ HeldBy(t)' = HeldBy(t) \cup {e}
      BY <1>1, <2>3 DEF HeldBy
    <3>3. \/ Cardinality(HeldBy(t)') = Cardinality(HeldBy(t))
          \/ Cardinality(HeldBy(t)') = Cardinality(HeldBy(t)) + 1
      BY <2>2, <3>2, FS_AddElement
    <3> QED
      BY <2>1, <2>2, <3>1, <3>3
  <2>4. CASE t # TableOf[e]
    <3>1. HeldBy(t)' = HeldBy(t)
      BY <1>1, <2>4 DEF HeldBy
    <3>2. numEntries'[t] = numEntries[t]
      BY <2>4 DEF CounterInv
    <3> QED
      BY <2>1, <3>1, <3>2
  <2> QED
    BY <2>3, <2>4
<1> QED
  BY <1>2, <1>3, <1>4, <1>5 DEF CapacityIsNeverOverstated

\* A step on e that removes at most e, and removes it where numEntries shrinks.
LEMMA DeletingIsCounted ==
  ASSUME CounterInv, NEW e \in Entry, NEW ok \in BOOLEAN, DeleteEntry(e, ok),
         numEntries' = IF ok THEN [numEntries EXCEPT ![TableOf[e]] = @ - 1] ELSE numEntries
  PROVE  /\ installed' \subseteq Entry
         /\ IsFiniteSet(installed')
         /\ failures' \in 0 .. MaxFailures
         /\ numEntries' \in [Table -> Int]
         /\ CapacityIsNeverOverstated'
<1> USE CounterAssumption
<1>1. installed' = installed \/ installed' = installed \ {e}
  BY DEF DeleteEntry, Fails
<1>2. failures' \in 0 .. MaxFailures
  BY DEF DeleteEntry, Fails, CounterInv
<1>3. installed' \subseteq Entry /\ IsFiniteSet(installed')
  BY <1>1, FS_RemoveElement DEF CounterInv
<1>4. numEntries' \in [Table -> Int]
  BY DEF CounterInv
<1>5. ASSUME NEW t \in Table
      PROVE  Cardinality(HeldBy(t)') <= numEntries'[t]
  <2>1. Cardinality(HeldBy(t)) <= numEntries[t] /\ numEntries[t] \in Int
    BY DEF CounterInv, CapacityIsNeverOverstated
  <2>2. IsFiniteSet(HeldBy(t)) /\ Cardinality(HeldBy(t)) \in Nat
    BY HeldByIsFinite
  <2>3. CASE ok /\ t = TableOf[e]
    <3>1. e \in HeldBy(t) /\ HeldBy(t)' = HeldBy(t) \ {e}
      BY <2>3 DEF HeldBy, DeleteEntry, Fails
    <3>2. Cardinality(HeldBy(t)') = Cardinality(HeldBy(t)) - 1
      BY <2>2, <3>1, FS_RemoveElement
    <3>3. numEntries'[t] = numEntries[t] - 1
      BY <2>3 DEF CounterInv
    <3> QED
      BY <2>1, <2>2, <3>2, <3>3
  <2>4. CASE ~(ok /\ t = TableOf[e])
    <3>1. numEntries'[t] = numEntries[t]
      BY <2>4 DEF CounterInv
    <3>2. HeldBy(t)' = HeldBy(t) \/ HeldBy(t)' = HeldBy(t) \ {e}
      BY <1>1 DEF HeldBy
    <3>3. Cardinality(HeldBy(t)') <= Cardinality(HeldBy(t)) /\ Cardinality(HeldBy(t)') \in Nat
      BY <2>2, <3>2, FS_RemoveElement, FS_Subset, FS_CardinalityType
    <3> QED
      BY <2>1, <2>2, <3>1, <3>3
  <2> QED
    BY <2>3, <2>4
<1> QED
  BY <1>2, <1>3, <1>4, <1>5 DEF CapacityIsNeverOverstated

\* What the two operations leave alone.
LEMMA SharedUseIsCounted ==
  ASSUME CounterInv, UNCHANGED <<numEntries, installed, failures>>,
         counter' \in [Entry -> Nat]
  PROVE  CounterInv'
<1>1. CapacityIsNeverOverstated'
  BY DEF CapacityIsNeverOverstated, HeldBy, CounterInv
<1> QED
  BY <1>1 DEF CounterInv

LEMMA IncrementKeepsInv ==
  ASSUME CounterInv, NEW e \in Entry, NEW ok \in BOOLEAN, Increment(e, ok)
  PROVE  CounterInv'
<1>1. counter' \in [Entry -> Nat]
  BY DEF Increment, CounterInv
<1>2. CASE counter[e] = 0
  <2>1. /\ WriteEntry(e, ok)
        /\ numEntries' = [numEntries EXCEPT ![TableOf[e]] = @ + 1]
    BY <1>2 DEF Increment
  <2> QED
    BY <1>1, <2>1, WritingIsCounted DEF CounterInv
<1>3. CASE counter[e] # 0
  BY <1>1, <1>3, SharedUseIsCounted DEF Increment
<1> QED
  BY <1>2, <1>3

LEMMA DecrementKeepsInv ==
  ASSUME CounterInv, NEW e \in Entry, NEW ok \in BOOLEAN, Decrement(e, ok)
  PROVE  CounterInv'
<1>0. counter[e] \in Nat
  BY DEF CounterInv
<1>1. CASE counter[e] = 0
  <2>1. UNCHANGED <<counter, numEntries, installed, failures>>
    BY <1>1 DEF Decrement
  <2> QED
    BY <2>1, SharedUseIsCounted DEF CounterInv
<1>2. CASE counter[e] = 1
  <2>1. /\ DeleteEntry(e, ok)
        /\ counter' = IF ok THEN [counter EXCEPT ![e] = 0] ELSE counter
        /\ numEntries' = IF ok THEN [numEntries EXCEPT ![TableOf[e]] = @ - 1] ELSE numEntries
    BY <1>2 DEF Decrement
  <2>2. counter' \in [Entry -> Nat]
    BY <2>1 DEF CounterInv
  <2> QED
    BY <2>1, <2>2, DeletingIsCounted DEF CounterInv
<1>3. CASE counter[e] \notin {0, 1}
  <2>1. /\ counter' = [counter EXCEPT ![e] = @ - 1]
        /\ UNCHANGED <<numEntries, installed, failures>>
    BY <1>3 DEF Decrement
  <2>2. counter' \in [Entry -> Nat]
    BY <1>0, <1>3, <2>1 DEF CounterInv
  <2> QED
    BY <2>1, <2>2, SharedUseIsCounted
<1> QED
  BY <1>1, <1>2, <1>3

THEOREM CounterInvariance == CounterSpec => []CounterInv
<1>1. CounterInit => CounterInv
  BY CounterInvInit
<1>2. CounterInv /\ [CounterNext]_counterVars => CounterInv'
  <2> SUFFICES ASSUME CounterInv, [CounterNext]_counterVars PROVE CounterInv'
    OBVIOUS
  <2>1. CASE CounterNext
    BY <2>1, IncrementKeepsInv, DecrementKeepsInv DEF CounterNext
  <2>2. CASE UNCHANGED counterVars
    BY <2>2, SharedUseIsCounted DEF counterVars, CounterInv
  <2> QED
    BY <2>1, <2>2
<1> QED
  BY <1>1, <1>2, PTL DEF CounterSpec

\* However calls fail and are repeated, no table is believed to hold less than
\* it does: the capacity told to clients is never more than the switch has.
THEOREM CapacityTheorem == CounterSpec => []CapacityIsNeverOverstated
<1>1. CounterInv => CapacityIsNeverOverstated
  BY DEF CounterInv
<1> QED
  BY <1>1, CounterInvariance, PTL

\* The types; the number of entries is never negative because it is no less
\* than the size of a set.
THEOREM CounterTypeCorrect == CounterSpec => []CounterTypeOK
<1>1. ASSUME CounterInv PROVE CounterTypeOK
  <2>1. \A t \in Table : numEntries[t] \in Nat
    <3> SUFFICES ASSUME NEW t \in Table PROVE numEntries[t] \in Nat
      OBVIOUS
    <3>1. Cardinality(HeldBy(t)) \in Nat
      BY <1>1, HeldByIsFinite
    <3> QED
      BY <1>1, <3>1 DEF CounterInv, CapacityIsNeverOverstated
  <2> QED
    BY <1>1, <2>1 DEF CounterInv, CounterTypeOK
<1> QED
  BY <1>1, CounterInvariance, PTL
-----------------------------------------------------------------------------
\* Where a failing call has no effect, a device holds exactly what is counted:
\* the lock spans the call and its bookkeeping (counter.go:58-114), and a
\* refused call leaves both sides as they were.
LEMMA RefusedCallsChangeNothing ==
  ASSUME "timeout" \notin FailureKinds, NEW e \in Entry, NEW ok \in BOOLEAN
  PROVE  /\ WriteEntry(e, ok) =>
              installed' = IF ok THEN installed \cup {e} ELSE installed
         /\ DeleteEntry(e, ok) =>
              installed' = IF ok THEN installed \ {e} ELSE installed
BY DEF WriteEntry, DeleteEntry, Fails

THEOREM InstalledIffCountedTheorem ==
  ASSUME "timeout" \notin FailureKinds
  PROVE  CounterSpec => []InstalledIffCounted
<1> DEFINE Inv == counter \in [Entry -> Nat] /\ InstalledIffCounted
<1>1. CounterInit => Inv
  BY DEF CounterInit, InstalledIffCounted
<1>2. Inv /\ [CounterNext]_counterVars => Inv'
  <2> SUFFICES ASSUME Inv, [CounterNext]_counterVars PROVE Inv'
    OBVIOUS
  <2>1. ASSUME NEW e \in Entry, NEW ok \in BOOLEAN, Increment(e, ok)
        PROVE  Inv'
    <3>1. CASE counter[e] = 0
      <4>1. /\ WriteEntry(e, ok)
            /\ counter' = IF ok THEN [counter EXCEPT ![e] = 1] ELSE counter
        BY <2>1, <3>1 DEF Increment
      <4>2. installed' = IF ok THEN installed \cup {e} ELSE installed
        BY <4>1, RefusedCallsChangeNothing
      <4> QED
        BY <4>1, <4>2 DEF InstalledIffCounted
    <3>2. CASE counter[e] # 0
      BY <2>1, <3>2 DEF Increment, InstalledIffCounted
    <3> QED
      BY <3>1, <3>2
  <2>2. ASSUME NEW e \in Entry, NEW ok \in BOOLEAN, Decrement(e, ok)
        PROVE  Inv'
    <3>1. CASE counter[e] = 0
      BY <2>2, <3>1 DEF Decrement, InstalledIffCounted
    <3>2. CASE counter[e] = 1
      <4>1. /\ DeleteEntry(e, ok)
            /\ counter' = IF ok THEN [counter EXCEPT ![e] = 0] ELSE counter
        BY <2>2, <3>2 DEF Decrement
      <4>2. installed' = IF ok THEN installed \ {e} ELSE installed
        BY <4>1, RefusedCallsChangeNothing
      <4> QED
        BY <4>1, <4>2 DEF InstalledIffCounted
    <3>3. CASE counter[e] \notin {0, 1}
      BY <2>2, <3>3 DEF Decrement, InstalledIffCounted
    <3> QED
      BY <3>1, <3>2, <3>3
  <2>3. CASE UNCHANGED counterVars
    BY <2>3 DEF counterVars, InstalledIffCounted
  <2> QED
    BY <2>1, <2>2, <2>3 DEF CounterNext
<1>3. Inv => InstalledIffCounted
  OBVIOUS
<1> QED
  BY <1>1, <1>2, <1>3, PTL DEF CounterSpec
-----------------------------------------------------------------------------
\* Every number a table is believed to hold too many is that of a failed call.
CapacityIsLostByFailuresOnly ==
    \A t \in Table : numEntries[t] <= Cardinality(HeldBy(t)) + failures

\* A write that is refused counts the key, one that is not puts it there.
LEMMA LossOfWriting ==
  ASSUME CounterInv, CapacityIsLostByFailuresOnly, "timeout" \notin FailureKinds,
         NEW e \in Entry, NEW ok \in BOOLEAN, e \notin installed, WriteEntry(e, ok),
         numEntries' = [numEntries EXCEPT ![TableOf[e]] = @ + 1]
  PROVE  CapacityIsLostByFailuresOnly'
<1> SUFFICES ASSUME NEW t \in Table
             PROVE  numEntries'[t] <= Cardinality(HeldBy(t)') + failures'
  BY DEF CapacityIsLostByFailuresOnly
<1>1. /\ numEntries[t] <= Cardinality(HeldBy(t)) + failures
      /\ numEntries[t] \in Int /\ failures \in Nat
  BY CounterAssumption DEF CounterInv, CapacityIsLostByFailuresOnly
<1>2. IsFiniteSet(HeldBy(t)) /\ Cardinality(HeldBy(t)) \in Nat
  BY HeldByIsFinite
<1>3. CASE ok
  <2>1. failures' = failures /\ installed' = installed \cup {e}
    BY <1>3 DEF WriteEntry
  <2>2. CASE t = TableOf[e]
    <3>1. e \notin HeldBy(t) /\ HeldBy(t)' = HeldBy(t) \cup {e}
      BY <2>1, <2>2 DEF HeldBy
    <3>2. Cardinality(HeldBy(t)') = Cardinality(HeldBy(t)) + 1
      BY <1>2, <3>1, FS_AddElement
    <3>3. numEntries'[t] = numEntries[t] + 1
      BY <2>2 DEF CounterInv
    <3> QED
      BY <1>1, <1>2, <2>1, <3>2, <3>3
  <2>3. CASE t # TableOf[e]
    <3>1. HeldBy(t)' = HeldBy(t) /\ numEntries'[t] = numEntries[t]
      BY <2>1, <2>3 DEF HeldBy, CounterInv
    <3> QED
      BY <1>1, <2>1, <3>1
  <2> QED
    BY <2>2, <2>3
<1>4. CASE ~ok
  <2>1. failures' = failures + 1 /\ installed' = installed
    BY <1>4 DEF WriteEntry, Fails
  <2>2. HeldBy(t)' = HeldBy(t) /\ numEntries'[t] <= numEntries[t] + 1 /\ numEntries'[t] \in Int
    BY <1>1, <2>1 DEF HeldBy, CounterInv
  <2> QED
    BY <1>1, <1>2, <2>1, <2>2
<1> QED
  BY <1>3, <1>4

\* A deletion that is refused leaves both sides alone.
LEMMA LossOfDeleting ==
  ASSUME CounterInv, CapacityIsLostByFailuresOnly, "timeout" \notin FailureKinds,
         NEW e \in Entry, NEW ok \in BOOLEAN, e \in installed, DeleteEntry(e, ok),
         numEntries' = IF ok THEN [numEntries EXCEPT ![TableOf[e]] = @ - 1] ELSE numEntries
  PROVE  CapacityIsLostByFailuresOnly'
<1> SUFFICES ASSUME NEW t \in Table
             PROVE  numEntries'[t] <= Cardinality(HeldBy(t)') + failures'
  BY DEF CapacityIsLostByFailuresOnly
<1>1. /\ numEntries[t] <= Cardinality(HeldBy(t)) + failures
      /\ numEntries[t] \in Int /\ failures \in Nat
  BY CounterAssumption DEF CounterInv, CapacityIsLostByFailuresOnly
<1>2. IsFiniteSet(HeldBy(t)) /\ Cardinality(HeldBy(t)) \in Nat
  BY HeldByIsFinite
<1>3. CASE ok /\ t = TableOf[e]
  <2>1. failures' = failures /\ installed' = installed \ {e}
    BY <1>3 DEF DeleteEntry
  <2>2. e \in HeldBy(t) /\ HeldBy(t)' = HeldBy(t) \ {e}
    BY <1>3, <2>1 DEF HeldBy
  <2>3. Cardinality(HeldBy(t)') = Cardinality(HeldBy(t)) - 1
    BY <1>2, <2>2, FS_RemoveElement
  <2>4. numEntries'[t] = numEntries[t] - 1
    BY <1>3 DEF CounterInv
  <2> QED
    BY <1>1, <1>2, <2>1, <2>3, <2>4
<1>4. CASE ~(ok /\ t = TableOf[e])
  <2>1. HeldBy(t)' = HeldBy(t) /\ numEntries'[t] = numEntries[t]
    BY <1>4 DEF HeldBy, CounterInv, DeleteEntry, Fails
  <2>2. failures' = failures \/ failures' = failures + 1
    BY DEF DeleteEntry, Fails
  <2> QED
    BY <1>1, <1>2, <2>1, <2>2
<1> QED
  BY <1>3, <1>4

\* Where a failing call has no effect, a table is believed to hold at most one
\* entry too many for every call that failed: clients lose no more capacity.
THEOREM LossTheorem ==
  ASSUME "timeout" \notin FailureKinds
  PROVE  CounterSpec => []CapacityIsLostByFailuresOnly
<1>1. CounterInit => CapacityIsLostByFailuresOnly
  <2> SUFFICES ASSUME CounterInit, NEW t \in Table
               PROVE  numEntries[t] <= Cardinality(HeldBy(t)) + failures
    BY DEF CapacityIsLostByFailuresOnly
  <2>1. numEntries[t] = 0 /\ failures = 0 /\ HeldBy(t) = {}
    BY DEF CounterInit, HeldBy
  <2> QED
    BY <2>1, FS_EmptySet
<1>2. ASSUME CounterInv, InstalledIffCounted, CapacityIsLostByFailuresOnly,
             [CounterNext]_counterVars
      PROVE  CapacityIsLostByFailuresOnly'
  <2>1. ASSUME UNCHANGED <<numEntries, installed, failures>>
        PROVE  CapacityIsLostByFailuresOnly'
    BY <1>2, <2>1 DEF CapacityIsLostByFailuresOnly, HeldBy
  <2>2. ASSUME NEW e \in Entry, NEW ok \in BOOLEAN, Increment(e, ok)
        PROVE  CapacityIsLostByFailuresOnly'
    <3>1. CASE counter[e] = 0
      <4>1. e \notin installed
        BY <1>2, <3>1 DEF InstalledIffCounted
      <4>2. /\ WriteEntry(e, ok)
            /\ numEntries' = [numEntries EXCEPT ![TableOf[e]] = @ + 1]
        BY <2>2, <3>1 DEF Increment
      <4> QED
        BY <1>2, <4>1, <4>2, LossOfWriting
    <3>2. CASE counter[e] # 0
      BY <2>1, <2>2, <3>2 DEF Increment
    <3> QED
      BY <3>1, <3>2
  <2>3. ASSUME NEW e \in Entry, NEW ok \in BOOLEAN, Decrement(e, ok)
        PROVE  CapacityIsLostByFailuresOnly'
    <3>1. CASE counter[e] = 0
      BY <2>1, <2>3, <3>1 DEF Decrement
    <3>2. CASE counter[e] = 1
      <4>1. e \in installed
        BY <1>2, <3>2 DEF InstalledIffCounted
      <4>2. /\ DeleteEntry(e, ok)
            /\ numEntries' = IF ok THEN [numEntries EXCEPT ![TableOf[e]] = @ - 1]
                             ELSE numEntries
        BY <2>3, <3>2 DEF Decrement
      <4> QED
        BY <1>2, <4>1, <4>2, LossOfDeleting
    <3>3. CASE counter[e] \notin {0, 1}
      BY <2>1, <2>3, <3>3 DEF Decrement
    <3> QED
      BY <3>1, <3>2, <3>3
  <2> QED
    BY <1>2, <2>1, <2>2, <2>3 DEF CounterNext, counterVars
<1>3. CounterSpec => []InstalledIffCounted
  BY InstalledIffCountedTheorem
<1> QED
  BY <1>1, <1>2, <1>3, CounterInvariance, PTL DEF CounterSpec
-----------------------------------------------------------------------------
(***************************************************************************)
(* The service                                                             *)
(***************************************************************************)

Steps == {"idle", "alloc", "load", "commit", "rollback", "store", "drop", "free",
          "deleteLock", "unlock"}

\* The types of what control depends on.  No goroutine has leaked its lock or
\* panicked.
ControlTypes ==
    /\ pc \in [Intent -> Steps]
    /\ lock \in [Intent -> {"absent", "free", "held"}]
    /\ job \in [Intent -> {"none", "configure", "disable"}]
    /\ failed \in [Intent -> BOOLEAN]
    /\ intentState \in [Intent -> Request \cup {NoState}]
    /\ request \in [Intent -> Request \cup {NoState}]

\* What a goroutine's position says about its intent.
ControlOf(i) ==
    /\ lock[i] = "held" <=> pc[i] # "idle"
    /\ lock[i] = "free" => Configured(i)
    /\ lock[i] = "absent" => ~Configured(i)
    /\ pc[i] \in {"alloc", "store"} => job[i] = "configure"
    /\ pc[i] = "load" => job[i] = "disable" /\ Configured(i)
    /\ job[i] = "none" <=> pc[i] = "idle"
    /\ pc[i] = "drop" => job[i] = "disable"
    /\ pc[i] \in {"commit", "rollback", "drop"} /\ job[i] = "disable" =>
          Configured(i) /\ request[i] = intentState[i]
    /\ pc[i] \in {"alloc", "commit", "rollback", "store", "free"} => request[i] \in Request
    /\ pc[i] = "unlock" => Configured(i)
    /\ pc[i] \in {"free", "deleteLock"} => ~Configured(i)

PoolTypes ==
    /\ collectionId \in [Number -> CollectionId \cup {NoCollection}]
    /\ intents \in [Number -> SUBSET Intent]

\* No two numbers stand for one collection id.
NumbersAreUnique ==
    \A m, n \in Number :
        collectionId[m] = collectionId[n] /\ collectionId[m] # NoCollection => m = n

\* An intent holds a number while it is configured, and from the allocation to
\* the release of a request that has not configured it.
IsHolder(i) == Configured(i) \/ pc[i] \in {"commit", "rollback", "store", "free"}
CollectionOf(i) ==
    IF Configured(i) THEN intentState[i].collectionId ELSE request[i].collectionId

AllocationOf(i) ==
    /\ IsHolder(i) => \E n \in Number : Allocated(i, n, CollectionOf(i))
    /\ \A n \in Number :
          i \in intents[n] => IsHolder(i) /\ collectionId[n] = CollectionOf(i)
    /\ Configured(i) /\ pc[i] \in {"alloc", "commit", "rollback", "store"} =>
          request[i].collectionId = intentState[i].collectionId

ServiceInv ==
    /\ ControlTypes
    /\ PoolTypes
    /\ NumbersAreUnique
    /\ \A i \in Intent : ControlOf(i)
    /\ \A i \in Intent : AllocationOf(i)

LEMMA RequestsHaveCollections ==
  ASSUME NEW r \in Request
  PROVE  r.collectionId \in CollectionId /\ r.collectionId # NoCollection /\ r # NoState
BY ServiceAssumption

LEMMA ServiceInvInit == Init => ServiceInv
<1> SUFFICES ASSUME Init PROVE ServiceInv
  OBVIOUS
<1>1. ControlTypes
  BY DEF Init, ControlTypes, Steps
<1>2. PoolTypes /\ NumbersAreUnique
  BY DEF Init, PoolTypes, NumbersAreUnique
<1>3. \A i \in Intent : ControlOf(i)
  BY DEF Init, ControlOf, Configured
<1>4. \A i \in Intent : AllocationOf(i)
  BY DEF Init, AllocationOf, IsHolder, Configured
<1> QED
  BY <1>1, <1>2, <1>3, <1>4 DEF ServiceInv

-----------------------------------------------------------------------------
(* Each step keeps the invariant. *)

\* A step of i that leaves everything of another intent alone.
LEMMA OthersControl ==
  ASSUME ServiceInv, NEW i \in Intent, NEW j \in Intent, j # i,
         lock'[j] = lock[j], pc'[j] = pc[j], job'[j] = job[j],
         intentState'[j] = intentState[j], request'[j] = request[j]
  PROVE  ControlOf(j)'
BY DEF ServiceInv, ControlOf, Configured

LEMMA OthersAllocation ==
  ASSUME ServiceInv, NEW i \in Intent, NEW j \in Intent, j # i,
         pc'[j] = pc[j], intentState'[j] = intentState[j], request'[j] = request[j],
         \A n \in Number :
             (j \in intents[n] => collectionId'[n] = collectionId[n])
             /\ (j \in intents'[n] <=> j \in intents[n])
  PROVE  AllocationOf(j)'
BY DEF ServiceInv, AllocationOf, IsHolder, CollectionOf, Configured, Allocated, Stands

LEMMA BeginConfigureKeepsInv ==
  ASSUME ServiceInv, NEW i \in Intent, NEW r \in Request, BeginConfigure(i, r)
  PROVE  ServiceInv'
<1> USE DEF BeginConfigure, Start, GoTo, poolVars
<1>1. ControlTypes'
  BY DEF ServiceInv, ControlTypes, Steps
<1>2. PoolTypes' /\ NumbersAreUnique'
  BY DEF ServiceInv, PoolTypes, NumbersAreUnique
<1>3. ControlOf(i)'
  BY DEF ServiceInv, ControlTypes, ControlOf, Configured, Steps
<1>4. AllocationOf(i)'
  BY DEF ServiceInv, ControlTypes, ControlOf, AllocationOf, IsHolder, CollectionOf, Configured,
         Allocated, Stands
<1>5. ASSUME NEW j \in Intent, j # i PROVE ControlOf(j)' /\ AllocationOf(j)'
  BY <1>5, OthersControl, OthersAllocation DEF ServiceInv, ControlTypes
<1> QED
  BY <1>1, <1>2, <1>3, <1>4, <1>5 DEF ServiceInv

LEMMA BeginDisableKeepsInv ==
  ASSUME ServiceInv, NEW i \in Intent, BeginDisable(i)
  PROVE  ServiceInv'
<1> USE DEF BeginDisable, Start, GoTo, poolVars
<1>1. ControlTypes'
  BY DEF ServiceInv, ControlTypes, Steps
<1>2. PoolTypes' /\ NumbersAreUnique'
  BY DEF ServiceInv, PoolTypes, NumbersAreUnique
<1>3. ControlOf(i)'
  BY DEF ServiceInv, ControlTypes, ControlOf, Configured
<1>4. AllocationOf(i)'
  BY DEF ServiceInv, ControlTypes, ControlOf, AllocationOf, IsHolder, CollectionOf, Configured,
         Allocated, Stands
<1>5. ASSUME NEW j \in Intent, j # i PROVE ControlOf(j)' /\ AllocationOf(j)'
  BY <1>5, OthersControl, OthersAllocation DEF ServiceInv, ControlTypes
<1> QED
  BY <1>1, <1>2, <1>3, <1>4, <1>5 DEF ServiceInv

LEMMA AllocRefusedKeepsInv ==
  ASSUME ServiceInv, NEW i \in Intent, AllocRefused(i)
  PROVE  ServiceInv'
<1> USE DEF AllocRefused, GoTo, poolVars, logVars
<1>1. ControlTypes'
  BY DEF ServiceInv, ControlTypes, ControlOf, Configured, Steps
<1>2. PoolTypes' /\ NumbersAreUnique'
  BY DEF ServiceInv, PoolTypes, NumbersAreUnique
<1>3. ControlOf(i)'
  BY DEF ServiceInv, ControlTypes, ControlOf, Configured
<1>4. AllocationOf(i)'
  BY DEF ServiceInv, ControlTypes, ControlOf, AllocationOf, IsHolder, CollectionOf, Configured,
         Allocated, Stands
<1>5. ASSUME NEW j \in Intent, j # i PROVE ControlOf(j)' /\ AllocationOf(j)'
  BY <1>5, OthersControl, OthersAllocation DEF ServiceInv, ControlTypes
<1> QED
  BY <1>1, <1>2, <1>3, <1>4, <1>5 DEF ServiceInv

LEMMA StoreKeepsInv ==
  ASSUME ServiceInv, NEW i \in Intent, Store(i)
  PROVE  ServiceInv'
<1> USE DEF Store, GoTo, poolVars, logVars
<1>1. ControlTypes'
  BY DEF ServiceInv, ControlTypes, ControlOf, Configured, Steps
<1>2. PoolTypes' /\ NumbersAreUnique'
  BY DEF ServiceInv, PoolTypes, NumbersAreUnique
<1>3. ControlOf(i)'
  BY RequestsHaveCollections DEF ServiceInv, ControlTypes, ControlOf, Configured
<1>4. AllocationOf(i)'
  BY RequestsHaveCollections DEF ServiceInv, ControlTypes, ControlOf, AllocationOf, IsHolder, CollectionOf, Configured,
         Allocated, Stands
<1>5. ASSUME NEW j \in Intent, j # i PROVE ControlOf(j)' /\ AllocationOf(j)'
  BY <1>5, OthersControl, OthersAllocation DEF ServiceInv, ControlTypes
<1> QED
  BY <1>1, <1>2, <1>3, <1>4, <1>5 DEF ServiceInv

LEMMA DropKeepsInv ==
  ASSUME ServiceInv, NEW i \in Intent, Drop(i)
  PROVE  ServiceInv'
<1> USE DEF Drop, GoTo, poolVars, logVars
<1>1. ControlTypes'
  BY DEF ServiceInv, ControlTypes, ControlOf, Configured, Steps
<1>2. PoolTypes' /\ NumbersAreUnique'
  BY DEF ServiceInv, PoolTypes, NumbersAreUnique
<1>3. ControlOf(i)'
  BY RequestsHaveCollections DEF ServiceInv, ControlTypes, ControlOf, Configured
<1>4. AllocationOf(i)'
  BY RequestsHaveCollections DEF ServiceInv, ControlTypes, ControlOf, AllocationOf, IsHolder, CollectionOf, Configured,
         Allocated, Stands
<1>5. ASSUME NEW j \in Intent, j # i PROVE ControlOf(j)' /\ AllocationOf(j)'
  BY <1>5, OthersControl, OthersAllocation DEF ServiceInv, ControlTypes
<1> QED
  BY <1>1, <1>2, <1>3, <1>4, <1>5 DEF ServiceInv

LEMMA CommitStepKeepsInv ==
  ASSUME ServiceInv, NEW i \in Intent, CommitStep(i)
  PROVE  ServiceInv'
<1>0. /\ pc[i] = "commit"
      /\ \/ pc' = pc /\ failed' = failed
         \/ pc' = [pc EXCEPT ![i] = "rollback"] /\ failed' = [failed EXCEPT ![i] = TRUE]
      /\ UNCHANGED <<lock, intentState, collectionId, intents, job, request>>
  BY DEF CommitStep, GoTo, poolVars
<1>1. ControlTypes'
  BY <1>0 DEF ServiceInv, ControlTypes, Steps
<1>2. PoolTypes' /\ NumbersAreUnique'
  BY <1>0 DEF ServiceInv, PoolTypes, NumbersAreUnique
<1>3. ControlOf(i)'
  BY <1>0 DEF ServiceInv, ControlTypes, ControlOf, Configured
<1>4. AllocationOf(i)'
  BY <1>0 DEF ServiceInv, ControlTypes, ControlOf, AllocationOf, IsHolder, CollectionOf,
              Configured, Allocated, Stands
<1>5. ASSUME NEW j \in Intent, j # i PROVE ControlOf(j)' /\ AllocationOf(j)'
  BY <1>0, <1>5, OthersControl, OthersAllocation DEF ServiceInv, ControlTypes
<1> QED
  BY <1>1, <1>2, <1>3, <1>4, <1>5 DEF ServiceInv

LEMMA RollbackStepKeepsInv ==
  ASSUME ServiceInv, NEW i \in Intent, RollbackStep(i)
  PROVE  ServiceInv'
<1> USE DEF RollbackStep, GoTo, poolVars
<1>1. ControlTypes'
  BY DEF ServiceInv, ControlTypes, ControlOf, Configured, Steps
<1>2. PoolTypes' /\ NumbersAreUnique'
  BY DEF ServiceInv, PoolTypes, NumbersAreUnique
<1>3. ControlOf(i)'
  BY DEF ServiceInv, ControlTypes, ControlOf, Configured
<1>4. AllocationOf(i)'
  BY DEF ServiceInv, ControlTypes, ControlOf, AllocationOf, IsHolder, CollectionOf, Configured,
         Allocated, Stands
<1>5. ASSUME NEW j \in Intent, j # i PROVE ControlOf(j)' /\ AllocationOf(j)'
  BY <1>5, OthersControl, OthersAllocation DEF ServiceInv, ControlTypes
<1> QED
  BY <1>1, <1>2, <1>3, <1>4, <1>5 DEF ServiceInv

LEMMA NotifyKeepsInv ==
  ASSUME ServiceInv, NEW i \in Intent, Notify(i)
  PROVE  ServiceInv'
<1> USE DEF Notify, GoTo, poolVars
<1>1. ControlTypes'
  BY DEF ServiceInv, ControlTypes, ControlOf, Configured, Steps, AfterCommit
<1>2. PoolTypes' /\ NumbersAreUnique'
  BY DEF ServiceInv, PoolTypes, NumbersAreUnique
<1>3. ControlOf(i)'
  BY DEF ServiceInv, ControlTypes, ControlOf, Configured, AfterCommit
<1>4. AllocationOf(i)'
  BY DEF ServiceInv, ControlTypes, ControlOf, AllocationOf, IsHolder, CollectionOf, Configured,
         Allocated, Stands, AfterCommit
<1>5. ASSUME NEW j \in Intent, j # i PROVE ControlOf(j)' /\ AllocationOf(j)'
  BY <1>5, OthersControl, OthersAllocation DEF ServiceInv, ControlTypes
<1> QED
  BY <1>1, <1>2, <1>3, <1>4, <1>5 DEF ServiceInv

LEMMA DeleteIntentLockKeepsInv ==
  ASSUME ServiceInv, NEW i \in Intent, DeleteIntentLock(i)
  PROVE  ServiceInv'
<1> USE DEF DeleteIntentLock, Finish, GoTo, poolVars
<1>1. ControlTypes'
  BY DEF ServiceInv, ControlTypes, ControlOf, Configured, Steps
<1>2. PoolTypes' /\ NumbersAreUnique'
  BY DEF ServiceInv, PoolTypes, NumbersAreUnique
<1>3. ControlOf(i)'
  BY DEF ServiceInv, ControlTypes, ControlOf, Configured
<1>4. AllocationOf(i)'
  BY DEF ServiceInv, ControlTypes, ControlOf, AllocationOf, IsHolder, CollectionOf, Configured,
         Allocated, Stands
<1>5. ASSUME NEW j \in Intent, j # i PROVE ControlOf(j)' /\ AllocationOf(j)'
  BY <1>5, OthersControl, OthersAllocation DEF ServiceInv, ControlTypes
<1> QED
  BY <1>1, <1>2, <1>3, <1>4, <1>5 DEF ServiceInv

LEMMA UnlockIntentKeepsInv ==
  ASSUME ServiceInv, NEW i \in Intent, UnlockIntent(i)
  PROVE  ServiceInv'
<1> USE DEF UnlockIntent, Finish, GoTo, poolVars
<1>1. ControlTypes'
  BY DEF ServiceInv, ControlTypes, ControlOf, Configured, Steps
<1>2. PoolTypes' /\ NumbersAreUnique'
  BY DEF ServiceInv, PoolTypes, NumbersAreUnique
<1>3. ControlOf(i)'
  BY DEF ServiceInv, ControlTypes, ControlOf, Configured
<1>4. AllocationOf(i)'
  BY DEF ServiceInv, ControlTypes, ControlOf, AllocationOf, IsHolder, CollectionOf, Configured,
         Allocated, Stands
<1>5. ASSUME NEW j \in Intent, j # i PROVE ControlOf(j)' /\ AllocationOf(j)'
  BY <1>5, OthersControl, OthersAllocation DEF ServiceInv, ControlTypes
<1> QED
  BY <1>1, <1>2, <1>3, <1>4, <1>5 DEF ServiceInv

\* The allocation: either some number stands for the collection id already, or
\* nobody holds the one that is taken.
LEMMA AllocKeepsInv ==
  ASSUME ServiceInv, NEW i \in Intent, Alloc(i)
  PROVE  ServiceInv'
<1> DEFINE c == request[i].collectionId
<1>1. PICK n \in Number :
          /\ IsNumberFor(n, c)
          /\ collectionId' = [collectionId EXCEPT ![n] = c]
          /\ intents' = [intents EXCEPT ![n] = @ \cup {i}]
  BY DEF Alloc
<1>2. /\ pc[i] = "alloc"
      /\ \/ pc' = [pc EXCEPT ![i] = "store"]
         \/ pc' = [pc EXCEPT ![i] = "commit"]
      /\ UNCHANGED <<lock, intentState, job, request, failed>>
  BY DEF Alloc, GoTo
<1>3. request[i] \in Request /\ c \in CollectionId /\ c # NoCollection
  BY <1>2, RequestsHaveCollections DEF ServiceInv, ControlOf
<1>4. \/ Stands(n, c) /\ collectionId' = collectionId
      \/ (\A m \in Number : collectionId[m] # c) /\ intents[n] = {}
  BY <1>1 DEF IsNumberFor, Stands, Free, ServiceInv, PoolTypes
<1>5. ControlTypes'
  BY <1>2 DEF ServiceInv, ControlTypes, Steps
<1>6. PoolTypes'
  BY <1>1, <1>3 DEF ServiceInv, PoolTypes
<1>7. NumbersAreUnique'
  BY <1>1, <1>4 DEF ServiceInv, NumbersAreUnique, PoolTypes
<1>8. ControlOf(i)'
  BY <1>2 DEF ServiceInv, ControlTypes, ControlOf, Configured
<1>9. AllocationOf(i)'
  <2>1. (CollectionOf(i))' = c /\ IsHolder(i)'
    BY <1>2 DEF ServiceInv, ControlTypes, AllocationOf, CollectionOf, IsHolder, Configured
  <2>2. collectionId'[n] = c /\ i \in intents'[n]
    BY <1>1 DEF ServiceInv, PoolTypes
  <2>3. ASSUME NEW m \in Number, i \in intents'[m] PROVE collectionId'[m] = c
    <3>1. CASE m = n
      BY <1>1, <3>1 DEF ServiceInv, PoolTypes
    <3>2. CASE m # n
      <4>1. i \in intents[m] /\ collectionId'[m] = collectionId[m]
        BY <1>1, <2>3, <3>2 DEF ServiceInv, PoolTypes
      <4>2. IsHolder(i) /\ collectionId[m] = CollectionOf(i)
        BY <4>1 DEF ServiceInv, AllocationOf
      <4>3. CollectionOf(i) = c
        BY <1>2, <4>2 DEF ServiceInv, AllocationOf, IsHolder, CollectionOf
      <4> QED
        BY <4>1, <4>2, <4>3
    <3> QED
      BY <3>1, <3>2
  <2>4. Configured(i)' => request'[i].collectionId = intentState'[i].collectionId
    BY <1>2 DEF ServiceInv, AllocationOf, Configured
  <2> QED
    BY <2>1, <2>2, <2>3, <2>4 DEF AllocationOf, Allocated, Stands
<1>10. ASSUME NEW j \in Intent, j # i PROVE ControlOf(j)' /\ AllocationOf(j)'
  <2>1. ASSUME NEW m \in Number
        PROVE  /\ j \in intents'[m] <=> j \in intents[m]
               /\ j \in intents[m] => collectionId'[m] = collectionId[m]
    BY <1>1, <1>4, <1>10 DEF ServiceInv, PoolTypes
  <2> QED
    BY <1>2, <1>10, <2>1, OthersControl, OthersAllocation DEF ServiceInv, ControlTypes
<1> QED
  BY <1>5, <1>6, <1>7, <1>8, <1>9, <1>10 DEF ServiceInv

\* The intent disabled is configured, so the pool knows it: the goroutine
\* neither returns with the lock nor panics.
LEMMA LoadKeepsInv ==
  ASSUME ServiceInv, NEW i \in Intent, Load(i)
  PROVE  ServiceInv'
<1>1. pc[i] = "load" /\ Configured(i)
  BY DEF Load, ServiceInv, ControlOf
<1>2. \E n \in Number : Allocated(i, n, intentState[i].collectionId)
  BY <1>1 DEF ServiceInv, AllocationOf, IsHolder, CollectionOf
<1>3. /\ request' = [request EXCEPT ![i] = intentState[i]]
      /\ pc' = [pc EXCEPT ![i] = "commit"]
      /\ UNCHANGED <<lock, intentState, collectionId, intents, job, failed>>
  BY <1>1, <1>2 DEF Load, GoTo, poolVars
<1>4. ControlTypes'
  BY <1>3 DEF ServiceInv, ControlTypes, Steps
<1>5. PoolTypes' /\ NumbersAreUnique'
  BY <1>3 DEF ServiceInv, PoolTypes, NumbersAreUnique
<1>6. ControlOf(i)'
  BY <1>1, <1>3 DEF ServiceInv, ControlTypes, ControlOf, Configured
<1>7. AllocationOf(i)'
  BY <1>1, <1>3 DEF ServiceInv, ControlTypes, AllocationOf, IsHolder, CollectionOf, Configured,
                    Allocated, Stands
<1>8. ASSUME NEW j \in Intent, j # i PROVE ControlOf(j)' /\ AllocationOf(j)'
  BY <1>3, <1>8, OthersControl, OthersAllocation DEF ServiceInv, ControlTypes
<1> QED
  BY <1>4, <1>5, <1>6, <1>7, <1>8 DEF ServiceInv

\* All numbers the intent holds stand for one collection id, which has one
\* number: after the release none is left.
LEMMA FreeNumberKeepsInv ==
  ASSUME ServiceInv, NEW i \in Intent, FreeNumber(i)
  PROVE  ServiceInv'
<1> DEFINE c == request[i].collectionId
<1>1. PICK n \in Number :
          /\ collectionId[n] = c /\ i \in intents[n]
          /\ intents' = [intents EXCEPT ![n] = @ \ {i}]
          /\ collectionId' =
                [collectionId EXCEPT ![n] = IF intents[n] = {i} THEN NoCollection ELSE @]
  BY DEF FreeNumber, Allocated, Stands
<1>2. /\ pc[i] = "free" /\ ~Configured(i)
      /\ pc' = [pc EXCEPT ![i] = "deleteLock"]
      /\ UNCHANGED <<lock, intentState, job, request, failed>>
  BY DEF FreeNumber, GoTo, logVars, ServiceInv, ControlOf
<1>3. c \in CollectionId /\ c # NoCollection
  BY <1>2, RequestsHaveCollections DEF ServiceInv, ControlOf
<1>4. ControlTypes'
  BY <1>2 DEF ServiceInv, ControlTypes, Steps
<1>5. PoolTypes' /\ NumbersAreUnique'
  <2>1. PoolTypes'
    BY <1>1 DEF ServiceInv, PoolTypes
  <2>2. NumbersAreUnique'
    BY <1>1 DEF ServiceInv, NumbersAreUnique, PoolTypes
  <2> QED
    BY <2>1, <2>2
<1>6. ControlOf(i)'
  BY <1>2 DEF ServiceInv, ControlTypes, ControlOf, Configured
<1>7. AllocationOf(i)'
  <2>1. ~IsHolder(i)'
    BY <1>2 DEF IsHolder, Configured, ServiceInv, ControlTypes
  <2>2. ASSUME NEW m \in Number PROVE i \notin intents'[m]
    <3>1. i \in intents[m] => collectionId[m] = c
      BY <1>2 DEF ServiceInv, AllocationOf, CollectionOf
    <3>2. i \in intents[m] => m = n
      BY <1>1, <1>3, <3>1 DEF ServiceInv, NumbersAreUnique
    <3> QED
      BY <1>1, <3>2 DEF ServiceInv, PoolTypes
  <2> QED
    BY <2>1, <2>2, <1>2 DEF AllocationOf, IsHolder
<1>8. ASSUME NEW j \in Intent, j # i PROVE ControlOf(j)' /\ AllocationOf(j)'
  <2>1. ASSUME NEW m \in Number
        PROVE  /\ j \in intents'[m] <=> j \in intents[m]
               /\ j \in intents[m] => collectionId'[m] = collectionId[m]
    BY <1>1, <1>8 DEF ServiceInv, PoolTypes
  <2> QED
    BY <1>2, <1>8, <2>1, OthersControl, OthersAllocation DEF ServiceInv, ControlTypes
<1> QED
  BY <1>4, <1>5, <1>6, <1>7, <1>8 DEF ServiceInv

\* Every step keeps the invariant, so it holds throughout.
THEOREM ServiceInvariance == Spec => []ServiceInv
<1>1. Init => ServiceInv
  BY ServiceInvInit
<1>2. ServiceInv /\ [Next]_vars => ServiceInv'
  <2> SUFFICES ASSUME ServiceInv, [Next]_vars PROVE ServiceInv'
    OBVIOUS
  <2>1. CASE UNCHANGED vars
    BY <2>1 DEF vars, poolVars, logVars, ServiceInv, ControlTypes, PoolTypes, NumbersAreUnique,
                ControlOf, AllocationOf, IsHolder, CollectionOf, Configured, Allocated, Stands
  <2>2. ASSUME NEW i \in Intent, NEW r \in Request, BeginConfigure(i, r) PROVE ServiceInv'
    BY <2>2, BeginConfigureKeepsInv
  <2>3. ASSUME NEW i \in Intent, BeginDisable(i) PROVE ServiceInv'
    BY <2>3, BeginDisableKeepsInv
  <2>4. ASSUME NEW i \in Intent, Step(i) PROVE ServiceInv'
    BY <2>4, AllocKeepsInv, AllocRefusedKeepsInv, StoreKeepsInv, LoadKeepsInv, DropKeepsInv,
       CommitStepKeepsInv, RollbackStepKeepsInv, NotifyKeepsInv, FreeNumberKeepsInv,
       DeleteIntentLockKeepsInv, UnlockIntentKeepsInv DEF Step
  <2> QED
    BY <2>1, <2>2, <2>3, <2>4 DEF Next
<1> QED
  BY <1>1, <1>2, PTL DEF Spec

\* Nobody walks away with an intent's lock, whatever requests race and fail.
THEOREM LockTheorem == Spec => []LockMatchesState
<1>1. ServiceInv => LockMatchesState
  BY DEF ServiceInv, ControlTypes, ControlOf, Steps, LockMatchesState
<1> QED
  BY <1>1, ServiceInvariance, PTL

\* No path of a request loses or keeps an allocation.
THEOREM AllocationTheorem == Spec => []AllocationMatchesState
<1>1. ServiceInv => AllocationMatchesState
  BY DEF ServiceInv, AllocationOf, IsHolder, CollectionOf, AllocationMatchesState
<1> QED
  BY <1>1, ServiceInvariance, PTL
-----------------------------------------------------------------------------
(* Each step is one of TelemetryIntents, or none. *)

\* What the refinement mapping shows of an intent.
ServingOf(i) == IF IsServed(i) THEN job[i] ELSE "none"
AskedOf(i) == IF IsServed(i) /\ job[i] = "configure" THEN request[i] ELSE NoState

LooksTheSame(i) == (ServingOf(i))' = ServingOf(i) /\ (AskedOf(i))' = AskedOf(i)

LEMMA OthersLookTheSame ==
  ASSUME NEW j \in Intent, pc'[j] = pc[j], job'[j] = job[j],
         intentState'[j] = intentState[j], request'[j] = request[j]
  PROVE  LooksTheSame(j)
BY DEF LooksTheSame, ServingOf, AskedOf, IsServed, TakenEffect

LEMMA QuietStep ==
  ASSUME intentState' = intentState, \A j \in Intent : LooksTheSame(j)
  PROVE  UNCHANGED Intents!intentVars
BY DEF Intents!intentVars, LooksTheSame, ServingOf, AskedOf

LEMMA AcceptStep ==
  ASSUME NEW i \in Intent, NEW kind, NEW content,
         ServingOf(i) = "none", (ServingOf(i))' = kind, (AskedOf(i))' = content,
         intentState' = intentState, \A j \in Intent \ {i} : LooksTheSame(j)
  PROVE  Intents!Accept(i, kind, content)
BY DEF Intents!Accept, Intents!IsBusy, LooksTheSame, ServingOf, AskedOf

LEMMA FinishStep ==
  ASSUME NEW i \in Intent, NEW ok \in BOOLEAN,
         ServingOf(i) # "none", (ServingOf(i))' = "none", (AskedOf(i))' = NoState,
         intentState' = [intentState EXCEPT ![i] = IF ok THEN AskedOf(i) ELSE @],
         \A j \in Intent \ {i} : LooksTheSame(j)
  PROVE  Intents!Finish(i, ok)
BY DEF Intents!Finish, Intents!IsBusy, LooksTheSame, ServingOf, AskedOf

\* The steps that only move a request on change nothing that can be seen.
LEMMA QuietSteps ==
  ASSUME ServiceInv, NEW i \in Intent,
         Alloc(i) \/ CommitStep(i) \/ RollbackStep(i)
  PROVE  UNCHANGED Intents!intentVars
<1>1. /\ UNCHANGED <<intentState, job, request>>
      /\ pc[i] \in {"alloc", "commit", "rollback"}
      /\ \/ pc' = pc
         \/ \E s \in {"store", "commit", "rollback"} : pc' = [pc EXCEPT ![i] = s]
  BY DEF Alloc, CommitStep, RollbackStep, GoTo, logVars, poolVars
<1>2. \A j \in Intent \ {i} : LooksTheSame(j)
  BY <1>1, OthersLookTheSame DEF ServiceInv, ControlTypes
<1>3. LooksTheSame(i)
  BY <1>1 DEF ServiceInv, ControlTypes, LooksTheSame, ServingOf, AskedOf, IsServed, TakenEffect
<1> QED
  BY <1>1, <1>2, <1>3, QuietStep

LEMMA LoadIsQuiet ==
  ASSUME ServiceInv, NEW i \in Intent, Load(i)
  PROVE  UNCHANGED Intents!intentVars
<1>1. pc[i] = "load" /\ job[i] = "disable"
  BY DEF Load, ServiceInv, ControlOf
<1>2. /\ UNCHANGED <<intentState, job>>
      /\ pc'[i] \in {"commit", "panic", "leaked"}
      /\ \A j \in Intent \ {i} : pc'[j] = pc[j] /\ request'[j] = request[j]
  BY DEF Load, GoTo, poolVars, ServiceInv, ControlTypes
<1>3. \A j \in Intent \ {i} : LooksTheSame(j)
  BY <1>2, OthersLookTheSame
<1>4. LooksTheSame(i)
  BY <1>1, <1>2 DEF LooksTheSame, ServingOf, AskedOf, IsServed, TakenEffect
<1> QED
  BY <1>2, <1>3, <1>4, QuietStep

LEMMA FreeNumberIsQuiet ==
  ASSUME ServiceInv, NEW i \in Intent, FreeNumber(i)
  PROVE  UNCHANGED Intents!intentVars
<1>1. /\ pc[i] = "free" /\ pc' = [pc EXCEPT ![i] = "deleteLock"]
      /\ UNCHANGED <<intentState, job, request>>
  BY DEF FreeNumber, GoTo
<1>2. \A j \in Intent \ {i} : LooksTheSame(j)
  BY <1>1, OthersLookTheSame DEF ServiceInv, ControlTypes
<1>3. LooksTheSame(i)
  BY <1>1 DEF ServiceInv, ControlTypes, LooksTheSame, ServingOf, AskedOf, IsServed, TakenEffect
<1> QED
  BY <1>1, <1>2, <1>3, QuietStep

LEMMA BeginConfigureIsAccept ==
  ASSUME ServiceInv, NEW i \in Intent, NEW r \in Request, BeginConfigure(i, r)
  PROVE  Intents!Accept(i, "configure", r)
<1>1. /\ pc[i] = "idle" /\ intentState' = intentState
      /\ \/ pc' = [pc EXCEPT ![i] = "alloc"]
         \/ /\ pc' = [pc EXCEPT ![i] = "unlock"]
            /\ intentState[i].collectionId # r.collectionId
      /\ job' = [job EXCEPT ![i] = "configure"]
      /\ request' = [request EXCEPT ![i] = r]
  BY DEF BeginConfigure, Start, GoTo
<1>2. \A j \in Intent \ {i} : LooksTheSame(j)
  BY <1>1, OthersLookTheSame DEF ServiceInv, ControlTypes
<1>3. ServingOf(i) = "none" /\ (ServingOf(i))' = "configure" /\ (AskedOf(i))' = r
  BY <1>1 DEF ServiceInv, ControlTypes, ServingOf, AskedOf, IsServed, TakenEffect
<1> QED
  BY <1>1, <1>2, <1>3, AcceptStep

LEMMA BeginDisableIsAccept ==
  ASSUME ServiceInv, NEW i \in Intent, BeginDisable(i)
  PROVE  Intents!Accept(i, "disable", NoState)
<1>1. /\ pc[i] = "idle" /\ intentState' = intentState
      /\ pc' = [pc EXCEPT ![i] = "load"]
      /\ job' = [job EXCEPT ![i] = "disable"]
      /\ request' = [request EXCEPT ![i] = NoState]
  BY DEF BeginDisable, Start, GoTo
<1>2. \A j \in Intent \ {i} : LooksTheSame(j)
  BY <1>1, OthersLookTheSame DEF ServiceInv, ControlTypes
<1>3. ServingOf(i) = "none" /\ (ServingOf(i))' = "disable" /\ (AskedOf(i))' = NoState
  BY <1>1 DEF ServiceInv, ControlTypes, ServingOf, AskedOf, IsServed, TakenEffect
<1> QED
  BY <1>1, <1>2, <1>3, AcceptStep

LEMMA StoreIsFinish ==
  ASSUME ServiceInv, NEW i \in Intent, Store(i)
  PROVE  Intents!Finish(i, TRUE)
<1>1. /\ pc[i] = "store" /\ job[i] = "configure"
      /\ intentState' = [intentState EXCEPT ![i] = request[i]]
      /\ pc' = [pc EXCEPT ![i] = "unlock"]
      /\ UNCHANGED <<job, request>>
  BY DEF Store, GoTo, ServiceInv, ControlOf
<1>2. \A j \in Intent \ {i} : LooksTheSame(j)
  BY <1>1, OthersLookTheSame DEF ServiceInv, ControlTypes
<1>3. /\ ServingOf(i) = "configure" /\ AskedOf(i) = request[i]
      /\ (ServingOf(i))' = "none" /\ (AskedOf(i))' = NoState
  BY <1>1 DEF ServiceInv, ControlTypes, ServingOf, AskedOf, IsServed, TakenEffect
<1>4. intentState' = [intentState EXCEPT ![i] = IF TRUE THEN AskedOf(i) ELSE @]
  BY <1>1, <1>3
<1> QED
  BY <1>2, <1>3, <1>4, FinishStep

LEMMA DropIsFinish ==
  ASSUME ServiceInv, NEW i \in Intent, Drop(i)
  PROVE  Intents!Finish(i, TRUE)
<1>1. /\ pc[i] = "drop" /\ job[i] = "disable"
      /\ intentState' = [intentState EXCEPT ![i] = NoState]
      /\ pc' = [pc EXCEPT ![i] = "free"]
      /\ UNCHANGED <<job, request>>
  BY DEF Drop, GoTo, ServiceInv, ControlOf
<1>2. \A j \in Intent \ {i} : LooksTheSame(j)
  BY <1>1, OthersLookTheSame DEF ServiceInv, ControlTypes
<1>3. /\ ServingOf(i) = "disable" /\ AskedOf(i) = NoState
      /\ (ServingOf(i))' = "none" /\ (AskedOf(i))' = NoState
  BY <1>1 DEF ServiceInv, ControlTypes, ServingOf, AskedOf, IsServed, TakenEffect
<1>4. intentState' = [intentState EXCEPT ![i] = IF TRUE THEN AskedOf(i) ELSE @]
  BY <1>1, <1>3
<1> QED
  BY <1>2, <1>3, <1>4, FinishStep

\* A step that may make a request for what is configured already look done.
LEMMA GivingUp ==
  ASSUME ServiceInv, NEW i \in Intent, AllocRefused(i) \/ Notify(i)
  PROVE  Intents!Finish(i, TRUE) \/ UNCHANGED Intents!intentVars
<1>1. /\ UNCHANGED <<intentState, job, request>>
      /\ pc[i] \in {"alloc", "commit", "rollback"}
      /\ \E s \in {"unlock", "deleteLock", "store", "free", "drop"} :
            pc' = [pc EXCEPT ![i] = s]
      /\ job[i] = "disable" => pc'[i] \in {"drop", "unlock"}
  <2>1. CASE AllocRefused(i)
    BY <2>1 DEF AllocRefused, GoTo, logVars, ServiceInv, ControlOf
  <2>2. CASE Notify(i)
    <3>1. AfterCommit(i) \in {"store", "unlock", "free", "drop"}
      BY <2>2 DEF AfterCommit, Notify, ServiceInv, ControlTypes, ControlOf
    <3>2. job[i] = "disable" => AfterCommit(i) \in {"drop", "unlock"}
      BY DEF AfterCommit, ServiceInv, ControlTypes
    <3> QED
      BY <2>2, <3>1, <3>2 DEF Notify, GoTo, ServiceInv, ControlTypes
  <2> QED
    BY <2>1, <2>2
<1>2. \A j \in Intent \ {i} : LooksTheSame(j)
  BY <1>1, OthersLookTheSame DEF ServiceInv, ControlTypes
<1>3. CASE TakenEffect(i)'
  <2>1. job[i] = "configure" /\ intentState[i] = request[i]
    BY <1>1, <1>3 DEF TakenEffect, ServiceInv, ControlTypes
  <2>2. /\ ServingOf(i) = "configure" /\ AskedOf(i) = request[i]
        /\ (ServingOf(i))' = "none" /\ (AskedOf(i))' = NoState
    BY <1>1, <1>3, <2>1 DEF ServingOf, AskedOf, IsServed, TakenEffect
  <2>3. intentState' = [intentState EXCEPT ![i] = IF TRUE THEN AskedOf(i) ELSE @]
    BY <1>1, <2>1, <2>2 DEF ServiceInv, ControlTypes
  <2> QED
    BY <1>2, <2>2, <2>3, FinishStep
<1>4. CASE ~TakenEffect(i)'
  <2>1. LooksTheSame(i)
    BY <1>1, <1>4 DEF ServiceInv, ControlTypes, LooksTheSame, ServingOf, AskedOf, IsServed,
                      TakenEffect
  <2> QED
    BY <1>1, <1>2, <2>1, QuietStep
<1> QED
  BY <1>3, <1>4

\* The end of a goroutine whose request has had no effect, or none left to show.
LEMMA Ending ==
  ASSUME ServiceInv, NEW i \in Intent, DeleteIntentLock(i) \/ UnlockIntent(i)
  PROVE  Intents!Finish(i, FALSE) \/ UNCHANGED Intents!intentVars
<1>1. /\ pc[i] # "idle" /\ job[i] # "none"
      /\ intentState' = intentState
      /\ pc' = [pc EXCEPT ![i] = "idle"]
      /\ job' = [job EXCEPT ![i] = "none"]
      /\ request' = [request EXCEPT ![i] = NoState]
  BY DEF DeleteIntentLock, UnlockIntent, Finish, GoTo, ServiceInv, ControlOf
<1>2. \A j \in Intent \ {i} : LooksTheSame(j)
  BY <1>1, OthersLookTheSame DEF ServiceInv, ControlTypes
<1>3. (ServingOf(i))' = "none" /\ (AskedOf(i))' = NoState
  BY <1>1 DEF ServingOf, AskedOf, IsServed, ServiceInv, ControlTypes
<1>4. CASE TakenEffect(i)
  <2>1. LooksTheSame(i)
    BY <1>3, <1>4 DEF LooksTheSame, ServingOf, AskedOf, IsServed
  <2> QED
    BY <1>1, <1>2, <2>1, QuietStep
<1>5. CASE ~TakenEffect(i)
  <2>1. ServingOf(i) # "none"
    BY <1>1, <1>5 DEF ServingOf, IsServed
  <2>2. intentState' = [intentState EXCEPT ![i] = IF FALSE THEN AskedOf(i) ELSE @]
    BY <1>1 DEF ServiceInv, ControlTypes
  <2> QED
    BY <1>2, <1>3, <2>1, <2>2, FinishStep
<1> QED
  BY <1>4, <1>5

\* The safety half of ImplementsIntents: locks, pool, commits and rollbacks add
\* up to requests that are served one at a time for an intent, each taking
\* effect at most once and as a whole.
THEOREM ServiceImplementsIntents ==
  Spec => Intents!IntentsInit /\ [][Intents!IntentsNext]_(Intents!intentVars)
<1>1. Init => Intents!IntentsInit
  BY DEF Init, Intents!IntentsInit, IsServed
<1>2. ServiceInv /\ [Next]_vars => [Intents!IntentsNext]_(Intents!intentVars)
  <2> SUFFICES ASSUME ServiceInv, [Next]_vars
               PROVE  Intents!IntentsNext \/ UNCHANGED Intents!intentVars
    OBVIOUS
  <2>1. CASE UNCHANGED vars
    <3>1. intentState' = intentState /\ \A j \in Intent : LooksTheSame(j)
      BY <2>1, OthersLookTheSame DEF vars
    <3> QED
      BY <3>1, QuietStep
  <2>2. ASSUME NEW i \in Intent, NEW r \in Request, BeginConfigure(i, r)
        PROVE  Intents!IntentsNext
    BY <2>2, BeginConfigureIsAccept DEF Intents!IntentsNext
  <2>3. ASSUME NEW i \in Intent, BeginDisable(i) PROVE Intents!IntentsNext
    BY <2>3, BeginDisableIsAccept DEF Intents!IntentsNext
  <2>4. ASSUME NEW i \in Intent, Step(i)
        PROVE  Intents!IntentsNext \/ UNCHANGED Intents!intentVars
    <3>1. \/ UNCHANGED Intents!intentVars
          \/ \E ok \in BOOLEAN : Intents!Finish(i, ok)
      BY <2>4, QuietSteps, LoadIsQuiet, FreeNumberIsQuiet, StoreIsFinish, DropIsFinish, GivingUp,
         Ending DEF Step
    <3> QED
      BY <3>1 DEF Intents!IntentsNext
  <2> QED
    BY <2>1, <2>2, <2>3, <2>4 DEF Next
<1> QED
  BY <1>1, <1>2, ServiceInvariance, PTL DEF Spec
-----------------------------------------------------------------------------
(* The service as a user of the counters and a source of announcements. *)

\* A changelog, its rest and what has been done of it name entries only.
ChangelogTypes ==
    /\ done \in [Intent -> Seq(Action)]
    /\ todo = [i \in Intent |-> todo[i]]
    /\ \A i \in Intent : Pending(i) \subseteq Action

LEMMA ChangelogsAreOfActions ==
  ASSUME NEW added, NEW removed, NEW n
  PROVE  BagToSet(Changelog(added, removed, n)) \subseteq Action
BY DEF Changelog, BagToSet

LEMMA EmptyBagIsOfActions == BagToSet(EmptyBag) \subseteq Action
BY DEF EmptyBag, SetToBag, BagToSet

LEMMA DifferenceIsOfActions ==
  ASSUME NEW b, BagToSet(b) \subseteq Action, NEW a
  PROVE  BagToSet(b (-) SetToBag({a})) \subseteq Action
BY DEF BagToSet, (-)

LEMMA ChangelogTypesInit == Init => ChangelogTypes
BY EmptyBagIsOfActions DEF Init, ChangelogTypes, Pending

\* Steps that leave the counters alone; the first two write a new changelog.
LEMMA NewChangelogs ==
  ASSUME ChangelogTypes, NEW i \in Intent, Alloc(i) \/ Load(i)
  PROVE  ChangelogTypes' /\ UNCHANGED counterVars
<1>1. /\ UNCHANGED <<counterVars, done>>
      /\ \/ UNCHANGED todo
         \/ \E added, removed, n : todo' = [todo EXCEPT ![i] = Changelog(added, removed, n)]
  BY DEF Alloc, Load
<1>2. \A j \in Intent : (Pending(j))' \subseteq Action
  BY <1>1, ChangelogsAreOfActions DEF ChangelogTypes, Pending
<1> QED
  BY <1>1, <1>2 DEF ChangelogTypes

LEMMA KeptChangelogs ==
  ASSUME ChangelogTypes, NEW i \in Intent,
         \/ \E r \in Request : BeginConfigure(i, r)
         \/ BeginDisable(i) \/ AllocRefused(i) \/ Store(i) \/ Drop(i) \/ Notify(i)
         \/ FreeNumber(i) \/ DeleteIntentLock(i) \/ UnlockIntent(i)
  PROVE  ChangelogTypes' /\ UNCHANGED counterVars
<1>1. /\ UNCHANGED <<counterVars, todo>>
      /\ done' = done \/ done' = [done EXCEPT ![i] = <<>>]
  BY DEF BeginConfigure, BeginDisable, AllocRefused, Store, Drop, Notify, FreeNumber,
         DeleteIntentLock, UnlockIntent, logVars
<1>2. done' \in [Intent -> Seq(Action)]
  <2>1. <<>> \in Seq(Action)
    OBVIOUS
  <2> QED
    BY <1>1, <2>1 DEF ChangelogTypes
<1> QED
  BY <1>1, <1>2 DEF ChangelogTypes, Pending

\* The steps that count: an action is on an entry.
LEMMA CommitCounts ==
  ASSUME ChangelogTypes, NEW i \in Intent, CommitStep(i)
  PROVE  ChangelogTypes' /\ CounterNext
<1>1. PICK a \in NextActions(i), ok \in BOOLEAN :
          /\ Apply(a[1], a[2], ok)
          /\ \/ /\ todo' = [todo EXCEPT ![i] = @ (-) SetToBag({a})]
                /\ done' = [done EXCEPT ![i] = Append(@, a)]
             \/ todo' = [todo EXCEPT ![i] = EmptyBag] /\ done' = done
  BY DEF CommitStep
<1>2. a \in Action
  BY DEF NextActions, ChangelogTypes
<1>3. CounterNext
  BY <1>1, <1>2, TablesAssumption DEF Action, Apply, CounterNext
<1>4. done' \in [Intent -> Seq(Action)]
  <2>1. done[i] \in Seq(Action)
    BY DEF ChangelogTypes
  <2>2. Append(done[i], a) \in Seq(Action)
    BY <1>2, <2>1
  <2> QED
    BY <1>1, <2>2 DEF ChangelogTypes
<1>5. todo' = [j \in Intent |-> todo'[j]]
  BY <1>1 DEF ChangelogTypes
<1>6. \A j \in Intent : (Pending(j))' \subseteq Action
  <2>1. ASSUME NEW j \in Intent, j # i PROVE (Pending(j))' \subseteq Action
    BY <1>1, <2>1 DEF ChangelogTypes, Pending
  <2>2. Pending(i) \subseteq Action
    BY DEF ChangelogTypes
  <2>3. (Pending(i))' \subseteq Action
    <3>1. todo'[i] = todo[i] (-) SetToBag({a}) \/ todo'[i] = EmptyBag
      BY <1>1 DEF ChangelogTypes
    <3>2. BagToSet(todo[i] (-) SetToBag({a})) \subseteq Action
      BY <2>2, DifferenceIsOfActions DEF Pending
    <3> QED
      BY <3>1, <3>2, EmptyBagIsOfActions DEF Pending
  <2> QED
    BY <2>1, <2>3
<1> QED
  BY <1>3, <1>4, <1>5, <1>6 DEF ChangelogTypes

LEMMA RollbackCounts ==
  ASSUME ChangelogTypes, NEW i \in Intent, RollbackStep(i)
  PROVE  ChangelogTypes' /\ CounterNext
<1> DEFINE a == done[i][Len(done[i])]
<1>1. /\ done[i] # <<>> /\ \E ok \in BOOLEAN : Apply(Undoing(a[1]), a[2], ok)
      /\ done' = [done EXCEPT ![i] = SubSeq(@, 1, Len(@) - 1)]
      /\ todo' = todo
  BY DEF RollbackStep
<1>2. done[i] \in Seq(Action) /\ Len(done[i]) \in Nat \ {0} /\ a \in Action
  BY <1>1 DEF ChangelogTypes
<1>3. CounterNext
  BY <1>1, <1>2, TablesAssumption DEF Action, Apply, CounterNext
<1>4. SubSeq(done[i], 1, Len(done[i]) - 1) \in Seq(Action)
  BY <1>2
<1> QED
  BY <1>1, <1>3, <1>4 DEF ChangelogTypes, Pending

\* Whatever is committed and rolled back, the service drives the counters as
\* they are meant to be: what is proved of them holds of it.
THEOREM ServiceUsesCounters == Spec => CounterSpec
<1>1. Init => ChangelogTypes /\ CounterInit
  BY ChangelogTypesInit DEF Init
<1>2. ASSUME ChangelogTypes, [Next]_vars
      PROVE  ChangelogTypes' /\ [CounterNext]_counterVars
  <2>1. CASE UNCHANGED vars
    BY <1>2, <2>1 DEF vars, logVars, ChangelogTypes, Pending
  <2>2. CASE Next
    BY <1>2, <2>2, NewChangelogs, KeptChangelogs, CommitCounts, RollbackCounts DEF Next, Step
  <2> QED
    BY <1>2, <2>1, <2>2
<1> QED
  BY <1>1, <1>2, PTL DEF Spec, CounterSpec

\* A table never holds more than the service believes, so the capacity it
\* announces is never too high.
THEOREM ServiceCapacityTheorem == Spec => []CapacityIsNeverOverstated
BY ServiceUsesCounters, CapacityTheorem, PTL

\* Where a failing call has no effect, the switches hold exactly what is counted
\* throughout all commits and rollbacks.
THEOREM ServiceInstallsWhatItCounts ==
  ASSUME "timeout" \notin FailureKinds
  PROVE  Spec => []InstalledIffCounted
BY ServiceUsesCounters, InstalledIffCountedTheorem, PTL

\* Counters change during commits and rollbacks only, and each ends with an
\* announcement of what is left then.
LastAnnouncementHolds ==
    \/ \E i \in Intent : pc[i] \in {"commit", "rollback"}
    \/ remaining = [d \in Device |-> Capacity - numEntries[<<"source", d>>]]

LEMMA AnnouncementStep ==
  ASSUME ServiceInv, LastAnnouncementHolds, [Next]_vars
  PROVE  LastAnnouncementHolds'
<1> USE DEF LastAnnouncementHolds
<1>1. CASE UNCHANGED vars
  BY <1>1 DEF vars, counterVars
<1>2. ASSUME NEW i \in Intent, CommitStep(i) \/ RollbackStep(i)
      PROVE  LastAnnouncementHolds'
  <2>1. pc'[i] \in {"commit", "rollback"}
    BY <1>2 DEF CommitStep, RollbackStep, GoTo, ServiceInv, ControlTypes
  <2> QED
    BY <2>1
<1>3. ASSUME NEW i \in Intent, Notify(i)
      PROVE  LastAnnouncementHolds'
  BY <1>3 DEF Notify, counterVars
<1>4. ASSUME NEW i \in Intent,
             \/ \E r \in Request : BeginConfigure(i, r)
             \/ BeginDisable(i) \/ Alloc(i) \/ AllocRefused(i) \/ Store(i) \/ Load(i) \/ Drop(i)
             \/ FreeNumber(i) \/ DeleteIntentLock(i) \/ UnlockIntent(i)
      PROVE  LastAnnouncementHolds'
  <2>1. /\ UNCHANGED <<counterVars, remaining>>
        /\ pc[i] \notin {"commit", "rollback"}
        /\ \A j \in Intent \ {i} : pc'[j] = pc[j]
    BY <1>4 DEF BeginConfigure, BeginDisable, Alloc, AllocRefused, Store, Load, Drop, FreeNumber,
                DeleteIntentLock, UnlockIntent, Start, Finish, GoTo, ServiceInv, ControlTypes
  <2> QED
    BY <2>1 DEF counterVars
<1> QED
  BY <1>1, <1>2, <1>3, <1>4 DEF Next, Step

\* Clients are told what is really left, or less by at most one for every call
\* that failed, whichever of several commits ends last.
THEOREM AnnouncementTheorem ==
  ASSUME "timeout" \notin FailureKinds
  PROVE  Spec => []AnnouncedCapacityIsReal
<1>1. Init => LastAnnouncementHolds
  <2> SUFFICES ASSUME Init PROVE remaining = [d \in Device |-> Capacity - numEntries[<<"source", d>>]]
    BY DEF LastAnnouncementHolds
  <2>1. \A d \in Device : numEntries[<<"source", d>>] = 0
    BY TablesAssumption DEF Init, CounterInit, Kind
  <2> QED
    BY <2>1, ServiceAssumption DEF Init
<1>2. ASSUME ServiceInv, CounterInv, LastAnnouncementHolds, CapacityIsLostByFailuresOnly
      PROVE  AnnouncedCapacityIsReal
  <2> SUFFICES ASSUME Quiescent, NEW d \in Device
               PROVE  LET left == Capacity - Cardinality({e \in installed : e.kind = "source" /\ e.dev = d})
                      IN remaining[d] \in left - failures .. left
    BY DEF AnnouncedCapacityIsReal
  <2> DEFINE t == <<"source", d>>
  <2>1. t \in Table
    BY TablesAssumption DEF Kind
  <2>2. HeldBy(t) = {e \in installed : e.kind = "source" /\ e.dev = d}
    BY <1>2, TablesAssumption DEF HeldBy, CounterInv
  <2>3. remaining[d] = Capacity - numEntries[t]
    BY <1>2 DEF LastAnnouncementHolds, Quiescent
  <2>4. /\ Cardinality(HeldBy(t)) <= numEntries[t]
        /\ numEntries[t] <= Cardinality(HeldBy(t)) + failures
        /\ numEntries[t] \in Int /\ failures \in Nat /\ Cardinality(HeldBy(t)) \in Nat
    BY <1>2, <2>1, HeldByIsFinite, CounterAssumption
       DEF CounterInv, CapacityIsNeverOverstated, CapacityIsLostByFailuresOnly
  <2>5. LET left == Capacity - Cardinality(HeldBy(t)) IN remaining[d] \in left - failures .. left
    BY <2>3, <2>4, ServiceAssumption
  <2> QED
    BY <2>2, <2>5, Zenon
<1>3. Spec => []CounterInv
  BY ServiceUsesCounters, CounterInvariance, PTL
<1>4. Spec => []CapacityIsLostByFailuresOnly
  BY ServiceUsesCounters, LossTheorem, PTL
<1>5. ServiceInv /\ LastAnnouncementHolds /\ [Next]_vars => LastAnnouncementHolds'
  BY AnnouncementStep
<1> QED
  BY <1>1, <1>2, <1>3, <1>4, <1>5, ServiceInvariance, PTL DEF Spec
-----------------------------------------------------------------------------
(***************************************************************************)
(* Sums over finite sets                                                   *)
(***************************************************************************)

\* A set of subsets that has a set whenever it has all its proper subsets, has
\* the whole set: a smallest set that is missing would not be.
LEMMA SubsetInduction ==
  ASSUME NEW S, IsFiniteSet(S), NEW Q,
         \A T \in SUBSET S : (\A U \in SUBSET T : U # T => U \in Q) => T \in Q
  PROVE  S \in Q
<1> DEFINE R == StrictSubsetOrdering(S)
           Missing == (SUBSET S) \ Q
<1> SUFFICES ASSUME S \notin Q PROVE FALSE
  OBVIOUS
<1>1. IsWellFoundedOn(R, SUBSET S)
  <2>1. FiniteSubsetsOf(S) = SUBSET S
    BY FS_FiniteSubsetsOfFinite, Zenon
  <2>2. IsWellFoundedOn(R, FiniteSubsetsOf(S))
    BY FS_StrictSubsetOrderingWellFounded, Zenon
  <2> QED
    BY <2>1, <2>2, Zenon
<1>2. Missing \subseteq SUBSET S /\ Missing # {}
  OBVIOUS
<1> HIDE DEF R
<1>3. \E T \in Missing : \A U \in Missing : <<U, T>> \notin R
  <2> HIDE DEF Missing
  <2> QED
    BY <1>1, <1>2, WFMin
<1>4. PICK T \in Missing : \A U \in Missing : <<U, T>> \notin R
  BY <1>3
<1>5. \A U \in SUBSET T : U # T => U \in Q
  BY <1>4 DEF R, StrictSubsetOrdering
<1> QED
  BY <1>4, <1>5

\* The recursive function that a sum over S stands for.
Some(s) == CHOOSE x \in s : TRUE

IsSummation(g, f, S) ==
    g = [s \in SUBSET S |-> IF s = {} THEN 0 ELSE f[Some(s)] + g[s \ {Some(s)}]]

Summation(f, S) == CHOOSE g : IsSummation(g, f, S)

LEMMA TotalIsSummation ==
  ASSUME NEW f, NEW S
  PROVE  Total(f, S) = Summation(f, S)[S]
BY DEF Total, SumFunctionOnSet, FoldFunctionOnSet, MapThenFoldSet, Summation, IsSummation, Some

LEMMA SomeIsMember ==
  ASSUME NEW s, s # {}
  PROVE  Some(s) \in s
BY DEF Some

LEMMA SummationsAgree ==
  ASSUME NEW f, NEW A, NEW B, NEW S, IsFiniteSet(S), S \subseteq A, S \subseteq B,
         NEW g, IsSummation(g, f, A), NEW h, IsSummation(h, f, B)
  PROVE  g[S] = h[S]
<1> DEFINE Q == {T \in SUBSET S : g[T] = h[T]}
<1>1. ASSUME NEW T \in SUBSET S, \A U \in SUBSET T : U # T => U \in Q
      PROVE  T \in Q
  <2>1. T \in SUBSET A /\ T \in SUBSET B
    OBVIOUS
  <2>2. CASE T = {}
    BY <2>1, <2>2 DEF IsSummation
  <2>3. CASE T # {}
    <3>1. T \ {Some(T)} \in Q
      BY <1>1, <2>3, SomeIsMember
    <3>2. g[T] = f[Some(T)] + g[T \ {Some(T)}]
      BY <2>1, <2>3 DEF IsSummation
    <3>3. h[T] = f[Some(T)] + h[T \ {Some(T)}]
      BY <2>1, <2>3 DEF IsSummation
    <3> QED
      BY <3>1, <3>2, <3>3
  <2> QED
    BY <2>2, <2>3
<1>2. S \in Q
  <2> HIDE DEF Q
  <2> QED
    BY <1>1, SubsetInduction
<1> QED
  BY <1>2

LEMMA SummationExists ==
  ASSUME NEW f, NEW S, IsFiniteSet(S)
  PROVE  IsSummation(Summation(f, S), f, S)
<1> DEFINE Q == {T \in SUBSET S : \E g : IsSummation(g, f, T)}
<1>1. ASSUME NEW T \in SUBSET S, \A U \in SUBSET T : U # T => U \in Q
      PROVE  T \in Q
  <2> DEFINE c == Some(T)
             g == [s \in SUBSET T |->
                      IF s # T THEN Summation(f, s)[s]
                      ELSE IF T = {} THEN 0 ELSE f[c] + Summation(f, T \ {c})[T \ {c}]]
  <2>1. ASSUME NEW s \in SUBSET T, s # T
        PROVE  IsSummation(Summation(f, s), f, s)
    BY <1>1, <2>1 DEF Summation
  <2>2. ASSUME NEW s \in SUBSET T, s # {}, s # T
        PROVE  g[s] = f[Some(s)] + g[s \ {Some(s)}]
    <3> DEFINE r == s \ {Some(s)}
    <3>1. r \in SUBSET T /\ r \subseteq s /\ r # T /\ r # s
      BY <2>2, SomeIsMember
    <3>2. IsFiniteSet(r)
      BY <3>1, FS_Subset
    <3>3. Summation(f, s)[s] = f[Some(s)] + Summation(f, s)[r]
      BY <2>1, <2>2 DEF IsSummation
    <3>4. Summation(f, s)[r] = Summation(f, r)[r]
      BY <2>1, <2>2, <3>1, <3>2, SummationsAgree
    <3> QED
      BY <2>2, <3>1, <3>3, <3>4
  <2>3. ASSUME T # {}
        PROVE  g[T] = f[c] + g[T \ {c}]
    BY <2>3, SomeIsMember
  <2>4. g[{}] = 0
    <3>1. CASE T = {}
      BY <3>1
    <3>2. CASE T # {}
      BY <2>1, <3>2 DEF IsSummation
    <3> QED
      BY <3>1, <3>2
  <2>5. IsSummation(g, f, T)
    <3>1. \A s \in SUBSET T : g[s] = IF s = {} THEN 0 ELSE f[Some(s)] + g[s \ {Some(s)}]
      <4> HIDE DEF g
      <4> QED
        BY <2>2, <2>3, <2>4
    <3> QED
      BY <3>1 DEF IsSummation
  <2> QED
    BY <2>5
<1>2. S \in Q
  <2> HIDE DEF Q
  <2> QED
    BY <1>1, SubsetInduction
<1> QED
  BY <1>2 DEF Summation

LEMMA TotalOfNothing ==
  ASSUME NEW f
  PROVE  Total(f, {}) = 0
<1>1. IsSummation(Summation(f, {}), f, {})
  BY FS_EmptySet, SummationExists
<1> QED
  BY <1>1, TotalIsSummation DEF IsSummation

LEMMA TotalUnfolds ==
  ASSUME NEW f, NEW S, IsFiniteSet(S), S # {}
  PROVE  Total(f, S) = f[Some(S)] + Total(f, S \ {Some(S)})
<1> DEFINE r == S \ {Some(S)}
<1>1. IsFiniteSet(r)
  BY FS_Subset
<1>2. IsSummation(Summation(f, S), f, S) /\ IsSummation(Summation(f, r), f, r)
  BY <1>1, SummationExists
<1>3. Summation(f, S)[S] = f[Some(S)] + Summation(f, S)[r]
  BY <1>2 DEF IsSummation
<1>4. Summation(f, S)[r] = Summation(f, r)[r]
  BY <1>1, <1>2, SummationsAgree
<1> QED
  BY <1>3, <1>4, TotalIsSummation

LEMMA TotalCongruence ==
  ASSUME NEW f, NEW g, NEW S, IsFiniteSet(S), \A x \in S : f[x] = g[x]
  PROVE  Total(f, S) = Total(g, S)
<1> DEFINE Q == {T \in SUBSET S : Total(f, T) = Total(g, T)}
<1>1. ASSUME NEW T \in SUBSET S, \A U \in SUBSET T : U # T => U \in Q
      PROVE  T \in Q
  <2>1. CASE T = {}
    BY <2>1, TotalOfNothing
  <2>2. CASE T # {}
    <3>1. Some(T) \in T /\ T \ {Some(T)} \in Q
      BY <1>1, <2>2, SomeIsMember
    <3>2. IsFiniteSet(T)
      BY FS_Subset
    <3> QED
      BY <2>2, <3>1, <3>2, TotalUnfolds
  <2> QED
    BY <2>1, <2>2
<1>2. S \in Q
  <2> HIDE DEF Q
  <2> QED
    BY <1>1, SubsetInduction
<1> QED
  BY <1>2

LEMMA TotalIsInteger ==
  ASSUME NEW f, NEW S, IsFiniteSet(S), \A x \in S : f[x] \in Int
  PROVE  Total(f, S) \in Int
<1> DEFINE Q == {T \in SUBSET S : Total(f, T) \in Int}
<1>1. ASSUME NEW T \in SUBSET S, \A U \in SUBSET T : U # T => U \in Q
      PROVE  T \in Q
  <2>1. CASE T = {}
    BY <2>1, TotalOfNothing
  <2>2. CASE T # {}
    <3>1. Some(T) \in T /\ T \ {Some(T)} \in Q
      BY <1>1, <2>2, SomeIsMember
    <3>2. IsFiniteSet(T)
      BY FS_Subset
    <3> QED
      BY <2>2, <3>1, <3>2, TotalUnfolds
  <2> QED
    BY <2>1, <2>2
<1>2. S \in Q
  <2> HIDE DEF Q
  <2> QED
    BY <1>1, SubsetInduction
<1> QED
  BY <1>2

\* A sum has any of its summands as the last one.
LEMMA TotalOfOneMore ==
  ASSUME NEW f, NEW S, IsFiniteSet(S), \A x \in S : f[x] \in Int, NEW a \in S
  PROVE  Total(f, S) = f[a] + Total(f, S \ {a})
<1> DEFINE Q == {T \in SUBSET S : \A x \in T : Total(f, T) = f[x] + Total(f, T \ {x})}
<1>1. ASSUME NEW T \in SUBSET S, \A U \in SUBSET T : U # T => U \in Q
      PROVE  T \in Q
  <2> SUFFICES ASSUME NEW x \in T
               PROVE  Total(f, T) = f[x] + Total(f, T \ {x})
    OBVIOUS
  <2> DEFINE c == Some(T)
             Tx == T \ {x}
             Tc == T \ {c}
             Rest == T \ {c, x}
  <2>1. c \in T /\ IsFiniteSet(T)
    BY SomeIsMember, FS_Subset
  <2>2. Total(f, T) = f[c] + Total(f, Tc)
    BY <2>1, TotalUnfolds
  <2>3. CASE x = c
    BY <2>2, <2>3
  <2>4. CASE x # c
    <3>1. Tc \in Q /\ Tx \in Q
      BY <1>1, <2>1
    <3>2. Tc \ {x} = Rest /\ Tx \ {c} = Rest /\ x \in Tc /\ c \in Tx
      BY <2>1, <2>4
    <3>3. Total(f, Tc) = f[x] + Total(f, Rest)
      BY <3>1, <3>2
    <3>4. Total(f, Tx) = f[c] + Total(f, Rest)
      BY <3>1, <3>2
    <3>5. f[x] \in Int /\ f[c] \in Int /\ Total(f, Rest) \in Int
      <4>1. IsFiniteSet(Rest) /\ \A y \in Rest : f[y] \in Int
        BY FS_Subset
      <4> QED
        BY <2>1, <4>1, TotalIsInteger
    <3> HIDE DEF c, Tx, Tc, Rest
    <3>6. Total(f, T) = f[x] + Total(f, Tx)
      BY <2>2, <3>3, <3>4, <3>5
    <3> QED
      BY <3>6 DEF Tx
  <2> QED
    BY <2>3, <2>4
<1>2. S \in Q
  <2> HIDE DEF Q
  <2> QED
    BY <1>1, SubsetInduction
<1> QED
  BY <1>2

\* One summand changes.
LEMMA TotalChanges ==
  ASSUME NEW f, NEW g, NEW S, IsFiniteSet(S), NEW a \in S,
         \A x \in S : f[x] \in Int /\ g[x] \in Int,
         \A x \in S \ {a} : g[x] = f[x]
  PROVE  Total(g, S) = Total(f, S) + (g[a] - f[a])
<1> DEFINE Rest == S \ {a}
<1>1. IsFiniteSet(Rest)
  BY FS_Subset
<1>2. Total(g, S) = g[a] + Total(g, Rest) /\ Total(f, S) = f[a] + Total(f, Rest)
  BY TotalOfOneMore
<1>3. Total(g, Rest) = Total(f, Rest)
  BY <1>1, TotalCongruence
<1>4. Total(f, Rest) \in Int /\ g[a] \in Int /\ f[a] \in Int
  BY <1>1, TotalIsInteger
<1> HIDE DEF Rest
<1> QED
  BY <1>2, <1>3, <1>4

\* A sum of naturals is one, and at least each of its summands.
LEMMA TotalIsNatural ==
  ASSUME NEW f, NEW S, IsFiniteSet(S), \A x \in S : f[x] \in Nat
  PROVE  Total(f, S) \in Nat
<1> DEFINE Q == {T \in SUBSET S : Total(f, T) \in Nat}
<1>1. ASSUME NEW T \in SUBSET S, \A U \in SUBSET T : U # T => U \in Q
      PROVE  T \in Q
  <2>1. CASE T = {}
    BY <2>1, TotalOfNothing
  <2>2. CASE T # {}
    <3>1. Some(T) \in T /\ T \ {Some(T)} \in Q
      BY <1>1, <2>2, SomeIsMember
    <3>2. IsFiniteSet(T)
      BY FS_Subset
    <3> QED
      BY <2>2, <3>1, <3>2, TotalUnfolds
  <2> QED
    BY <2>1, <2>2
<1>2. S \in Q
  <2> HIDE DEF Q
  <2> QED
    BY <1>1, SubsetInduction
<1> QED
  BY <1>2

LEMMA TotalBoundsSummands ==
  ASSUME NEW f, NEW S, IsFiniteSet(S), \A x \in S : f[x] \in Nat, NEW a \in S
  PROVE  f[a] <= Total(f, S)
<1>1. IsFiniteSet(S \ {a})
  BY FS_Subset
<1>2. Total(f, S) = f[a] + Total(f, S \ {a})
  BY TotalOfOneMore
<1>3. Total(f, S \ {a}) \in Nat
  BY <1>1, TotalIsNatural
<1> QED
  BY <1>2, <1>3

\* Sums over different sets that balance summand by summand, balance.
ValueAt(f, S, x) == IF x \in S THEN f[x] ELSE 0

LEMMA TotalsBalance ==
  ASSUME NEW S, IsFiniteSet(S),
         NEW a, NEW A, A \subseteq S, NEW b, NEW B, B \subseteq S,
         NEW c, NEW C, C \subseteq S, NEW d, NEW D, D \subseteq S,
         \A x \in A : a[x] \in Int, \A x \in B : b[x] \in Int,
         \A x \in C : c[x] \in Int, \A x \in D : d[x] \in Int,
         \A x \in S : ValueAt(a, A, x) + ValueAt(b, B, x) = ValueAt(c, C, x) + ValueAt(d, D, x)
  PROVE  Total(a, A) + Total(b, B) = Total(c, C) + Total(d, D)
<1> DEFINE P(T) == Total(a, A \cap T) + Total(b, B \cap T)
                   = Total(c, C \cap T) + Total(d, D \cap T)
           Q == {T \in SUBSET S : P(T)}
<1>0. ASSUME NEW f, NEW F, F \subseteq S, \A x \in F : f[x] \in Int,
             NEW T \in SUBSET S, NEW x \in T
      PROVE  /\ Total(f, F \cap T) = ValueAt(f, F, x) + Total(f, F \cap (T \ {x}))
             /\ Total(f, F \cap (T \ {x})) \in Int
             /\ ValueAt(f, F, x) \in Int
  <2>1. IsFiniteSet(F \cap T) /\ IsFiniteSet(F \cap (T \ {x}))
    BY FS_Subset
  <2>2. Total(f, F \cap (T \ {x})) \in Int /\ ValueAt(f, F, x) \in Int
    BY <1>0, <2>1, TotalIsInteger DEF ValueAt
  <2>3. CASE x \in F
    <3>1. F \cap (T \ {x}) = (F \cap T) \ {x} /\ x \in F \cap T
      BY <2>3
    <3>2. Total(f, F \cap T) = f[x] + Total(f, (F \cap T) \ {x})
      BY <1>0, <2>1, <3>1, TotalOfOneMore
    <3> QED
      BY <2>2, <2>3, <3>1, <3>2 DEF ValueAt
  <2>4. CASE x \notin F
    <3>1. F \cap T = F \cap (T \ {x})
      BY <2>4
    <3>2. Total(f, F \cap T) = Total(f, F \cap (T \ {x}))
      BY <3>1
    <3>3. ValueAt(f, F, x) = 0
      BY <2>4 DEF ValueAt
    <3> QED
      BY <2>2, <3>2, <3>3
  <2> QED
    BY <2>3, <2>4
<1>1. ASSUME NEW T \in SUBSET S, \A U \in SUBSET T : U # T => U \in Q
      PROVE  T \in Q
  <2>1. CASE T = {}
    <3>1. A \cap T = {} /\ B \cap T = {} /\ C \cap T = {} /\ D \cap T = {}
      BY <2>1
    <3> QED
      BY <3>1, TotalOfNothing
  <2>2. CASE T # {}
    <3>1. PICK x \in T : TRUE
      BY <2>2
    <3>2. P(T \ {x})
      BY <1>1, <3>1
    <3>3. /\ Total(a, A \cap T) = ValueAt(a, A, x) + Total(a, A \cap (T \ {x}))
          /\ Total(a, A \cap (T \ {x})) \in Int
          /\ ValueAt(a, A, x) \in Int
      BY <1>0
    <3>4. /\ Total(b, B \cap T) = ValueAt(b, B, x) + Total(b, B \cap (T \ {x}))
          /\ Total(b, B \cap (T \ {x})) \in Int
          /\ ValueAt(b, B, x) \in Int
      BY <1>0
    <3>5. /\ Total(c, C \cap T) = ValueAt(c, C, x) + Total(c, C \cap (T \ {x}))
          /\ Total(c, C \cap (T \ {x})) \in Int
          /\ ValueAt(c, C, x) \in Int
      BY <1>0
    <3>6. /\ Total(d, D \cap T) = ValueAt(d, D, x) + Total(d, D \cap (T \ {x}))
          /\ Total(d, D \cap (T \ {x})) \in Int
          /\ ValueAt(d, D, x) \in Int
      BY <1>0
    <3>7. ValueAt(a, A, x) + ValueAt(b, B, x) = ValueAt(c, C, x) + ValueAt(d, D, x)
      OBVIOUS
    <3>8. P(T)
      BY <3>2, <3>3, <3>4, <3>5, <3>6, <3>7
    <3> QED
      BY <3>8
  <2> QED
    BY <2>1, <2>2
<1>2. S \in Q
  <2> HIDE DEF Q
  <2> QED
    BY <1>1, SubsetInduction
<1>3. A \cap S = A /\ B \cap S = B /\ C \cap S = C /\ D \cap S = D
  OBVIOUS
<1>4. P(S)
  BY <1>2
<1> QED
  BY <1>3, <1>4
-----------------------------------------------------------------------------
(***************************************************************************)
(* Entities and their entries                                              *)
(***************************************************************************)

\* The edges of one device.
EdgesOf(d) == {s \in Edge : s[1] = d}

\* The occurrences of a config on the edges of a device that have configs.
SourcesOn(ents, d) == {s \in DOMAIN ents.sources : s[1] = d}
Uses(ents, d, c) == [s \in SourcesOn(ents, d) |-> ents.sources[s][c]]

LEMMA SourcesAreEdges ==
  ASSUME IsFiniteSet(Edge), NEW ents, IsEntities(ents), NEW d, NEW c \in Config
  PROVE  /\ SourcesOn(ents, d) \subseteq EdgesOf(d)
         /\ IsFiniteSet(SourcesOn(ents, d))
         /\ \A s \in SourcesOn(ents, d) : Uses(ents, d, c)[s] = ents.sources[s][c]
         /\ \A s \in SourcesOn(ents, d) : Uses(ents, d, c)[s] \in Nat
<1>1. SourcesOn(ents, d) \subseteq EdgesOf(d) /\ SourcesOn(ents, d) \subseteq Edge
  BY DEF IsEntities, SourcesOn, EdgesOf
<1> QED
  BY <1>1, FS_Subset DEF IsEntities, SourcesOn, Uses

LEMMA EntryKinds ==
  ASSUME NEW e \in TableEntry
  PROVE  /\ e.kind \in Kind
         /\ e.kind = "source" => e.key \in Config
BY DEF TableEntry, SinkEntry, ReportingEntry, TransitEntry, ActivateEntry, SourceEntry, Kind

LEMMA OccurrencesOfSource ==
  ASSUME NEW ents, NEW n, NEW e \in TableEntry, e.kind = "source"
  PROVE  Occurrences(ents, n, e) = Total(Uses(ents, e.dev, e.key), SourcesOn(ents, e.dev))
BY DEF Occurrences, Uses, SourcesOn

LEMMA OccurrencesOfReporting ==
  ASSUME NEW ents, NEW n, NEW e \in TableEntry, e.kind = "reporting"
  PROVE  Occurrences(ents, n, e) =
            IF e.key = n THEN Cardinality({s \in ents.sinks : s[1] = e.dev}) ELSE 0
BY DEF Occurrences

LEMMA OccurrencesOfOthers ==
  ASSUME NEW ents, NEW n, NEW e \in TableEntry
  PROVE  /\ e.kind = "sink" => Occurrences(ents, n, e) = IF <<e.dev, e.key>> \in ents.sinks THEN 1 ELSE 0
         /\ e.kind = "transit" => Occurrences(ents, n, e) = IF e.dev \in ents.transits THEN 1 ELSE 0
         /\ e.kind = "activate" => Occurrences(ents, n, e) =
               IF <<e.dev, e.key>> \in DOMAIN ents.sources THEN 1 ELSE 0
BY DEF Occurrences

LEMMA OccurrencesAreNatural ==
  ASSUME IsFiniteSet(Edge), NEW ents, IsEntities(ents), NEW n, NEW e \in TableEntry
  PROVE  Occurrences(ents, n, e) \in Nat
<1>1. CASE e.kind = "source"
  <2>1. e.key \in Config
    BY <1>1, EntryKinds
  <2>2. Total(Uses(ents, e.dev, e.key), SourcesOn(ents, e.dev)) \in Nat
    BY <2>1, SourcesAreEdges, TotalIsNatural
  <2> QED
    BY <1>1, <2>2, OccurrencesOfSource
<1>2. CASE e.kind = "reporting"
  <2> DEFINE S == {s \in ents.sinks : s[1] = e.dev}
  <2>1. S \subseteq Edge
    BY DEF IsEntities
  <2>2. Cardinality(S) \in Nat
    BY <2>1, FS_Subset, FS_CardinalityType
  <2> QED
    BY <1>2, <2>2, OccurrencesOfReporting
<1>3. CASE e.kind = "sink"
  <2>1. Occurrences(ents, n, e) = IF <<e.dev, e.key>> \in ents.sinks THEN 1 ELSE 0
    BY <1>3, OccurrencesOfOthers
  <2> QED
    BY <2>1
<1>4. CASE e.kind = "transit"
  <2>1. Occurrences(ents, n, e) = IF e.dev \in ents.transits THEN 1 ELSE 0
    BY <1>4, OccurrencesOfOthers
  <2> QED
    BY <2>1
<1>5. CASE e.kind = "activate"
  <2>1. Occurrences(ents, n, e) = IF <<e.dev, e.key>> \in DOMAIN ents.sources THEN 1 ELSE 0
    BY <1>5, OccurrencesOfOthers
  <2> QED
    BY <2>1
<1> QED
  BY <1>1, <1>2, <1>3, <1>4, <1>5, EntryKinds DEF Kind

LEMMA NothingHasNoEntries ==
  ASSUME NEW n, NEW e \in TableEntry
  PROVE  IsEntities(NoEntities) /\ Occurrences(NoEntities, n, e) = 0
<1>1. IsEntities(NoEntities)
  BY DEF NoEntities, IsEntities
<1>2. CASE e.kind = "source"
  <2>1. SourcesOn(NoEntities, e.dev) = {}
    BY DEF SourcesOn, NoEntities
  <2> QED
    BY <1>1, <1>2, <2>1, OccurrencesOfSource, TotalOfNothing
<1>3. CASE e.kind = "reporting"
  <2>1. {s \in NoEntities.sinks : s[1] = e.dev} = {}
    BY DEF NoEntities
  <2> QED
    BY <1>1, <1>3, <2>1, OccurrencesOfReporting, FS_EmptySet
<1>4. NoEntities.sinks = {} /\ NoEntities.transits = {} /\ DOMAIN NoEntities.sources = {}
  BY DEF NoEntities
<1>5. CASE e.kind = "sink"
  BY <1>1, <1>4, <1>5, OccurrencesOfOthers
<1>6. CASE e.kind = "transit"
  BY <1>1, <1>4, <1>6, OccurrencesOfOthers
<1>7. CASE e.kind = "activate"
  BY <1>1, <1>4, <1>7, OccurrencesOfOthers
<1> QED
  BY <1>1, <1>2, <1>3, <1>5, <1>6, <1>7, EntryKinds DEF Kind

LEMMA ConfigsMissing ==
  ASSUME NEW a \in [Config -> Nat], NEW b \in [Config -> Nat]
  PROVE  /\ ConfigsMissingFrom(a, b) \in [Config -> Nat]
         /\ \A c \in Config : ConfigsMissingFrom(a, b)[c] = IF b[c] > 0 THEN 0 ELSE a[c]
BY DEF ConfigsMissingFrom

\* The edges of a difference, and what it has on them.
ChangedEdges(a, b) ==
    {e \in DOMAIN a.sources \cap DOMAIN b.sources :
        HasConfigs(ConfigsMissingFrom(a.sources[e], b.sources[e]))}

LEMMA MissingParts ==
  ASSUME NEW a, IsEntities(a), NEW b, IsEntities(b)
  PROVE  LET m == MissingFrom(a, b)
         IN  /\ DOMAIN m.sources = (DOMAIN a.sources \ DOMAIN b.sources) \cup ChangedEdges(a, b)
             /\ \A e \in DOMAIN a.sources \ DOMAIN b.sources : m.sources[e] = a.sources[e]
             /\ \A e \in ChangedEdges(a, b) :
                   m.sources[e] = ConfigsMissingFrom(a.sources[e], b.sources[e])
             /\ m.transits = a.transits \ b.transits
             /\ m.sinks = a.sinks \ b.sinks
             /\ DOMAIN m = {"sources", "transits", "sinks"}
BY DEF MissingFrom, SourcesMissingFrom, ChangedEdges

LEMMA MissingIsEntities ==
  ASSUME NEW a, IsEntities(a), NEW b, IsEntities(b)
  PROVE  IsEntities(MissingFrom(a, b))
<1> DEFINE m == MissingFrom(a, b)
<1>1. /\ DOMAIN m.sources = (DOMAIN a.sources \ DOMAIN b.sources) \cup ChangedEdges(a, b)
      /\ \A e \in DOMAIN a.sources \ DOMAIN b.sources : m.sources[e] = a.sources[e]
      /\ \A e \in ChangedEdges(a, b) :
                   m.sources[e] = ConfigsMissingFrom(a.sources[e], b.sources[e])
      /\ m.transits = a.transits \ b.transits
      /\ m.sinks = a.sinks \ b.sinks
      /\ DOMAIN m = {"sources", "transits", "sinks"}
  BY MissingParts
<1> HIDE DEF m
<1>2. DOMAIN m.sources \subseteq Edge
  BY <1>1 DEF IsEntities, ChangedEdges
<1>3. ASSUME NEW e \in DOMAIN m.sources PROVE m.sources[e] \in [Config -> Nat]
  <2>1. CASE e \in DOMAIN a.sources \ DOMAIN b.sources
    BY <1>1, <2>1 DEF IsEntities
  <2>2. CASE e \in ChangedEdges(a, b)
    BY <1>1, <2>2, ConfigsMissing DEF IsEntities, ChangedEdges
  <2> QED
    BY <1>1, <2>1, <2>2
<1>4. m.transits \subseteq Device /\ m.sinks \subseteq Edge
  BY <1>1 DEF IsEntities
<1>5. IsEntities(m)
  BY <1>1, <1>2, <1>3, <1>4 DEF IsEntities
<1> QED
  BY <1>5 DEF m
\* Where the two states keep a common edge in the same use, no edge is in one
\* difference and not in the other.
LEMMA SameChangedEdges ==
  ASSUME NEW a, IsEntities(a), NEW b, IsEntities(b), KeepsItsEdges(a, b)
  PROVE  ChangedEdges(a, b) = ChangedEdges(b, a)
BY DEF ChangedEdges, KeepsItsEdges

LEMMA SourcesBalance ==
  ASSUME IsFiniteSet(Edge), NEW a, IsEntities(a), NEW b, IsEntities(b), KeepsItsEdges(a, b),
         NEW d, NEW c \in Config
  PROVE  LET added == MissingFrom(b, a)
             removed == MissingFrom(a, b)
         IN  /\ Total(Uses(added, d, c), SourcesOn(added, d)) + Total(Uses(a, d, c), SourcesOn(a, d))
                = Total(Uses(removed, d, c), SourcesOn(removed, d)) + Total(Uses(b, d, c), SourcesOn(b, d))
             /\ Total(Uses(removed, d, c), SourcesOn(removed, d))
                <= Total(Uses(a, d, c), SourcesOn(a, d))
<1> DEFINE added == MissingFrom(b, a)
           removed == MissingFrom(a, b)
           S == EdgesOf(d)
           At(m, x) == ValueAt(Uses(m, d, c), SourcesOn(m, d), x)
<1>1. IsEntities(added) /\ IsEntities(removed)
  BY MissingIsEntities
<1>2. IsFiniteSet(S)
  <2>1. S \subseteq Edge
    BY DEF EdgesOf
  <2> QED
    BY <2>1, FS_Subset
<1>3. ASSUME NEW m, IsEntities(m), NEW x \in S
      PROVE  At(m, x) = (IF x \in DOMAIN m.sources THEN m.sources[x][c] ELSE 0) /\ At(m, x) \in Nat
  BY <1>3 DEF ValueAt, SourcesOn, Uses, EdgesOf, IsEntities
<1>4. /\ DOMAIN added.sources = (DOMAIN b.sources \ DOMAIN a.sources) \cup ChangedEdges(b, a)
      /\ \A e \in DOMAIN b.sources \ DOMAIN a.sources : added.sources[e] = b.sources[e]
      /\ \A e \in ChangedEdges(b, a) : added.sources[e] = ConfigsMissingFrom(b.sources[e], a.sources[e])
  BY MissingParts
<1>5. /\ DOMAIN removed.sources = (DOMAIN a.sources \ DOMAIN b.sources) \cup ChangedEdges(a, b)
      /\ \A e \in DOMAIN a.sources \ DOMAIN b.sources : removed.sources[e] = a.sources[e]
      /\ \A e \in ChangedEdges(a, b) : removed.sources[e] = ConfigsMissingFrom(a.sources[e], b.sources[e])
  BY MissingParts
<1>6. ChangedEdges(a, b) = ChangedEdges(b, a)
  BY SameChangedEdges
<1>7. /\ \A x \in DOMAIN a.sources : a.sources[x] \in [Config -> Nat]
      /\ \A x \in DOMAIN b.sources : b.sources[x] \in [Config -> Nat]
  BY DEF IsEntities
<1> HIDE DEF added, removed
<1>8. ASSUME NEW x \in S
      PROVE  /\ At(added, x) + At(a, x) = At(removed, x) + At(b, x)
             /\ At(removed, x) <= At(a, x)
             /\ At(a, x) \in Nat /\ At(removed, x) \in Nat
  <2>1. CASE x \notin DOMAIN a.sources \/ x \notin DOMAIN b.sources
    <3>1. x \notin ChangedEdges(a, b) /\ x \notin ChangedEdges(b, a)
      BY <2>1 DEF ChangedEdges
    <3>2. /\ At(added, x) = (IF x \in DOMAIN added.sources THEN added.sources[x][c] ELSE 0) /\ At(added, x) \in Nat
          /\ At(removed, x) = (IF x \in DOMAIN removed.sources THEN removed.sources[x][c] ELSE 0)  /\ At(removed, x) \in Nat
          /\ At(a, x) = (IF x \in DOMAIN a.sources THEN a.sources[x][c] ELSE 0) /\ At(a, x) \in Nat
          /\ At(b, x) = (IF x \in DOMAIN b.sources THEN b.sources[x][c] ELSE 0) /\ At(b, x) \in Nat
      BY <1>1, <1>3
    <3> HIDE DEF At
    <3>3. CASE x \in DOMAIN a.sources
      <4>1. At(b, x) = 0 /\ At(added, x) = 0 /\ At(removed, x) = At(a, x)
        BY <1>4, <1>5, <2>1, <3>1, <3>2, <3>3
      <4> QED
        BY <3>2, <4>1
    <3>4. CASE x \notin DOMAIN a.sources
      <4>1. At(a, x) = 0 /\ At(removed, x) = 0 /\ At(added, x) = At(b, x)
        BY <1>4, <1>5, <2>1, <3>1, <3>2, <3>4
      <4> QED
        BY <3>2, <4>1
    <3> QED
      BY <3>3, <3>4
  <2>2. CASE x \in DOMAIN a.sources /\ x \in DOMAIN b.sources
    <3> DEFINE p == a.sources[x]
               q == b.sources[x]
    <3>1. p \in [Config -> Nat] /\ q \in [Config -> Nat]
      BY <1>7, <2>2
    <3>2. p[c] > 0 /\ q[c] > 0 => p[c] = q[c]
      BY <2>2 DEF KeepsItsEdges
    <3>3. At(a, x) = p[c] /\ At(b, x) = q[c] /\ p[c] \in Nat /\ q[c] \in Nat
      BY <1>3, <2>2, <3>1
    <3>4. CASE x \in ChangedEdges(a, b)
      <4>1. x \in DOMAIN added.sources /\ x \in DOMAIN removed.sources
        BY <1>4, <1>5, <1>6, <3>4
      <4>2. added.sources[x] = ConfigsMissingFrom(q, p) /\ removed.sources[x] = ConfigsMissingFrom(p, q)
        BY <1>4, <1>5, <1>6, <3>4
      <4>3. At(added, x) = added.sources[x][c] /\ At(removed, x) = removed.sources[x][c]
        BY <1>1, <1>3, <4>1
      <4> HIDE DEF p, q, At
      <4>4. /\ At(added, x) = IF p[c] > 0 THEN 0 ELSE q[c]
            /\ At(removed, x) = IF q[c] > 0 THEN 0 ELSE p[c]
        BY <3>1, <4>2, <4>3, ConfigsMissing
      <4> QED
        BY <3>2, <3>3, <4>4
    <3>5. CASE x \notin ChangedEdges(a, b)
      <4>1. x \notin DOMAIN added.sources /\ x \notin DOMAIN removed.sources
        BY <1>4, <1>5, <1>6, <2>2, <3>5
      <4>2. At(added, x) = 0 /\ At(removed, x) = 0
        BY <1>1, <1>3, <4>1
      <4>3. ~HasConfigs(ConfigsMissingFrom(p, q)) /\ ~HasConfigs(ConfigsMissingFrom(q, p))
        BY <1>6, <2>2, <3>5 DEF ChangedEdges
      <4> HIDE DEF p, q, At
      <4>4. (q[c] > 0 \/ ~(p[c] > 0)) /\ (p[c] > 0 \/ ~(q[c] > 0))
        BY <3>1, <4>3, ConfigsMissing DEF HasConfigs
      <4> QED
        BY <3>2, <3>3, <4>2, <4>4
    <3> QED
      BY <3>4, <3>5
  <2> QED
    BY <2>1, <2>2
<1>9. ASSUME NEW m, IsEntities(m)
      PROVE  /\ SourcesOn(m, d) \subseteq S
             /\ \A x \in SourcesOn(m, d) : Uses(m, d, c)[x] \in Nat
             /\ Total(Uses(m, d, c), SourcesOn(m, d)) \in Nat
  BY <1>9, SourcesAreEdges, TotalIsNatural
<1>10. Total(Uses(added, d, c), SourcesOn(added, d)) + Total(Uses(a, d, c), SourcesOn(a, d))
       = Total(Uses(removed, d, c), SourcesOn(removed, d)) + Total(Uses(b, d, c), SourcesOn(b, d))
  <2>1. \A x \in S : At(added, x) + At(a, x) = At(removed, x) + At(b, x)
    BY <1>8
  <2> HIDE DEF S
  <2> QED
    BY <1>1, <1>2, <1>9, <2>1, TotalsBalance
<1>11. Total(Uses(removed, d, c), SourcesOn(removed, d)) <= Total(Uses(a, d, c), SourcesOn(a, d))
  <2> DEFINE kept == [x \in S |-> At(a, x) - At(removed, x)]
             zero == [x \in {} |-> 0]
  <2>1. \A x \in S : kept[x] \in Nat
    BY <1>8
  <2>2. \A x \in S : At(removed, x) + ValueAt(kept, S, x) = At(a, x) + ValueAt(zero, {}, x)
    BY <1>8 DEF ValueAt
  <2>3. Total(kept, S) \in Nat
    BY <1>2, <2>1, TotalIsNatural
  <2>4. Total(Uses(removed, d, c), SourcesOn(removed, d)) + Total(kept, S)
        = Total(Uses(a, d, c), SourcesOn(a, d)) + Total(zero, {})
    <3> HIDE DEF S, kept, zero
    <3> QED
      BY <1>1, <1>2, <1>9, <2>1, <2>2, TotalsBalance
  <2>5. Total(zero, {}) = 0
    BY TotalOfNothing
  <2> HIDE DEF kept, zero
  <2> QED
    BY <1>1, <1>9, <2>3, <2>4, <2>5
<1> QED
  BY <1>10, <1>11 DEF added, removed
LEMMA SinksBalance ==
  ASSUME IsFiniteSet(Edge), NEW A, A \subseteq Edge, NEW B, B \subseteq Edge, NEW d
  PROVE  LET On(X) == Cardinality({s \in X : s[1] = d})
         IN  /\ On(B \ A) + On(A) = On(A \ B) + On(B)
             /\ On(A \ B) <= On(A)
<1> DEFINE P == {s \in A : s[1] = d}
           Q == {s \in B : s[1] = d}
<1>1. {s \in B \ A : s[1] = d} = Q \ P /\ {s \in A \ B : s[1] = d} = P \ Q
  OBVIOUS
<1>2. IsFiniteSet(P) /\ IsFiniteSet(Q)
  BY FS_Subset
<1>3. P \cap Q = Q \cap P
  OBVIOUS
<1> HIDE DEF P, Q
<1>4. Cardinality(Q \ P) = Cardinality(Q) - Cardinality(Q \cap P)
  BY <1>2, FS_Difference
<1>5. Cardinality(P \ Q) = Cardinality(P) - Cardinality(P \cap Q)
  BY <1>2, FS_Difference
<1>6. Cardinality(P) \in Nat /\ Cardinality(Q) \in Nat /\ Cardinality(P \cap Q) \in Nat
  BY <1>2, FS_Intersection, FS_CardinalityType
<1>7. /\ Cardinality(Q \ P) + Cardinality(P) = Cardinality(P \ Q) + Cardinality(Q)
      /\ Cardinality(P \ Q) <= Cardinality(P)
  BY <1>3, <1>4, <1>5, <1>6
<1> QED
  BY <1>1, <1>7 DEF P, Q

\* What a reconfiguration adds and removes makes up for the difference of what
\* the intent needs before and after it, and it removes nothing that was not
\* needed before.
THEOREM DifferencesBalance ==
  ASSUME IsFiniteSet(Edge), NEW a, IsEntities(a), NEW b, IsEntities(b), KeepsItsEdges(a, b),
         NEW n, NEW e \in TableEntry
  PROVE  LET diff == computeDifferences(a, b)
         IN  /\ Occurrences(diff.added, n, e) + Occurrences(a, n, e)
                = Occurrences(diff.removed, n, e) + Occurrences(b, n, e)
             /\ Occurrences(diff.removed, n, e) <= Occurrences(a, n, e)
             /\ IsEntities(diff.added) /\ IsEntities(diff.removed)
<1> DEFINE added == MissingFrom(b, a)
           removed == MissingFrom(a, b)
           At(m) == Occurrences(m, n, e)
<1>1. computeDifferences(a, b).added = added /\ computeDifferences(a, b).removed = removed
  BY DEF computeDifferences
<1>2. IsEntities(added) /\ IsEntities(removed)
  BY MissingIsEntities
<1>3. /\ DOMAIN added.sources = (DOMAIN b.sources \ DOMAIN a.sources) \cup ChangedEdges(b, a)
      /\ added.sinks = b.sinks \ a.sinks
      /\ added.transits = b.transits \ a.transits
  BY MissingParts
<1>4. /\ DOMAIN removed.sources = (DOMAIN a.sources \ DOMAIN b.sources) \cup ChangedEdges(a, b)
      /\ removed.sinks = a.sinks \ b.sinks
      /\ removed.transits = a.transits \ b.transits
  BY MissingParts
<1>5. ChangedEdges(a, b) = ChangedEdges(b, a) /\ ChangedEdges(a, b) \subseteq DOMAIN a.sources \cap DOMAIN b.sources
  BY SameChangedEdges DEF ChangedEdges
<1> HIDE DEF added, removed
<1>6. At(added) + At(a) = At(removed) + At(b) /\ At(removed) <= At(a)
  <2>1. CASE e.kind = "source"
    <3>1. e.key \in Config
      BY <2>1, EntryKinds
    <3>2. ASSUME NEW m PROVE At(m) = Total(Uses(m, e.dev, e.key), SourcesOn(m, e.dev))
      BY <2>1, OccurrencesOfSource
    <3> HIDE DEF At
    <3> QED
      BY <3>1, <3>2, SourcesBalance DEF added, removed
  <2>2. CASE e.kind = "reporting"
    <3> DEFINE On(X) == Cardinality({s \in X : s[1] = e.dev})
    <3>1. ASSUME NEW m PROVE At(m) = IF e.key = n THEN On(m.sinks) ELSE 0
      BY <2>2, OccurrencesOfReporting
    <3>2. /\ On(added.sinks) + On(a.sinks) = On(removed.sinks) + On(b.sinks)
          /\ On(removed.sinks) <= On(a.sinks)
      <4>1. a.sinks \subseteq Edge /\ b.sinks \subseteq Edge
        BY DEF IsEntities
      <4> DEFINE A == a.sinks
                 B == b.sinks
                 d == e.dev
      <4>2. A \subseteq Edge /\ B \subseteq Edge
        BY <4>1
      <4> HIDE DEF A, B, d
      <4>3. /\ Cardinality({s \in B \ A : s[1] = d}) + Cardinality({s \in A : s[1] = d})
               = Cardinality({s \in A \ B : s[1] = d}) + Cardinality({s \in B : s[1] = d})
            /\ Cardinality({s \in A \ B : s[1] = d}) <= Cardinality({s \in A : s[1] = d})
        BY <4>2, SinksBalance
      <4> QED
        BY <1>3, <1>4, <4>3 DEF A, B, d
    <3> HIDE DEF At, On
    <3> QED
      BY <3>1, <3>2
  <2>3. CASE e.kind = "sink"
    <3>1. ASSUME NEW m PROVE At(m) = IF <<e.dev, e.key>> \in m.sinks THEN 1 ELSE 0
      BY <2>3, OccurrencesOfOthers
    <3> HIDE DEF At
    <3> QED
      BY <1>3, <1>4, <3>1
  <2>4. CASE e.kind = "transit"
    <3>1. ASSUME NEW m PROVE At(m) = IF e.dev \in m.transits THEN 1 ELSE 0
      BY <2>4, OccurrencesOfOthers
    <3> HIDE DEF At
    <3> QED
      BY <1>3, <1>4, <3>1
  <2>5. CASE e.kind = "activate"
    <3>1. ASSUME NEW m PROVE At(m) = IF <<e.dev, e.key>> \in DOMAIN m.sources THEN 1 ELSE 0
      BY <2>5, OccurrencesOfOthers
    <3> HIDE DEF At
    <3> QED
      BY <1>3, <1>4, <1>5, <3>1
  <2> QED
    BY <2>1, <2>2, <2>3, <2>4, <2>5, EntryKinds DEF Kind
<1> QED
  BY <1>1, <1>2, <1>6
-----------------------------------------------------------------------------
(***************************************************************************)
(* The counts and the intents                                              *)
(***************************************************************************)


\* What the counts need to be right: a failing call changes nothing, and requests
\* change edges as a whole.
CountingConditions ==
    /\ IsFiniteSet(Intent) /\ IsFiniteSet(Edge)
    /\ "timeout" \notin FailureKinds
    /\ RequestsAreBalanced

\* They need this too: a call that fails while a commit is undone is only
\* reported (changelog.go), and what it should have undone stays counted.
RollbackFails == \E i \in Intent : RollbackStep(i) /\ failures' # failures

\* Occurrences of an action in what has been done, and in what is left to do.
Count(s, a) == Cardinality({k \in DOMAIN s : s[k] = a})
Times(i, op, e) == Count(done[i], <<op, e>>)
Copies(a, B) == IF a \in DOMAIN B THEN B[a] ELSE 0
ToDo(i, op, e) == Copies(<<op, e>>, todo[i])

\* The number an intent holds; what it needs of an entry as it is stored, and as
\* it will be stored if the request under way succeeds.
NumbersOf(i) == {n \in Number : i \in intents[n]}
Held(i) == CHOOSE n : n \in NumbersOf(i)
Before(i, e) == IF Configured(i) THEN Occurrences(EntitiesOf[intentState[i]], Held(i), e) ELSE 0
After(i, e) ==
    IF job[i] = "configure" THEN Occurrences(EntitiesOf[request[i]], Held(i), e) ELSE 0

\* The part of a count that is due to one intent.
Share(i, e) ==
    IF pc[i] \in {"store", "drop"} THEN After(i, e)
    ELSE Before(i, e) + Times(i, "create", e) - Times(i, "delete", e)

CountsAddUp ==
    \A e \in TableEntry : counter[e] = Total([i \in Intent |-> Share(i, e)], Intent)

\* A commit has still to do what leads from the share of now to that of the end,
\* and it deletes nothing that was not there before.
CommitProgress(i) ==
    /\ ~failed[i] /\ IsABag(todo[i])
    /\ \A e \in TableEntry :
          /\ Share(i, e) + ToDo(i, "create", e) = After(i, e) + ToDo(i, "delete", e)
          /\ Times(i, "delete", e) + ToDo(i, "delete", e) <= Before(i, e)

RollbackProgress(i) ==
    /\ failed[i] /\ failures > 0
    /\ \A e \in TableEntry : Times(i, "delete", e) <= Before(i, e)

Progress(i) ==
    /\ pc[i] \notin {"commit", "rollback"} => done[i] = <<>>
    /\ pc[i] \in {"alloc", "load"} => ~failed[i]
    /\ pc[i] = "commit" => CommitProgress(i)
    /\ pc[i] = "rollback" => RollbackProgress(i)

OwnRequests ==
    \A i \in Intent :
        /\ Configured(i) => intentState[i].intent = i
        /\ request[i] # NoState => request[i].intent = i

CountsInv == OwnRequests /\ CountsAddUp /\ \A i \in Intent : Progress(i)

\* What else is known of a state.
Known ==
    /\ CountingConditions
    /\ ServiceInv /\ ChangelogTypes /\ CounterInv /\ InstalledIffCounted
-----------------------------------------------------------------------------
LEMMA CountIsNatural ==
  ASSUME NEW A, NEW s \in Seq(A), NEW a
  PROVE  Count(s, a) \in Nat /\ IsFiniteSet({k \in DOMAIN s : s[k] = a})
<1>1. DOMAIN s = 1 .. Len(s) /\ Len(s) \in Nat
  OBVIOUS
<1>2. {k \in DOMAIN s : s[k] = a} \subseteq 1 .. Len(s)
  BY <1>1
<1>3. IsFiniteSet(1 .. Len(s))
  BY <1>1, FS_Interval
<1> QED
  BY <1>2, <1>3, FS_Subset, FS_CardinalityType DEF Count

LEMMA CountOfNothing ==
  ASSUME NEW a
  PROVE  Count(<<>>, a) = 0
<1>1. {k \in DOMAIN <<>> : <<>>[k] = a} = {}
  OBVIOUS
<1> QED
  BY <1>1, FS_EmptySet DEF Count

LEMMA CountOfOneMore ==
  ASSUME NEW A, NEW s \in Seq(A), NEW x \in A, NEW a
  PROVE  Count(Append(s, x), a) = Count(s, a) + (IF x = a THEN 1 ELSE 0)
<1> DEFINE S == {k \in DOMAIN s : s[k] = a}
           t == Append(s, x)
           T == {k \in DOMAIN t : t[k] = a}
           m == Len(s) + 1
<1>1. /\ DOMAIN s = 1 .. Len(s) /\ DOMAIN t = 1 .. m /\ Len(s) \in Nat
      /\ t[m] = x /\ \A k \in 1 .. Len(s) : t[k] = s[k]
  OBVIOUS
<1>2. IsFiniteSet(S) /\ Cardinality(S) \in Nat /\ m \notin S
  <2>1. m \notin S
    BY <1>1
  <2>2. IsFiniteSet(S)
    BY CountIsNatural
  <2> HIDE DEF S
  <2> QED
    BY <2>1, <2>2, FS_CardinalityType
<1> HIDE DEF t
<1>3. CASE x = a
  <2>1. T = S \cup {m}
    BY <1>1, <1>3
  <2> HIDE DEF S, T
  <2>2. Cardinality(T) = Cardinality(S) + 1
    BY <1>2, <2>1, FS_AddElement
  <2> QED
    BY <1>3, <2>2 DEF Count, S, T, t
<1>4. CASE x # a
  <2>1. T = S
    BY <1>1, <1>4
  <2> HIDE DEF S, T
  <2>2. Cardinality(T) = Cardinality(S) + 0
    BY <1>2, <2>1
  <2> QED
    BY <1>4, <2>2 DEF Count, S, T, t
<1> QED
  BY <1>3, <1>4

LEMMA CountOfOneLess ==
  ASSUME NEW A, NEW s \in Seq(A), s # <<>>, NEW a
  PROVE  Count(s, a) = Count(SubSeq(s, 1, Len(s) - 1), a) + (IF s[Len(s)] = a THEN 1 ELSE 0)
<1> DEFINE t == SubSeq(s, 1, Len(s) - 1)
<1>1. t \in Seq(A) /\ s[Len(s)] \in A
  OBVIOUS
<1>2. s = Append(t, s[Len(s)])
  OBVIOUS
<1> HIDE DEF t
<1>3. Count(Append(t, s[Len(s)]), a) = Count(t, a) + (IF s[Len(s)] = a THEN 1 ELSE 0)
  BY <1>1, CountOfOneMore
<1> QED
  BY <1>2, <1>3 DEF t

LEMMA CopiesAreNatural ==
  ASSUME NEW B, IsABag(B), NEW a
  PROVE  Copies(a, B) \in Nat /\ (a \in BagToSet(B) <=> Copies(a, B) > 0)
BY DEF IsABag, Copies, BagToSet

LEMMA CopiesOfOneLess ==
  ASSUME NEW B, IsABag(B), NEW x \in BagToSet(B)
  PROVE  /\ IsABag(B (-) SetToBag({x}))
         /\ \A a : Copies(a, B) = Copies(a, B (-) SetToBag({x})) + (IF x = a THEN 1 ELSE 0)
<1> DEFINE D == [e \in DOMAIN B |-> IF e \in {x} THEN B[e] - 1 ELSE B[e]]
           R == [e \in {d \in DOMAIN D : D[d] > 0} |-> D[e]]
<1>1. B (-) SetToBag({x}) = R
  BY DEF (-), SetToBag
<1>2. \A e \in DOMAIN B : B[e] \in Nat /\ B[e] > 0
  BY DEF IsABag
<1>3. \A e \in DOMAIN D : D[e] \in Nat
  BY <1>2
<1>4. IsABag(R)
  BY <1>3 DEF IsABag
<1>5. ASSUME NEW a PROVE Copies(a, B) = Copies(a, R) + (IF x = a THEN 1 ELSE 0)
  BY <1>2 DEF Copies, BagToSet
<1> QED
  BY <1>1, <1>4, <1>5

\* A changelog has its entries as often as the entities need them.
LEMMA ChangelogCopies ==
  ASSUME IsFiniteSet(Edge), NEW p, IsEntities(p), NEW q, IsEntities(q), NEW n
  PROVE  /\ IsABag(Changelog(p, q, n))
         /\ \A e \in TableEntry :
               /\ Copies(<<"create", e>>, Changelog(p, q, n)) = Occurrences(p, n, e)
               /\ Copies(<<"delete", e>>, Changelog(p, q, n)) = Occurrences(q, n, e)
<1> DEFINE times(a) == IF a[1] = "create" THEN Occurrences(p, n, a[2]) ELSE Occurrences(q, n, a[2])
           L == [a \in {b \in Action : times(b) > 0} |-> times(a)]
<1>1. \A a \in Action : times(a) \in Nat
  BY OccurrencesAreNatural DEF Action
<1>2. Changelog(p, q, n) = L
  BY DEF Changelog, EntriesFor, Action
<1> HIDE DEF times
<1>3. IsABag(L)
  BY <1>1 DEF IsABag
<1>4. ASSUME NEW a \in Action PROVE Copies(a, L) = times(a)
  BY <1>1 DEF Copies, BagToSet
<1> HIDE DEF L
<1>5. ASSUME NEW e \in TableEntry
      PROVE  /\ Copies(<<"create", e>>, L) = Occurrences(p, n, e)
             /\ Copies(<<"delete", e>>, L) = Occurrences(q, n, e)
  <2>1. <<"create", e>> \in Action /\ <<"delete", e>> \in Action
    BY DEF Action
  <2> QED
    BY <1>4, <2>1 DEF times
<1> QED
  BY <1>2, <1>3, <1>5
-----------------------------------------------------------------------------
(* The shares *)

LEMMA HeldIs ==
  \A i \in Intent, n \in Number :
      ServiceInv /\ i \in intents[n] => NumbersOf(i) = {n} /\ Held(i) = n
<1> SUFFICES ASSUME NEW i \in Intent, NEW n \in Number, ServiceInv, i \in intents[n]
             PROVE  NumbersOf(i) = {n} /\ Held(i) = n
  OBVIOUS
<1>1. IsHolder(i) /\ \A m \in Number : i \in intents[m] => collectionId[m] = CollectionOf(i)
  BY DEF ServiceInv, AllocationOf
<1>2. CollectionOf(i) # NoCollection
  BY <1>1, RequestsHaveCollections
     DEF ServiceInv, ControlTypes, ControlOf, IsHolder, CollectionOf, Configured
<1>3. NumbersOf(i) = {n}
  BY <1>1, <1>2 DEF ServiceInv, NumbersAreUnique, NumbersOf
<1> QED
  BY <1>3 DEF Held

LEMMA HeldIsNext ==
  \A i \in Intent, n \in Number :
      ServiceInv' /\ i \in intents'[n] => NumbersOf(i)' = {n} /\ Held(i)' = n
<1>1. (\A i \in Intent, n \in Number :
           ServiceInv /\ i \in intents[n] => NumbersOf(i) = {n} /\ Held(i) = n)'
  BY HeldIs, PTL
<1> QED
  BY <1>1

LEMMA EntitiesOfRequests ==
  ASSUME NEW r \in Request
  PROVE  IsEntities(EntitiesOf[r])
BY ServiceAssumption DEF EntitiesOf

LEMMA NeedsAreBefore ==
  ASSUME ServiceInv, NEW i \in Intent, NEW e \in TableEntry
  PROVE  Needs(i, e) = Before(i, e)
<1>1. CASE ~Configured(i)
  BY <1>1 DEF Needs, Before
<1>2. CASE Configured(i)
  <2>1. PICK n \in Number : Allocated(i, n, intentState[i].collectionId)
    BY <1>2 DEF ServiceInv, AllocationOf, IsHolder, CollectionOf
  <2>2. NumbersOf(i) = {n} /\ Held(i) = n
    BY <2>1, HeldIs DEF Allocated
  <2>3. \A m \in Number : Allocated(i, m, intentState[i].collectionId) => m = n
    BY <2>2 DEF Allocated, NumbersOf
  <2>4. NumberOf(i) = n
    BY <2>1, <2>3 DEF NumberOf
  <2> QED
    BY <1>2, <2>2, <2>4 DEF Needs, Before
<1> QED
  BY <1>1, <1>2

LEMMA SharesAreNatural ==
  ASSUME Known, NEW i \in Intent, Progress(i), NEW e \in TableEntry
  PROVE  /\ Before(i, e) \in Nat
         /\ Times(i, "create", e) \in Nat /\ Times(i, "delete", e) \in Nat
         /\ pc[i] \in {"commit", "store", "drop"} => After(i, e) \in Nat
         /\ Share(i, e) \in Nat
         /\ pc[i] \notin {"commit", "rollback", "store", "drop"} => Share(i, e) = Before(i, e)
<1>1. Before(i, e) \in Nat
  <2>1. Configured(i) => intentState[i] \in Request
    BY DEF Known, ServiceInv, ControlTypes, Configured
  <2> QED
    BY <2>1, EntitiesOfRequests, OccurrencesAreNatural DEF Before, Known, CountingConditions
<1>2. Times(i, "create", e) \in Nat /\ Times(i, "delete", e) \in Nat
  BY CountIsNatural DEF Known, ChangelogTypes, Times
<1>3. pc[i] \in {"commit", "store", "drop"} => After(i, e) \in Nat
  <2>1. pc[i] \in {"commit", "store"} => request[i] \in Request
    BY DEF Known, ServiceInv, ControlOf
  <2>2. pc[i] = "drop" => job[i] # "configure"
    BY DEF Known, ServiceInv, ControlOf
  <2> QED
    BY <2>1, <2>2, EntitiesOfRequests, OccurrencesAreNatural DEF After, Known, CountingConditions
<1>4. pc[i] \notin {"commit", "rollback"} => Times(i, "create", e) = 0 /\ Times(i, "delete", e) = 0
  BY CountOfNothing DEF Progress, Times
<1>5. pc[i] \in {"commit", "rollback"} => Times(i, "delete", e) <= Before(i, e)
  <2>1. pc[i] = "commit" => ToDo(i, "delete", e) \in Nat
    BY CopiesAreNatural DEF Progress, CommitProgress, ToDo
  <2>2. pc[i] = "commit" => Times(i, "delete", e) + ToDo(i, "delete", e) <= Before(i, e)
    BY DEF Progress, CommitProgress
  <2>3. pc[i] = "rollback" => Times(i, "delete", e) <= Before(i, e)
    BY DEF Progress, RollbackProgress
  <2> QED
    BY <1>1, <1>2, <2>1, <2>2, <2>3
<1> QED
  BY <1>1, <1>2, <1>3, <1>4, <1>5 DEF Share

LEMMA OthersKeepTheirShare ==
  ASSUME NEW j \in Intent, NumbersOf(j)' = NumbersOf(j),
         pc'[j] = pc[j], job'[j] = job[j], intentState'[j] = intentState[j],
         request'[j] = request[j], done'[j] = done[j]
  PROVE  \A e \in TableEntry :
             /\ Share(j, e)' = Share(j, e) /\ Before(j, e)' = Before(j, e)
             /\ After(j, e)' = After(j, e)
<1>1. Held(j)' = Held(j)
  BY DEF Held
<1>2. \A e \in TableEntry : Before(j, e)' = Before(j, e) /\ After(j, e)' = After(j, e)
  BY <1>1 DEF Before, After, Configured
<1> QED
  BY <1>2 DEF Share, Times

LEMMA OthersKeepTheirProgress ==
  ASSUME NEW j \in Intent, Progress(j), NumbersOf(j)' = NumbersOf(j),
         pc'[j] = pc[j], job'[j] = job[j], intentState'[j] = intentState[j],
         request'[j] = request[j], done'[j] = done[j], todo'[j] = todo[j],
         failed'[j] = failed[j], failures \in Nat, failures' \in Nat, failures' >= failures
  PROVE  Progress(j)'
<1>1. \A e \in TableEntry :
             /\ Share(j, e)' = Share(j, e) /\ Before(j, e)' = Before(j, e)
             /\ After(j, e)' = After(j, e)
  BY OthersKeepTheirShare
<1>2. CommitProgress(j) => CommitProgress(j)'
  BY <1>1 DEF CommitProgress, Times, ToDo
<1>3. RollbackProgress(j) => RollbackProgress(j)'
  BY <1>1 DEF RollbackProgress, Times
<1> QED
  BY <1>2, <1>3 DEF Progress

LEMMA CountsKeepAddingUp ==
  ASSUME IsFiniteSet(Intent), CountsAddUp, NEW i \in Intent,
         \A j \in Intent, e \in TableEntry : Share(j, e) \in Int,
         \A e \in TableEntry : Share(i, e)' \in Int,
         \A j \in Intent \ {i}, e \in TableEntry : Share(j, e)' = Share(j, e),
         \A e \in TableEntry : counter'[e] = counter[e] + (Share(i, e)' - Share(i, e))
  PROVE  CountsAddUp'
<1> SUFFICES ASSUME NEW e \in TableEntry
             PROVE  counter'[e] = Total([j \in Intent |-> Share(j, e)'], Intent)
  BY DEF CountsAddUp
<1> DEFINE f == [j \in Intent |-> Share(j, e)]
           g == [j \in Intent |-> Share(j, e)']
<1>1. /\ \A j \in Intent : f[j] \in Int /\ g[j] \in Int
      /\ \A j \in Intent \ {i} : g[j] = f[j]
      /\ g[i] = Share(i, e)' /\ f[i] = Share(i, e)
  OBVIOUS
<1>2. counter[e] = Total(f, Intent)
  BY DEF CountsAddUp
<1> HIDE DEF f, g
<1>3. Total(g, Intent) = Total(f, Intent) + (g[i] - f[i])
  BY <1>1, TotalChanges
<1>4. counter'[e] = Total(g, Intent)
  BY <1>1, <1>2, <1>3
<1> QED
  BY <1>4 DEF g
-----------------------------------------------------------------------------
(* The steps of a request *)

\* What a step of i has to do for the counts: its share and the counts change
\* alike.
CountsFollow(i) ==
    /\ Progress(i)'
    /\ \A e \in TableEntry :
          /\ Share(i, e)' \in Int
          /\ counter'[e] = counter[e] + (Share(i, e)' - Share(i, e))

LEMMA KnownTypes ==
  ASSUME Known
  PROVE  /\ pc \in [Intent -> Steps] /\ job \in [Intent -> {"none", "configure", "disable"}]
         /\ intentState \in [Intent -> Request \cup {NoState}]
         /\ request \in [Intent -> Request \cup {NoState}]
         /\ failed \in [Intent -> BOOLEAN]
         /\ done \in [Intent -> Seq(Action)]
         /\ todo = [i \in Intent |-> todo[i]]
         /\ intents \in [Number -> SUBSET Intent]
         /\ counter \in [TableEntry -> Nat]
         /\ failures \in Nat /\ MaxFailures \in Nat /\ failures <= MaxFailures
         /\ \A i \in Intent : ControlOf(i) /\ AllocationOf(i)
BY CounterAssumption, TablesAssumption
   DEF Known, ServiceInv, ControlTypes, PoolTypes, ChangelogTypes, CounterInv

\* Steps outside commits that change nothing the intent has or needs.
LEMMA QuietStepsCount ==
  ASSUME Known, NEW i \in Intent, Progress(i), counter' = counter,
         done'[i] = done[i], pc'[i] \in {"alloc", "load"} => ~failed'[i],
         \A e \in TableEntry : Before(i, e)' = Before(i, e),
         pc[i] \notin {"commit", "rollback", "store", "drop"},
         pc'[i] \notin {"commit", "rollback", "store", "drop"}
  PROVE  CountsFollow(i)
<1>1. done[i] = <<>> /\ Progress(i)'
  BY DEF Progress
<1>2. \A e \in TableEntry : Share(i, e)' = Share(i, e)
  BY <1>1 DEF Share, Times
<1>3. \A e \in TableEntry : Share(i, e) \in Int /\ counter[e] \in Int
  BY SharesAreNatural, KnownTypes
<1> QED
  BY <1>1, <1>2, <1>3 DEF CountsFollow

LEMMA QuietActionsCount ==
  ASSUME Known, NEW i \in Intent, Progress(i),
         \/ \E r \in Request : BeginConfigure(i, r)
         \/ BeginDisable(i) \/ AllocRefused(i) \/ DeleteIntentLock(i) \/ UnlockIntent(i)
  PROVE  CountsFollow(i)
<1>1. /\ counter' = counter /\ done' = done /\ intentState' = intentState /\ intents' = intents
      /\ pc[i] \notin {"commit", "rollback", "store", "drop"}
      /\ pc'[i] \notin {"commit", "rollback", "store", "drop"}
      /\ pc'[i] \in {"alloc", "load"} => ~failed'[i]
  BY KnownTypes
     DEF BeginConfigure, BeginDisable, AllocRefused, DeleteIntentLock, UnlockIntent, Start,
         Finish, GoTo, counterVars, poolVars, logVars
<1>2. Held(i)' = Held(i)
  BY <1>1 DEF Held, NumbersOf
<1>3. \A e \in TableEntry : Before(i, e)' = Before(i, e)
  BY <1>1, <1>2 DEF Before, Configured
<1> QED
  BY <1>1, <1>3, QuietStepsCount

LEMMA FreeNumberCounts ==
  ASSUME Known, NEW i \in Intent, Progress(i), FreeNumber(i)
  PROVE  CountsFollow(i)
<1>1. /\ counter' = counter /\ done' = done /\ intentState' = intentState
      /\ pc[i] = "free" /\ pc'[i] = "deleteLock" /\ ~Configured(i)
  BY KnownTypes DEF FreeNumber, GoTo, counterVars, logVars, ControlOf
<1>2. \A e \in TableEntry : Before(i, e)' = Before(i, e)
  BY <1>1 DEF Before, Configured
<1> QED
  BY <1>1, <1>2, QuietStepsCount

LEMMA StoreCounts ==
  ASSUME Known, NEW i \in Intent, Progress(i), Store(i)
  PROVE  CountsFollow(i)
<1>1. /\ counter' = counter /\ done' = done /\ intents' = intents
      /\ pc[i] = "store" /\ pc'[i] = "unlock" /\ job[i] = "configure"
      /\ intentState'[i] = request[i] /\ request[i] \in Request
  BY KnownTypes DEF Store, GoTo, counterVars, poolVars, logVars, ControlOf
<1>2. done[i] = <<>> /\ Progress(i)'
  BY <1>1 DEF Progress
<1>3. Held(i)' = Held(i)
  BY <1>1 DEF Held, NumbersOf
<1>4. ASSUME NEW e \in TableEntry
      PROVE  Share(i, e)' = Share(i, e) /\ Share(i, e) \in Int /\ counter[e] \in Int
  <2>1. Before(i, e)' = After(i, e)
    BY <1>1, <1>3, RequestsHaveCollections DEF Before, After, Configured
  <2>2. After(i, e) \in Nat /\ Share(i, e) = After(i, e) /\ counter[e] \in Int
    BY <1>1, SharesAreNatural, KnownTypes DEF Share
  <2>3. Times(i, "create", e)' = 0 /\ Times(i, "delete", e)' = 0
    BY <1>1, <1>2, CountOfNothing DEF Times
  <2>4. Share(i, e)' = Before(i, e)' + 0 - 0
    BY <1>1, <2>3 DEF Share
  <2> QED
    BY <2>1, <2>2, <2>4
<1> QED
  BY <1>1, <1>2, <1>4 DEF CountsFollow

LEMMA DropCounts ==
  ASSUME Known, NEW i \in Intent, Progress(i), Drop(i)
  PROVE  CountsFollow(i)
<1>1. /\ counter' = counter /\ done' = done
      /\ pc[i] = "drop" /\ pc'[i] = "free" /\ job[i] = "disable"
      /\ intentState'[i] = NoState
  BY KnownTypes DEF Drop, GoTo, counterVars, logVars, ControlOf
<1>2. done[i] = <<>> /\ Progress(i)'
  BY <1>1 DEF Progress
<1>3. ASSUME NEW e \in TableEntry
      PROVE  Share(i, e)' = 0 /\ Share(i, e) = 0 /\ counter[e] \in Int
  <2>1. Before(i, e)' = 0 /\ After(i, e) = 0 /\ counter[e] \in Int
    BY <1>1, KnownTypes DEF Before, After, Configured
  <2>2. Times(i, "create", e)' = 0 /\ Times(i, "delete", e)' = 0
    BY <1>1, <1>2, CountOfNothing DEF Times
  <2>3. Share(i, e)' = Before(i, e)' + 0 - 0
    BY <1>1, <2>2 DEF Share
  <2> QED
    BY <1>1, <2>1, <2>3 DEF Share
<1> QED
  BY <1>1, <1>2, <1>3 DEF CountsFollow

LEMMA NotifyCounts ==
  ASSUME Known, NEW i \in Intent, Progress(i), Notify(i)
  PROVE  CountsFollow(i)
<1>1. /\ counter' = counter /\ intents' = intents /\ intentState' = intentState
      /\ request' = request /\ job' = job
      /\ done'[i] = <<>> /\ pc'[i] = AfterCommit(i)
      /\ \/ pc[i] = "commit" /\ Pending(i) = {}
         \/ pc[i] = "rollback" /\ done[i] = <<>>
  BY KnownTypes DEF Notify, GoTo, counterVars, poolVars
<1>2. job[i] \in {"configure", "disable"}
  BY <1>1, KnownTypes DEF ControlOf
<1>3. pc'[i] \notin {"commit", "rollback"} /\ Progress(i)'
  BY <1>1, <1>2 DEF AfterCommit, Progress
<1>4. Held(i)' = Held(i)
  BY <1>1 DEF Held, NumbersOf
<1>5. \A e \in TableEntry : Before(i, e)' = Before(i, e) /\ After(i, e)' = After(i, e)
  BY <1>1, <1>4 DEF Before, After, Configured
<1>6. ASSUME NEW e \in TableEntry
      PROVE  Share(i, e)' = Share(i, e) /\ Share(i, e) \in Int /\ counter[e] \in Int
  <2>1. Times(i, "create", e)' = 0 /\ Times(i, "delete", e)' = 0
    BY <1>1, CountOfNothing DEF Times
  <2>2. /\ Share(i, e) \in Nat /\ Before(i, e) \in Nat /\ counter[e] \in Int
        /\ pc[i] = "commit" => After(i, e) \in Nat
    BY SharesAreNatural, KnownTypes
  <2>3. CASE pc[i] = "commit"
    <3>1. CommitProgress(i) /\ Pending(i) = {}
      BY <1>1, <2>3 DEF Progress
    <3>2. ToDo(i, "create", e) = 0 /\ ToDo(i, "delete", e) = 0
      BY <3>1 DEF ToDo, Copies, Pending, BagToSet
    <3>3. Share(i, e) + 0 = After(i, e) + 0
      BY <3>1, <3>2 DEF CommitProgress
    <3>4. pc'[i] \in {"store", "drop"}
      BY <1>1, <1>2, <3>1 DEF AfterCommit, CommitProgress
    <3>5. Share(i, e)' = After(i, e)
      BY <1>5, <3>4 DEF Share
    <3> QED
      BY <2>2, <2>3, <3>3, <3>5
  <2>4. CASE pc[i] = "rollback"
    <3>1. RollbackProgress(i) /\ done[i] = <<>>
      BY <1>1, <2>4 DEF Progress
    <3>2. pc'[i] \notin {"store", "drop"}
      BY <1>1, <1>2, <3>1 DEF AfterCommit, RollbackProgress
    <3>3. Times(i, "create", e) = 0 /\ Times(i, "delete", e) = 0
      BY <3>1, CountOfNothing DEF Times
    <3>4. Share(i, e) = Before(i, e) + 0 - 0
      BY <2>4, <3>3 DEF Share
    <3>5. Share(i, e)' = Before(i, e) + 0 - 0
      BY <1>5, <2>1, <3>2 DEF Share
    <3> QED
      BY <2>2, <3>4, <3>5
  <2> QED
    BY <1>1, <2>3, <2>4
<1> QED
  BY <1>1, <1>3, <1>6 DEF CountsFollow

\* A new changelog leads from what the intent needs to what it will need.
LEMMA ChangelogStartsRight ==
  ASSUME Known, Known', NEW i \in Intent, Progress(i),
         pc[i] \in {"alloc", "load"}, failed'[i] = failed[i], done'[i] = done[i],
         pc'[i] = "commit", counter' = counter,
         \A e \in TableEntry : Before(i, e)' = Before(i, e),
         NEW p, IsEntities(p), NEW q, IsEntities(q), NEW n, todo'[i] = Changelog(p, q, n),
         \A e \in TableEntry :
            /\ Occurrences(p, n, e) + Before(i, e) = Occurrences(q, n, e) + After(i, e)'
            /\ Occurrences(q, n, e) <= Before(i, e)
  PROVE  CountsFollow(i)
<1>1. done'[i] = <<>> /\ ~failed'[i]
  BY DEF Progress
<1>2. IsFiniteSet(Edge)
  BY DEF Known, CountingConditions
<1>3. /\ IsABag(todo'[i])
      /\ \A e \in TableEntry :
            /\ Copies(<<"create", e>>, todo'[i]) = Occurrences(p, n, e)
            /\ Copies(<<"delete", e>>, todo'[i]) = Occurrences(q, n, e)
  BY <1>2, ChangelogCopies
<1>4. ASSUME NEW e \in TableEntry
      PROVE  /\ Share(i, e)' = Before(i, e) /\ Share(i, e) = Before(i, e)
             /\ Before(i, e) \in Nat /\ counter[e] \in Int
             /\ Times(i, "delete", e)' = 0
             /\ Occurrences(p, n, e) \in Nat /\ Occurrences(q, n, e) \in Nat
             /\ Share(i, e)' + Occurrences(p, n, e) = After(i, e)' + Occurrences(q, n, e)
             /\ Times(i, "delete", e)' + Occurrences(q, n, e) <= Before(i, e)'
  <2>1. Times(i, "create", e)' = 0 /\ Times(i, "delete", e)' = 0
    BY <1>1, CountOfNothing DEF Times
  <2>2. /\ Before(i, e) \in Nat /\ counter[e] \in Int /\ Share(i, e) = Before(i, e)
        /\ Occurrences(p, n, e) \in Nat /\ Occurrences(q, n, e) \in Nat
    <3>1. Before(i, e) \in Nat /\ Share(i, e) = Before(i, e)
      BY SharesAreNatural
    <3>2. counter[e] \in Int
      BY KnownTypes
    <3>3. Occurrences(p, n, e) \in Nat /\ Occurrences(q, n, e) \in Nat
      BY <1>2, OccurrencesAreNatural
    <3> QED
      BY <3>1, <3>2, <3>3
  <2>3. Share(i, e)' = Before(i, e)' + 0 - 0
    BY <2>1 DEF Share
  <2>4. Share(i, e)' = Before(i, e)
    BY <2>2, <2>3
  <2>5. request'[i] \in Request /\ job'[i] \in {"configure", "disable", "none"}
    BY DEF Known, ServiceInv, ControlOf, ControlTypes
  <2>6. After(i, e)' \in Nat
    <3>1. EntitiesOf' = EntitiesOf
      BY DEF EntitiesOf
    <3>2. IsEntities(EntitiesOf[request'[i]])
      BY <2>5, EntitiesOfRequests
    <3>3. Occurrences(EntitiesOf[request'[i]], Held(i)', e) \in Nat
      BY <1>2, <3>2, OccurrencesAreNatural
    <3> QED
      BY <3>3 DEF After
  <2> QED
    BY <2>1, <2>2, <2>4, <2>6
<1>5. CommitProgress(i)'
  BY <1>1, <1>3, <1>4 DEF CommitProgress, ToDo
<1>6. Progress(i)'
  BY <1>5 DEF Progress
<1>7. \A e \in TableEntry : Share(i, e)' \in Int /\ counter'[e] = counter[e] + (Share(i, e)' - Share(i, e))
  BY <1>4
<1> QED
  BY <1>6, <1>7 DEF CountsFollow

LEMMA LoadCounts ==
  ASSUME Known, Known', NEW i \in Intent, Progress(i), Load(i)
  PROVE  CountsFollow(i)
<1>1. pc[i] = "load" /\ Configured(i) /\ job[i] = "disable" /\ intentState[i] \in Request
  BY KnownTypes DEF Load, ControlOf, Configured
<1>2. \E n \in Number : Allocated(i, n, intentState[i].collectionId)
  BY <1>1, KnownTypes DEF AllocationOf, IsHolder, CollectionOf
<1>3. PICK n \in Number : /\ Allocated(i, n, intentState[i].collectionId)
                          /\ todo'[i] = Changelog(NoEntities, EntitiesOf[intentState[i]], n)
  BY <1>1, <1>2, KnownTypes DEF Load
<1>4. /\ counter' = counter /\ intents' = intents /\ intentState' = intentState
      /\ job' = job /\ done' = done /\ failed' = failed /\ pc'[i] = "commit"
  BY <1>1, <1>2, KnownTypes DEF Load, GoTo, counterVars, poolVars
<1>5. Held(i) = n /\ Held(i)' = Held(i)
  BY <1>3, <1>4, HeldIs DEF Allocated, Known, Held, NumbersOf
<1>6. ASSUME NEW e \in TableEntry
      PROVE  /\ Before(i, e)' = Before(i, e) /\ After(i, e)' = 0
             /\ Before(i, e) = Occurrences(EntitiesOf[intentState[i]], n, e)
             /\ Before(i, e) \in Nat
             /\ Occurrences(NoEntities, n, e) = 0
  BY <1>1, <1>4, <1>5, SharesAreNatural, NothingHasNoEntries DEF Before, After, Configured
<1>7. IsEntities(NoEntities) /\ IsEntities(EntitiesOf[intentState[i]])
  BY <1>1, EntitiesOfRequests DEF NoEntities, IsEntities
<1>8. ASSUME NEW e \in TableEntry
      PROVE  /\ Occurrences(NoEntities, n, e) + Before(i, e)
                = Occurrences(EntitiesOf[intentState[i]], n, e) + After(i, e)'
             /\ Occurrences(EntitiesOf[intentState[i]], n, e) <= Before(i, e)
  BY <1>6
<1> QED
  BY <1>1, <1>3, <1>4, <1>6, <1>7, <1>8, ChangelogStartsRight

LEMMA AllocCounts ==
  ASSUME Known, Known', OwnRequests, NEW i \in Intent, Progress(i), Alloc(i)
  PROVE  CountsFollow(i)
<1> DEFINE req == request[i]
           old == IF Configured(i) THEN EntitiesOf[intentState[i]] ELSE NoEntities
           new == EntitiesOf[req]
           diff == computeDifferences(old, new)
<1>1. PICK n \in Number :
          /\ IsNumberFor(n, req.collectionId)
          /\ intents' = [intents EXCEPT ![n] = @ \cup {i}]
          /\ todo' = [todo EXCEPT ![i] = Changelog(diff.added, diff.removed, n)]
  BY DEF Alloc
<1>2. /\ pc[i] = "alloc" /\ counter' = counter /\ intentState' = intentState
      /\ job' = job /\ request' = request /\ done' = done /\ failed' = failed
      /\ pc'[i] = IF IsEmpty(diff.added) /\ IsEmpty(diff.removed) THEN "store" ELSE "commit"
  BY KnownTypes DEF Alloc, GoTo, counterVars
<1>3. job[i] = "configure" /\ req \in Request /\ IsEntities(new)
  BY <1>2, KnownTypes, EntitiesOfRequests DEF ControlOf
<1>4. IsEntities(old) /\ KeepsItsEdges(old, new)
  <2>1. CASE Configured(i)
    <3>1. intentState[i] \in Request /\ intentState[i].intent = i /\ req.intent = i
      BY <1>3, <2>1, KnownTypes, RequestsHaveCollections DEF Configured, OwnRequests
    <3>2. intentState[i].collectionId = req.collectionId
      BY <1>2, <2>1, KnownTypes DEF AllocationOf
    <3> QED
      BY <1>3, <2>1, <3>1, <3>2, EntitiesOfRequests
         DEF Known, CountingConditions, RequestsAreBalanced
  <2>2. CASE ~Configured(i)
    <3>1. IsEntities(NoEntities) /\ DOMAIN NoEntities.sources = {}
      BY DEF NoEntities, IsEntities
    <3> QED
      BY <2>2, <3>1 DEF KeepsItsEdges
  <2> QED
    BY <2>1, <2>2
<1>5. Held(i)' = n
  <2>1. i \in intents'[n]
    BY <1>1, KnownTypes
  <2> QED
    BY <2>1, HeldIsNext DEF Known
<1>6. Configured(i) => Held(i) = n
  <2> SUFFICES ASSUME Configured(i) PROVE Held(i) = n
    OBVIOUS
  <2>1. PICK m \in Number : Allocated(i, m, intentState[i].collectionId)
    BY KnownTypes DEF AllocationOf, IsHolder, CollectionOf
  <2>2. intentState[i].collectionId = req.collectionId /\ req.collectionId # NoCollection
    BY <1>2, <1>3, KnownTypes, RequestsHaveCollections DEF AllocationOf
  <2>3. m = n
    BY <1>1, <2>1, <2>2 DEF IsNumberFor, Stands, Allocated, Known, ServiceInv, NumbersAreUnique
  <2> QED
    BY <2>1, <2>3, HeldIs DEF Allocated, Known
<1>7. ASSUME NEW e \in TableEntry
      PROVE  /\ Before(i, e) = Occurrences(old, n, e) /\ Before(i, e)' = Before(i, e)
             /\ After(i, e)' = Occurrences(new, n, e)
  <2>1. Before(i, e) = Occurrences(old, n, e)
    BY <1>6, NothingHasNoEntries DEF Before
  <2>2. Before(i, e)' = Before(i, e)
    BY <1>2, <1>5, <1>6 DEF Before, Configured
  <2>3. After(i, e)' = Occurrences(new, n, e)
    BY <1>2, <1>3, <1>5 DEF After
  <2> QED
    BY <2>1, <2>2, <2>3
<1> HIDE DEF old, new
<1>8. /\ IsEntities(diff.added) /\ IsEntities(diff.removed)
      /\ \A e \in TableEntry :
            /\ Occurrences(diff.added, n, e) + Occurrences(old, n, e)
               = Occurrences(diff.removed, n, e) + Occurrences(new, n, e)
            /\ Occurrences(diff.removed, n, e) <= Occurrences(old, n, e)
  <2>1. IsFiniteSet(Edge)
    BY DEF Known, CountingConditions
  <2>2. IsEntities(diff.added) /\ IsEntities(diff.removed)
    BY <1>3, <1>4, MissingIsEntities DEF computeDifferences
  <2> QED
    BY <1>3, <1>4, <2>1, <2>2, DifferencesBalance
<1> HIDE DEF diff
<1>9. CASE pc'[i] = "commit"
  <2>1. todo'[i] = Changelog(diff.added, diff.removed, n)
    BY <1>1, KnownTypes
  <2>2. ASSUME NEW e \in TableEntry
        PROVE  /\ Occurrences(diff.added, n, e) + Before(i, e)
                  = Occurrences(diff.removed, n, e) + After(i, e)'
               /\ Occurrences(diff.removed, n, e) <= Before(i, e)
               /\ Before(i, e)' = Before(i, e)
    BY <1>7, <1>8
  <2> QED
    BY <1>2, <1>8, <1>9, <2>1, <2>2, ChangelogStartsRight
<1>10. CASE pc'[i] = "store"
  <2>1. diff.added = NoEntities /\ diff.removed = NoEntities
    BY <1>2, <1>10 DEF IsEmpty
  <2>2. done'[i] = <<>> /\ Progress(i)'
    BY <1>2, <1>10 DEF Progress
  <2>3. ASSUME NEW e \in TableEntry
        PROVE  Share(i, e)' = Share(i, e) /\ Share(i, e) \in Int /\ counter[e] \in Int
    <3>1. Occurrences(diff.added, n, e) = 0 /\ Occurrences(diff.removed, n, e) = 0
      BY <2>1, NothingHasNoEntries
    <3>2. /\ Share(i, e) = Before(i, e) /\ Before(i, e) \in Nat /\ counter[e] \in Int
      <4>1. Share(i, e) = Before(i, e) /\ Before(i, e) \in Nat
        BY <1>2, SharesAreNatural
      <4>2. counter[e] \in Int
        BY KnownTypes
      <4> QED
        BY <4>1, <4>2
    <3>3. Occurrences(new, n, e) \in Nat
      BY <1>3, OccurrencesAreNatural DEF new, Known, CountingConditions
    <3>4. After(i, e)' = Before(i, e)
      BY <1>7, <1>8, <3>1, <3>2, <3>3
    <3>5. Share(i, e)' = After(i, e)'
      BY <1>10 DEF Share
    <3> QED
      BY <3>2, <3>4, <3>5
  <2> QED
    BY <1>2, <2>2, <2>3 DEF CountsFollow
<1> QED
  BY <1>2, <1>9, <1>10

LEMMA SharesAreCounted ==
  ASSUME Known, CountsAddUp, \A j \in Intent : Progress(j),
         NEW i \in Intent, NEW e \in TableEntry
  PROVE  Share(i, e) <= counter[e]
<1> DEFINE f == [j \in Intent |-> Share(j, e)]
<1>1. \A j \in Intent : f[j] \in Nat
  BY SharesAreNatural
<1>2. counter[e] = Total(f, Intent) /\ f[i] = Share(i, e)
  BY DEF CountsAddUp
<1> HIDE DEF f
<1>3. f[i] <= Total(f, Intent)
  BY <1>1, TotalBoundsSummands DEF Known, CountingConditions
<1> QED
  BY <1>2, <1>3

\* What a call does to the counts; one that fails is the last that may.
LEMMA CreatingCounts ==
  ASSUME Known, NEW x \in TableEntry, NEW ok \in BOOLEAN, Increment(x, ok)
  PROVE  IF ok THEN counter' = [counter EXCEPT ![x] = @ + 1]
         ELSE counter' = counter /\ failures' = failures + 1
<1>1. CASE ok
  <2>1. counter[x] \in Nat
    BY KnownTypes
  <2>2. CASE counter[x] = 0
    <3>1. counter' = [counter EXCEPT ![x] = 1]
      BY <1>1, <2>2 DEF Increment
    <3>2. counter' = [counter EXCEPT ![x] = @ + 1]
      BY <2>2, <3>1
    <3> QED
      BY <1>1, <3>2
  <2>3. CASE counter[x] # 0
    <3>1. counter' = [counter EXCEPT ![x] = @ + 1]
      BY <2>3 DEF Increment
    <3> QED
      BY <1>1, <3>1
  <2> QED
    BY <2>2, <2>3
<1>2. CASE ~ok
  <2>1. counter[x] = 0 /\ WriteEntry(x, ok) /\ counter' = counter
    BY <1>2 DEF Increment
  <2>2. x \notin installed
    BY <2>1, TablesAssumption DEF Known, InstalledIffCounted
  <2>3. failures' = failures + 1
    BY <1>2, <2>1, <2>2 DEF WriteEntry, Fails
  <2> QED
    BY <1>2, <2>1, <2>3
<1> QED
  BY <1>1, <1>2

LEMMA DeletingCounts ==
  ASSUME Known, NEW x \in TableEntry, NEW ok \in BOOLEAN, Decrement(x, ok), counter[x] > 0
  PROVE  IF ok THEN counter' = [counter EXCEPT ![x] = @ - 1]
         ELSE counter' = counter /\ failures' = failures + 1
<1>1. counter[x] \in Nat /\ counter[x] # 0
  BY KnownTypes
<1>2. CASE ok
  <2>1. CASE counter[x] = 1
    <3>1. counter' = [counter EXCEPT ![x] = 0]
      BY <1>2, <2>1 DEF Decrement
    <3>2. counter' = [counter EXCEPT ![x] = @ - 1]
      BY <2>1, <3>1
    <3> QED
      BY <1>2, <3>2
  <2>2. CASE counter[x] # 1
    <3>1. counter' = [counter EXCEPT ![x] = @ - 1]
      BY <1>1, <2>2 DEF Decrement
    <3> QED
      BY <1>2, <3>1
  <2> QED
    BY <2>1, <2>2
<1>3. CASE ~ok
  <2>1. counter[x] = 1 /\ DeleteEntry(x, ok) /\ counter' = counter
    BY <1>1, <1>3 DEF Decrement
  <2>2. x \in installed
    BY <1>1, <2>1, TablesAssumption DEF Known, InstalledIffCounted
  <2>3. failures' = failures + 1
    BY <1>3, <2>1, <2>2 DEF DeleteEntry, Fails
  <2> QED
    BY <1>3, <2>1, <2>3
<1> QED
  BY <1>2, <1>3

\* Whether an action is the given one on an entry, as a number.
Is(a, op, e) == IF a = <<op, e>> THEN 1 ELSE 0

LEMMA IsOneOrNot ==
  \A a, op, e : Is(a, op, e) \in {0, 1}
BY DEF Is

\* An action that succeeds counts for its entry.
LEMMA ApplyingCounts ==
  ASSUME Known, NEW a \in Action, NEW ok \in BOOLEAN, Apply(a[1], a[2], ok),
         a[1] = "delete" => counter[a[2]] > 0
  PROVE  IF ok
         THEN \A e \in TableEntry :
                 counter'[e] = counter[e] + Is(a, "create", e) - Is(a, "delete", e)
         ELSE counter' = counter /\ failures' = failures + 1
<1>1. PICK op \in {"create", "delete"}, x \in TableEntry : a = <<op, x>>
  BY DEF Action
<1>2. counter \in [TableEntry -> Nat]
  BY KnownTypes
<1>3. CASE op = "create"
  <2>1. Increment(x, ok)
    BY <1>1, <1>3 DEF Apply
  <2>2. CASE ok
    <3>1. counter' = [counter EXCEPT ![x] = @ + 1]
      BY <2>1, <2>2, CreatingCounts
    <3> QED
      BY <1>1, <1>2, <1>3, <2>2, <3>1 DEF Is
  <2>3. CASE ~ok
    BY <2>1, <2>3, CreatingCounts
  <2> QED
    BY <2>2, <2>3
<1>4. CASE op = "delete"
  <2>1. Decrement(x, ok) /\ counter[x] > 0
    BY <1>1, <1>4 DEF Apply
  <2>2. CASE ok
    <3>1. counter' = [counter EXCEPT ![x] = @ - 1]
      BY <2>1, <2>2, DeletingCounts
    <3> QED
      BY <1>1, <1>2, <1>4, <2>2, <3>1 DEF Is
  <2>3. CASE ~ok
    BY <2>1, <2>3, DeletingCounts
  <2> QED
    BY <2>2, <2>3
<1> QED
  BY <1>3, <1>4

LEMMA CommitStepCounts ==
  ASSUME Known, Known', CountsAddUp, \A j \in Intent : Progress(j),
         NEW i \in Intent, CommitStep(i)
  PROVE  CountsFollow(i)
<1>1. PICK a \in NextActions(i), ok \in BOOLEAN :
          /\ Apply(a[1], a[2], ok)
          /\ IF ok
             THEN /\ todo' = [todo EXCEPT ![i] = @ (-) SetToBag({a})]
                  /\ done' = [done EXCEPT ![i] = Append(@, a)]
                  /\ UNCHANGED <<pc, failed>>
             ELSE /\ failed' = [failed EXCEPT ![i] = TRUE]
                  /\ GoTo(i, "rollback")
                  /\ UNCHANGED done
  BY DEF CommitStep
<1>2. /\ pc[i] = "commit" /\ intentState' = intentState /\ intents' = intents
      /\ job' = job /\ request' = request
  BY DEF CommitStep, poolVars
<1>3. a \in Action /\ a \in BagToSet(todo[i]) /\ done[i] \in Seq(Action) /\ CommitProgress(i)
  BY <1>2 DEF NextActions, Pending, Known, ChangelogTypes, Progress
<1>4. Held(i)' = Held(i)
  BY <1>2 DEF Held, NumbersOf
<1>5. \A e \in TableEntry : Before(i, e)' = Before(i, e) /\ After(i, e)' = After(i, e)
  BY <1>2, <1>4 DEF Before, After, Configured
<1>6. ASSUME NEW e \in TableEntry
      PROVE  /\ Before(i, e) \in Nat /\ After(i, e) \in Nat
             /\ Times(i, "create", e) \in Nat /\ Times(i, "delete", e) \in Nat
             /\ ToDo(i, "create", e) \in Nat /\ ToDo(i, "delete", e) \in Nat
             /\ Share(i, e) = Before(i, e) + Times(i, "create", e) - Times(i, "delete", e)
             /\ Share(i, e) <= counter[e] /\ counter[e] \in Nat
             /\ Share(i, e) + ToDo(i, "create", e) = After(i, e) + ToDo(i, "delete", e)
             /\ Times(i, "delete", e) + ToDo(i, "delete", e) <= Before(i, e)
  <2>1. /\ Before(i, e) \in Nat /\ After(i, e) \in Nat
        /\ Times(i, "create", e) \in Nat /\ Times(i, "delete", e) \in Nat
    BY <1>2, SharesAreNatural
  <2>2. ToDo(i, "create", e) \in Nat /\ ToDo(i, "delete", e) \in Nat
    BY <1>3, CopiesAreNatural DEF CommitProgress, ToDo
  <2>3. Share(i, e) = Before(i, e) + Times(i, "create", e) - Times(i, "delete", e)
    BY <1>2 DEF Share
  <2>4. Share(i, e) <= counter[e] /\ counter[e] \in Nat
    BY SharesAreCounted, KnownTypes
  <2>5. /\ Share(i, e) + ToDo(i, "create", e) = After(i, e) + ToDo(i, "delete", e)
        /\ Times(i, "delete", e) + ToDo(i, "delete", e) <= Before(i, e)
    BY <1>3 DEF CommitProgress
  <2> QED
    BY <2>1, <2>2, <2>3, <2>4, <2>5
<1>7. a[1] = "delete" => counter[a[2]] > 0
  <2> SUFFICES ASSUME a[1] = "delete" PROVE counter[a[2]] > 0
    OBVIOUS
  <2>1. PICK x \in TableEntry : a = <<"delete", x>>
    BY <1>3 DEF Action
  <2>2. ToDo(i, "delete", x) > 0
    BY <1>3, <2>1, CopiesAreNatural DEF CommitProgress, ToDo
  <2>3. counter[x] > 0
    BY <1>6, <2>2
  <2> QED
    BY <2>1, <2>3
<1>8. CASE ok
  <2>1. /\ todo'[i] = todo[i] (-) SetToBag({a}) /\ done'[i] = Append(done[i], a)
        /\ pc'[i] = "commit" /\ failed'[i] = failed[i]
    BY <1>1, <1>2, <1>8, KnownTypes
  <2>2. /\ IsABag(todo'[i])
        /\ \A b : Copies(b, todo[i]) = Copies(b, todo'[i]) + (IF a = b THEN 1 ELSE 0)
    BY <1>3, <2>1, CopiesOfOneLess DEF CommitProgress
  <2>3. ASSUME NEW e \in TableEntry
        PROVE  /\ Times(i, "create", e)' = Times(i, "create", e) + Is(a, "create", e)
               /\ Times(i, "delete", e)' = Times(i, "delete", e) + Is(a, "delete", e)
               /\ ToDo(i, "create", e) = ToDo(i, "create", e)' + Is(a, "create", e)
               /\ ToDo(i, "delete", e) = ToDo(i, "delete", e)' + Is(a, "delete", e)
               /\ counter'[e] = counter[e] + Is(a, "create", e) - Is(a, "delete", e)
               /\ ToDo(i, "create", e)' \in Nat /\ ToDo(i, "delete", e)' \in Nat
    <3>1. /\ Times(i, "create", e)' = Times(i, "create", e) + Is(a, "create", e)
          /\ Times(i, "delete", e)' = Times(i, "delete", e) + Is(a, "delete", e)
      <4>1. \A b : Count(Append(done[i], a), b) = Count(done[i], b) + (IF a = b THEN 1 ELSE 0)
        BY <1>3, CountOfOneMore
      <4>2. \A b : Count(done'[i], b) = Count(done[i], b) + (IF a = b THEN 1 ELSE 0)
        BY <2>1, <4>1
      <4> QED
        BY <4>2 DEF Times, Is
    <3>2. /\ ToDo(i, "create", e) = ToDo(i, "create", e)' + Is(a, "create", e)
          /\ ToDo(i, "delete", e) = ToDo(i, "delete", e)' + Is(a, "delete", e)
      BY <2>2 DEF ToDo, Is
    <3>3. counter'[e] = counter[e] + Is(a, "create", e) - Is(a, "delete", e)
      BY <1>1, <1>3, <1>7, <1>8, ApplyingCounts
    <3>4. ToDo(i, "create", e)' \in Nat /\ ToDo(i, "delete", e)' \in Nat
      BY <2>2, CopiesAreNatural DEF ToDo
    <3> QED
      BY <3>1, <3>2, <3>3, <3>4
  <2>4. ASSUME NEW e \in TableEntry
        PROVE  /\ Share(i, e)' \in Int
               /\ counter'[e] = counter[e] + (Share(i, e)' - Share(i, e))
               /\ Share(i, e)' + ToDo(i, "create", e)' = After(i, e)' + ToDo(i, "delete", e)'
               /\ Times(i, "delete", e)' + ToDo(i, "delete", e)' <= Before(i, e)'
    <3>1. Share(i, e)' = Before(i, e)' + Times(i, "create", e)' - Times(i, "delete", e)'
      BY <2>1 DEF Share
    <3>2. Is(a, "create", e) \in Int /\ Is(a, "delete", e) \in Int
      BY IsOneOrNot
    <3> QED
      BY <1>5, <1>6, <2>3, <3>1, <3>2
  <2>5. CommitProgress(i)'
    BY <1>3, <2>1, <2>2, <2>4 DEF CommitProgress
  <2> QED
    BY <2>1, <2>4, <2>5 DEF CountsFollow, Progress
<1>9. CASE ~ok
  <2>1. /\ done'[i] = done[i] /\ pc'[i] = "rollback" /\ failed'[i]
    BY <1>1, <1>9, KnownTypes DEF GoTo
  <2>2. counter' = counter /\ failures' > 0
    BY <1>1, <1>3, <1>7, <1>9, ApplyingCounts, KnownTypes
  <2>3. ASSUME NEW e \in TableEntry
        PROVE  /\ Share(i, e)' = Share(i, e) /\ Share(i, e) \in Int /\ counter[e] \in Int
               /\ Times(i, "delete", e)' <= Before(i, e)'
    <3>1. /\ Times(i, "create", e)' = Times(i, "create", e)
          /\ Times(i, "delete", e)' = Times(i, "delete", e)
      BY <2>1 DEF Times
    <3>2. Share(i, e)' = Before(i, e)' + Times(i, "create", e)' - Times(i, "delete", e)'
      BY <2>1 DEF Share
    <3> QED
      BY <1>5, <1>6, <3>1, <3>2
  <2>4. Progress(i)'
    BY <2>1, <2>2, <2>3 DEF Progress, RollbackProgress
  <2> QED
    BY <2>2, <2>3, <2>4 DEF CountsFollow
<1> QED
  BY <1>8, <1>9

LEMMA RollbackStepCounts ==
  ASSUME Known, Known', CountsAddUp, \A j \in Intent : Progress(j),
         NEW i \in Intent, RollbackStep(i), failures' = failures
  PROVE  CountsFollow(i)
<1> DEFINE a == done[i][Len(done[i])]
           u == <<Undoing(a[1]), a[2]>>
<1>1. PICK ok \in BOOLEAN : Apply(Undoing(a[1]), a[2], ok)
  BY DEF RollbackStep
<1>2. /\ pc[i] = "rollback" /\ pc' = pc /\ intentState' = intentState /\ intents' = intents
      /\ job' = job /\ request' = request /\ failed' = failed
      /\ done[i] # <<>> /\ done[i] \in Seq(Action)
      /\ done'[i] = SubSeq(done[i], 1, Len(done[i]) - 1) /\ RollbackProgress(i)
  BY DEF RollbackStep, poolVars, Known, ChangelogTypes, Progress
<1>3. a \in Action /\ done'[i] \in Seq(Action)
  BY <1>2
<1>4. Held(i)' = Held(i)
  BY <1>2 DEF Held, NumbersOf
<1>5. \A e \in TableEntry : Before(i, e)' = Before(i, e)
  BY <1>2, <1>4 DEF Before, Configured
<1>6. \A b : Count(done[i], b) = Count(done'[i], b) + (IF a = b THEN 1 ELSE 0)
  BY <1>2, CountOfOneLess
<1> HIDE DEF a
<1>7. ASSUME NEW e \in TableEntry
      PROVE  /\ Before(i, e) \in Nat
             /\ Times(i, "create", e) = Times(i, "create", e)' + Is(a, "create", e)
             /\ Times(i, "delete", e) = Times(i, "delete", e)' + Is(a, "delete", e)
             /\ Times(i, "create", e)' \in Nat /\ Times(i, "delete", e)' \in Nat
             /\ Share(i, e) = Before(i, e) + Times(i, "create", e) - Times(i, "delete", e)
             /\ Share(i, e) <= counter[e] /\ counter[e] \in Nat
             /\ Times(i, "delete", e) <= Before(i, e)
  <2>1. Before(i, e) \in Nat
    BY SharesAreNatural
  <2>2. /\ Times(i, "create", e) = Times(i, "create", e)' + Is(a, "create", e)
        /\ Times(i, "delete", e) = Times(i, "delete", e)' + Is(a, "delete", e)
    BY <1>6 DEF Times, Is
  <2>3. Times(i, "create", e)' \in Nat /\ Times(i, "delete", e)' \in Nat
    BY <1>3, CountIsNatural DEF Times
  <2>4. Share(i, e) = Before(i, e) + Times(i, "create", e) - Times(i, "delete", e)
    BY <1>2 DEF Share
  <2>5. Share(i, e) <= counter[e] /\ counter[e] \in Nat
    BY SharesAreCounted, KnownTypes
  <2>6. Times(i, "delete", e) <= Before(i, e)
    BY <1>2 DEF RollbackProgress
  <2> QED
    BY <2>1, <2>2, <2>3, <2>4, <2>5, <2>6
<1>8. PICK op \in {"create", "delete"}, x \in TableEntry : a = <<op, x>>
  BY <1>3 DEF Action
<1>9. u \in Action /\ Apply(u[1], u[2], ok)
  BY <1>1, <1>8 DEF Action, Undoing
<1>10. u[1] = "delete" => counter[u[2]] > 0
  <2> SUFFICES ASSUME op = "create" PROVE counter[x] > 0
    BY <1>8 DEF Undoing
  <2>1. Is(a, "create", x) = 1 /\ Is(a, "delete", x) = 0
    BY <1>8 DEF Is
  <2>2. /\ Before(i, x) \in Nat /\ Times(i, "create", x)' \in Nat /\ counter[x] \in Nat
        /\ Times(i, "create", x) = Times(i, "create", x)' + 1
        /\ Times(i, "delete", x) = Times(i, "delete", x)' + 0
        /\ Times(i, "delete", x)' \in Nat
        /\ Share(i, x) = Before(i, x) + Times(i, "create", x) - Times(i, "delete", x)
        /\ Share(i, x) <= counter[x] /\ Times(i, "delete", x) <= Before(i, x)
    BY <1>7, <2>1
  <2> QED
    BY <2>2
<1>11. \A e \in TableEntry : /\ Is(u, "create", e) = Is(a, "delete", e)
                             /\ Is(u, "delete", e) = Is(a, "create", e)
  BY <1>8 DEF Is, Undoing
<1> HIDE DEF u
<1>12. \A e \in TableEntry : counter'[e] = counter[e] + Is(u, "create", e) - Is(u, "delete", e)
  <2>1. failures \in Nat
    BY KnownTypes
  <2>2. ok
    BY <1>9, <1>10, <2>1, ApplyingCounts
  <2> QED
    BY <1>9, <1>10, <2>2, ApplyingCounts
<1>13. ASSUME NEW e \in TableEntry
       PROVE  /\ Share(i, e)' \in Int
              /\ counter'[e] = counter[e] + (Share(i, e)' - Share(i, e))
              /\ Times(i, "delete", e)' <= Before(i, e)'
  <2>1. Share(i, e)' = Before(i, e)' + Times(i, "create", e)' - Times(i, "delete", e)'
    BY <1>2 DEF Share
  <2>2. Is(a, "create", e) \in {0, 1} /\ Is(a, "delete", e) \in {0, 1}
    BY IsOneOrNot
  <2> QED
    BY <1>5, <1>7, <1>11, <1>12, <2>1, <2>2
<1>14. Progress(i)'
  BY <1>2, <1>13 DEF Progress, RollbackProgress
<1> QED
  BY <1>13, <1>14 DEF CountsFollow
-----------------------------------------------------------------------------
(* All the steps *)

LEMMA EveryStepCounts ==
  ASSUME Known, Known', CountsInv, ~RollbackFails, NEW i \in Intent,
         \/ \E r \in Request : BeginConfigure(i, r)
         \/ BeginDisable(i) \/ Step(i)
  PROVE  CountsFollow(i)
<1>1. Progress(i) /\ OwnRequests /\ CountsAddUp /\ \A j \in Intent : Progress(j)
  BY DEF CountsInv
<1>2. CASE \/ \E r \in Request : BeginConfigure(i, r)
           \/ BeginDisable(i) \/ AllocRefused(i) \/ DeleteIntentLock(i) \/ UnlockIntent(i)
  BY <1>1, <1>2, QuietActionsCount
<1>3. CASE Alloc(i)
  BY <1>1, <1>3, AllocCounts
<1>4. CASE Load(i)
  BY <1>1, <1>4, LoadCounts
<1>5. CASE Store(i)
  BY <1>1, <1>5, StoreCounts
<1>6. CASE Drop(i)
  BY <1>1, <1>6, DropCounts
<1>7. CASE CommitStep(i)
  BY <1>1, <1>7, CommitStepCounts
<1>8. CASE RollbackStep(i)
  BY <1>1, <1>8, RollbackStepCounts DEF RollbackFails
<1>9. CASE Notify(i)
  BY <1>1, <1>9, NotifyCounts
<1>10. CASE FreeNumber(i)
  BY <1>1, <1>10, FreeNumberCounts
<1> QED
  BY <1>2, <1>3, <1>4, <1>5, <1>6, <1>7, <1>8, <1>9, <1>10 DEF Step

\* A step of one intent leaves what the others have and do alone.
LEMMA OthersAreLeftAlone ==
  ASSUME Known, NEW i \in Intent,
         \/ \E r \in Request : BeginConfigure(i, r)
         \/ BeginDisable(i) \/ Step(i)
  PROVE  \A j \in Intent \ {i} :
            /\ pc'[j] = pc[j] /\ job'[j] = job[j] /\ intentState'[j] = intentState[j]
            /\ request'[j] = request[j] /\ done'[j] = done[j] /\ todo'[j] = todo[j]
            /\ failed'[j] = failed[j] /\ NumbersOf(j)' = NumbersOf(j)
<1>1. /\ pc \in [Intent -> Steps] /\ job = [j \in Intent |-> job[j]]
      /\ intentState = [j \in Intent |-> intentState[j]]
      /\ request = [j \in Intent |-> request[j]] /\ done = [j \in Intent |-> done[j]]
      /\ todo = [j \in Intent |-> todo[j]] /\ failed = [j \in Intent |-> failed[j]]
  <2>1. /\ pc \in [Intent -> Steps] /\ job \in [Intent -> {"none", "configure", "disable"}]
        /\ failed \in [Intent -> BOOLEAN] /\ done \in [Intent -> Seq(Action)]
        /\ todo = [j \in Intent |-> todo[j]]
    BY KnownTypes
  <2>2. /\ intentState \in [Intent -> Request \cup {NoState}]
        /\ request \in [Intent -> Request \cup {NoState}]
    BY KnownTypes
  <2>3. /\ intentState = [j \in Intent |-> intentState[j]]
        /\ request = [j \in Intent |-> request[j]]
    BY <2>2
  <2>4. job = [j \in Intent |-> job[j]] /\ done = [j \in Intent |-> done[j]]
    BY <2>1
  <2>5. failed = [j \in Intent |-> failed[j]]
    BY <2>1
  <2> QED
    BY <2>1, <2>3, <2>4, <2>5
<1>2. \A j \in Intent \ {i} : pc'[j] = pc[j]
  BY <1>1 DEF BeginConfigure, BeginDisable, Step, Alloc, AllocRefused, Store, Load, Drop, CommitStep,
              RollbackStep, Notify, FreeNumber, DeleteIntentLock, UnlockIntent, Start, Finish, GoTo
<1>3. \A j \in Intent \ {i} : job'[j] = job[j] /\ request'[j] = request[j]
  BY <1>1 DEF BeginConfigure, BeginDisable, Step, Alloc, AllocRefused, Store, Load, Drop, CommitStep,
              RollbackStep, Notify, FreeNumber, DeleteIntentLock, UnlockIntent, Start, Finish
<1>4. \A j \in Intent \ {i} : intentState'[j] = intentState[j] /\ failed'[j] = failed[j]
  BY <1>1 DEF BeginConfigure, BeginDisable, Step, Alloc, AllocRefused, Store, Load, Drop, CommitStep,
              RollbackStep, Notify, FreeNumber, DeleteIntentLock, UnlockIntent, Start, Finish,
              logVars
<1>5. \A j \in Intent \ {i} : done'[j] = done[j] /\ todo'[j] = todo[j]
  BY <1>1 DEF BeginConfigure, BeginDisable, Step, Alloc, AllocRefused, Store, Load, Drop, CommitStep,
              RollbackStep, Notify, FreeNumber, DeleteIntentLock, UnlockIntent, logVars
<1>6. \A j \in Intent \ {i}, n \in Number : j \in intents'[n] <=> j \in intents[n]
  <2>1. \/ intents' = intents
        \/ \E n \in Number : \/ intents' = [intents EXCEPT ![n] = @ \cup {i}]
                            \/ intents' = [intents EXCEPT ![n] = @ \ {i}]
    BY DEF BeginConfigure, BeginDisable, Step, Alloc, AllocRefused, Store, Load, Drop, CommitStep,
           RollbackStep, Notify, FreeNumber, DeleteIntentLock, UnlockIntent, poolVars
  <2>2. intents \in [Number -> SUBSET Intent]
    BY KnownTypes
  <2> QED
    BY <2>1, <2>2
<1>7. \A j \in Intent \ {i} : NumbersOf(j)' = NumbersOf(j)
  BY <1>6 DEF NumbersOf
<1> QED
  BY <1>2, <1>3, <1>4, <1>5, <1>7

LEMMA RequestsStayOwn ==
  ASSUME Known, OwnRequests, NEW i \in Intent,
         \/ \E r \in Request : BeginConfigure(i, r)
         \/ BeginDisable(i) \/ Step(i)
  PROVE  OwnRequests'
<1>1. /\ intentState \in [Intent -> Request \cup {NoState}]
      /\ request \in [Intent -> Request \cup {NoState}]
      /\ pc[i] = "store" => request[i] \in Request
      /\ pc[i] = "load" => Configured(i)
      /\ \A r \in Request : r # NoState
  BY KnownTypes, RequestsHaveCollections DEF ControlOf
<1>2. \/ intentState' = intentState
      \/ intentState' = [intentState EXCEPT ![i] = NoState]
      \/ pc[i] = "store" /\ intentState' = [intentState EXCEPT ![i] = request[i]]
  BY DEF BeginConfigure, BeginDisable, Step, Alloc, AllocRefused, Store, Load, Drop, CommitStep,
         RollbackStep, Notify, FreeNumber, DeleteIntentLock, UnlockIntent
<1>3. \/ request' = request
      \/ request' = [request EXCEPT ![i] = NoState]
      \/ pc[i] = "load" /\ request' = [request EXCEPT ![i] = intentState[i]]
      \/ \E r \in Request : r.intent = i /\ request' = [request EXCEPT ![i] = r]
  BY DEF BeginConfigure, BeginDisable, Step, Alloc, AllocRefused, Store, Load, Drop, CommitStep,
         RollbackStep, Notify, FreeNumber, DeleteIntentLock, UnlockIntent, Start, Finish
<1>4. \A j \in Intent : Configured(j)' => intentState'[j].intent = j
  BY <1>1, <1>2 DEF OwnRequests, Configured
<1>5. \A j \in Intent : request'[j] # NoState => request'[j].intent = j
  BY <1>1, <1>3 DEF OwnRequests, Configured
<1> QED
  BY <1>4, <1>5 DEF OwnRequests

LEMMA FailuresOnlyGrow ==
  ASSUME Known, Known', CounterNext \/ UNCHANGED counterVars
  PROVE  failures \in Nat /\ failures' \in Nat /\ failures' >= failures
<1>1. failures \in Nat /\ failures' \in Nat
  BY CounterAssumption DEF Known, CounterInv
<1> QED
  BY <1>1 DEF CounterNext, counterVars, Increment, Decrement, WriteEntry, DeleteEntry, Fails

LEMMA StepKeepsCounts ==
  ASSUME Known, Known', CountsInv, CounterNext \/ UNCHANGED counterVars, ~RollbackFails,
         NEW i \in Intent,
         \/ \E r \in Request : BeginConfigure(i, r)
         \/ BeginDisable(i) \/ Step(i)
  PROVE  CountsInv'
<1>1. CountsFollow(i)
  BY EveryStepCounts
<1>2. OwnRequests'
  BY RequestsStayOwn DEF CountsInv
<1>3. ASSUME NEW j \in Intent, j # i
      PROVE  Progress(j)' /\ \A e \in TableEntry : Share(j, e)' = Share(j, e)
  <2>1. /\ pc'[j] = pc[j] /\ job'[j] = job[j] /\ intentState'[j] = intentState[j]
        /\ request'[j] = request[j] /\ done'[j] = done[j] /\ todo'[j] = todo[j]
        /\ failed'[j] = failed[j] /\ NumbersOf(j)' = NumbersOf(j)
    BY <1>3, OthersAreLeftAlone
  <2>2. Progress(j)
    BY DEF CountsInv
  <2>3. failures \in Nat /\ failures' \in Nat /\ failures' >= failures
    BY FailuresOnlyGrow
  <2>4. Progress(j)'
    BY <2>1, <2>2, <2>3, OthersKeepTheirProgress
  <2>5. \A e \in TableEntry : Share(j, e)' = Share(j, e)
    BY <2>1, OthersKeepTheirShare
  <2> QED
    BY <2>4, <2>5
<1>4. CountsAddUp'
  <2>1. \A j \in Intent, e \in TableEntry : Share(j, e) \in Int
    BY SharesAreNatural DEF CountsInv
  <2>2. /\ \A e \in TableEntry : Share(i, e)' \in Int
        /\ \A e \in TableEntry : counter'[e] = counter[e] + (Share(i, e)' - Share(i, e))
    BY <1>1 DEF CountsFollow
  <2>3. \A j \in Intent \ {i}, e \in TableEntry : Share(j, e)' = Share(j, e)
    BY <1>3
  <2>4. IsFiniteSet(Intent) /\ CountsAddUp
    BY DEF Known, CountingConditions, CountsInv
  <2> QED
    BY <2>1, <2>2, <2>3, <2>4, CountsKeepAddingUp
<1>5. \A j \in Intent : Progress(j)'
  BY <1>1, <1>3 DEF CountsFollow
<1> QED
  BY <1>2, <1>4, <1>5 DEF CountsInv

LEMMA StutteringKeepsCounts ==
  ASSUME CountsInv, UNCHANGED vars
  PROVE  CountsInv'
<1>1. /\ counter' = counter /\ failures' = failures /\ pc' = pc /\ job' = job
      /\ intentState' = intentState /\ request' = request /\ done' = done /\ todo' = todo
      /\ failed' = failed /\ intents' = intents
  BY DEF vars, counterVars, poolVars, logVars
<1>2. \A i \in Intent : Held(i)' = Held(i)
  BY <1>1 DEF Held, NumbersOf
<1>3. \A i \in Intent, e \in TableEntry : Share(i, e)' = Share(i, e) /\ Before(i, e)' = Before(i, e)
                                       /\ After(i, e)' = After(i, e)
  BY <1>1, <1>2 DEF Share, Before, After, Times, Configured
<1>4. \A i \in Intent : Progress(i)'
  BY <1>1, <1>3 DEF CountsInv, Progress, CommitProgress, RollbackProgress, Times, ToDo
<1>5. CountsAddUp'
  <2> SUFFICES ASSUME NEW e \in TableEntry
               PROVE  counter'[e] = Total([i \in Intent |-> Share(i, e)'], Intent)
    BY DEF CountsAddUp
  <2>1. [i \in Intent |-> Share(i, e)'] = [i \in Intent |-> Share(i, e)]
    BY <1>3
  <2> QED
    BY <1>1, <2>1 DEF CountsInv, CountsAddUp
<1> QED
  BY <1>1, <1>4, <1>5 DEF CountsInv, OwnRequests, Configured

LEMMA TotalOfZeros ==
  ASSUME NEW f, NEW S, IsFiniteSet(S), \A x \in S : f[x] = 0
  PROVE  Total(f, S) = 0
<1> DEFINE Q == {T \in SUBSET S : Total(f, T) = 0}
<1>1. ASSUME NEW T \in SUBSET S, \A U \in SUBSET T : U # T => U \in Q
      PROVE  T \in Q
  <2>1. CASE T = {}
    BY <2>1, TotalOfNothing
  <2>2. CASE T # {}
    <3> DEFINE c == Some(T)
    <3>1. c \in T
      BY <2>2, SomeIsMember
    <3>2. IsFiniteSet(T)
      BY FS_Subset
    <3>3. Total(f, T) = f[c] + Total(f, T \ {c})
      BY <2>2, <3>2, TotalUnfolds
    <3>4. Total(f, T \ {c}) = 0
      BY <1>1, <3>1
    <3> QED
      BY <3>1, <3>3, <3>4
  <2> QED
    BY <2>1, <2>2
<1> HIDE DEF Q
<1>2. S \in Q
  BY <1>1, SubsetInduction
<1> QED
  BY <1>2 DEF Q

LEMMA CountsInit ==
  ASSUME IsFiniteSet(Intent), Init
  PROVE  CountsInv
<1>1. /\ \A i \in Intent : /\ pc[i] = "idle" /\ done[i] = <<>> /\ ~Configured(i)
                           /\ request[i] = NoState
      /\ \A e \in TableEntry : counter[e] = 0
  BY TablesAssumption DEF Init, CounterInit, Configured
<1>2. \A i \in Intent, e \in TableEntry : Share(i, e) = 0
  BY <1>1, CountOfNothing DEF Share, Before, Times
<1>3. ASSUME NEW e \in TableEntry
      PROVE  counter[e] = Total([i \in Intent |-> Share(i, e)], Intent)
  <2> DEFINE f == [i \in Intent |-> Share(i, e)]
  <2>1. \A i \in Intent : f[i] = 0
    BY <1>2
  <2> HIDE DEF f
  <2>2. Total(f, Intent) = 0
    BY <2>1, TotalOfZeros
  <2> QED
    BY <1>1, <2>2 DEF f
<1> QED
  BY <1>1, <1>3 DEF CountsInv, OwnRequests, CountsAddUp, Progress

LEMMA CountsAreOfNeeds ==
  ASSUME Known, CountsInv, Quiescent, NEW e \in TableEntry
  PROVE  counter[e] = Total([i \in Intent |-> Needs(i, e)], Intent)
<1> DEFINE f == [i \in Intent |-> Share(i, e)]
           g == [i \in Intent |-> Needs(i, e)]
<1>1. \A i \in Intent : pc[i] = "idle" /\ Progress(i)
  BY DEF Quiescent, CountsInv
<1>2. \A i \in Intent : Share(i, e) = Before(i, e)
  BY <1>1, SharesAreNatural
<1>3. \A i \in Intent : Needs(i, e) = Before(i, e)
  BY NeedsAreBefore DEF Known
<1>4. \A i \in Intent : f[i] = g[i]
  BY <1>2, <1>3
<1>5. counter[e] = Total(f, Intent)
  BY DEF CountsInv, CountsAddUp
<1> HIDE DEF f, g
<1>6. Total(f, Intent) = Total(g, Intent)
  BY <1>4, TotalCongruence DEF Known, CountingConditions
<1> QED
  BY <1>5, <1>6 DEF g

LEMMA ChangelogTypesInvariance == Spec => []ChangelogTypes
<1>1. Init => ChangelogTypes
  BY ChangelogTypesInit
<1>2. ASSUME ChangelogTypes, [Next]_vars
      PROVE  ChangelogTypes'
  <2>1. CASE UNCHANGED vars
    BY <1>2, <2>1 DEF vars, logVars, ChangelogTypes, Pending
  <2>2. CASE Next
    BY <1>2, <2>2, NewChangelogs, KeptChangelogs, CommitCounts, RollbackCounts DEF Next, Step
  <2> QED
    BY <1>2, <2>1, <2>2
<1> QED
  BY <1>1, <1>2, PTL DEF Spec

\* What else is known is known throughout.
LEMMA KnownInvariance ==
  ASSUME CountingConditions
  PROVE  Spec => []Known
<1>1. Spec => []CounterInv
  BY ServiceUsesCounters, CounterInvariance, PTL
<1>2. Spec => []InstalledIffCounted
  BY ServiceInstallsWhatItCounts DEF CountingConditions
<1>3. ServiceInv /\ ChangelogTypes /\ CounterInv /\ InstalledIffCounted => Known
  BY DEF Known
<1> QED
  BY <1>1, <1>2, <1>3, ServiceInvariance, ChangelogTypesInvariance, PTL

LEMMA CountsInvariance ==
  ASSUME CountingConditions
  PROVE  Spec /\ [][~RollbackFails]_vars => [](Known /\ CountsInv)
<1>1. Spec => []Known
  BY KnownInvariance
<1>2. Spec => [][CounterNext]_counterVars
  BY ServiceUsesCounters, PTL DEF CounterSpec
<1>3. Init => CountsInv
  BY CountsInit DEF CountingConditions
<1>4. CountsInv /\ Known /\ Known' /\ [Next]_vars /\ [CounterNext]_counterVars
      /\ [~RollbackFails]_vars => CountsInv'
  BY StepKeepsCounts, StutteringKeepsCounts DEF Next
<1> QED
  BY <1>1, <1>2, <1>3, <1>4, PTL DEF Spec

\* When no request is under way every entry is counted once for every time a
\* configured intent needs it, whatever commits failed and were undone, provided
\* that undoing them does not fail too.
THEOREM CountsTheorem ==
  ASSUME CountingConditions
  PROVE  Spec /\ [][~RollbackFails]_vars => []CountsMatchIntents
<1>1. Spec /\ [][~RollbackFails]_vars => [](Known /\ CountsInv)
  BY CountsInvariance
<1>2. Known /\ CountsInv => CountsMatchIntents
  BY CountsAreOfNeeds DEF CountsMatchIntents
<1> QED
  BY <1>1, <1>2, PTL

\* Undoing starts with a call that failed, so a single one never fails a rollback.
LEMMA OneFailureSparesRollbacks ==
  ASSUME CountingConditions, MaxFailures <= 1
  PROVE  Spec => [][~RollbackFails]_vars
<1>1. Spec => []Known
  BY KnownInvariance
<1>2. Spec => [][CounterNext]_counterVars
  BY ServiceUsesCounters, PTL DEF CounterSpec
<1>3. Init => CountsInv
  BY CountsInit DEF CountingConditions
<1>4. Known /\ CountsInv => ~RollbackFails
  <2> SUFFICES ASSUME Known, CountsInv, NEW i \in Intent, RollbackStep(i), failures' # failures
               PROVE  FALSE
    BY DEF RollbackFails
  <2>1. failures > 0
    BY DEF CountsInv, Progress, RollbackProgress, RollbackStep
  <2>2. failures < MaxFailures
    BY KnownTypes DEF RollbackStep, Apply, Increment, Decrement, WriteEntry, DeleteEntry, Fails
  <2>3. failures \in Nat /\ MaxFailures \in Nat
    BY KnownTypes
  <2> QED
    BY <2>1, <2>2, <2>3
<1>5. CountsInv /\ Known /\ Known' /\ [Next]_vars /\ [CounterNext]_counterVars => CountsInv'
  BY <1>4, StepKeepsCounts, StutteringKeepsCounts DEF Next
<1> QED
  BY <1>1, <1>2, <1>3, <1>4, <1>5, PTL DEF Spec

\* The same with at most one failing call.
THEOREM CountsWithOneFailure ==
  ASSUME CountingConditions, MaxFailures <= 1
  PROVE  Spec => []CountsMatchIntents
BY CountsTheorem, OneFailureSparesRollbacks, PTL

-----------------------------------------------------------------------------
(***************************************************************************)
(* The order of a changelog                                                *)
(***************************************************************************)

Sorted(s) == \A k, l \in DOMAIN s : k <= l => Rank(s[k]) <= Rank(s[l])

\* A changelog, as the number of times each action is to be done, and what of it
\* has been done: it leads from what the intent needs to what it will need, and
\* what is done is not behind what is left.
Follows(i, plan) ==
    /\ \A e \in TableEntry :
          /\ Before(i, e) + plan[<<"create", e>>] = After(i, e) + plan[<<"delete", e>>]
          /\ plan[<<"delete", e>>] <= Before(i, e)
    /\ Sorted(done[i])
    /\ \A a \in Action :
          /\ Count(done[i], a) <= plan[a]
          /\ Count(done[i], a) < plan[a] => \A k \in DOMAIN done[i] : Rank(done[i][k]) <= Rank(a)

FollowsPlan(i) ==
    pc[i] \in {"commit", "rollback"} =>
        \E plan \in [Action -> Nat] :
            /\ Follows(i, plan)
            /\ pc[i] = "commit" =>
                  \A a \in Action : plan[a] = Count(done[i], a) + Copies(a, todo[i])

LEMMA RanksAreNumbers ==
  \A a \in Action : Rank(a) \in 1 .. 10
BY DEF Action, Rank, Stage, TableEntry, SinkEntry, ReportingEntry, TransitEntry, ActivateEntry,
       SourceEntry

\* A request starts with nothing done.
LEMMA PlanIsMade ==
  ASSUME Known, NEW i \in Intent, CommitProgress(i), done[i] = <<>>, pc[i] = "commit",
         \A e \in TableEntry : After(i, e) \in Nat /\ Before(i, e) \in Nat
  PROVE  FollowsPlan(i)
<1> DEFINE plan == [a \in Action |-> Copies(a, todo[i])]
<1>1. IsABag(todo[i])
  BY DEF CommitProgress
<1>2. \A a \in Action : Copies(a, todo[i]) \in Nat
  BY <1>1, CopiesAreNatural
<1>3. plan \in [Action -> Nat]
  BY <1>2
<1>4. \A a : Count(done[i], a) = 0
  BY CountOfNothing
<1>5. ASSUME NEW e \in TableEntry
      PROVE  /\ Before(i, e) + plan[<<"create", e>>] = After(i, e) + plan[<<"delete", e>>]
             /\ plan[<<"delete", e>>] <= Before(i, e)
  <2>1. /\ plan[<<"create", e>>] = ToDo(i, "create", e)
        /\ plan[<<"delete", e>>] = ToDo(i, "delete", e)
    BY DEF Action, ToDo
  <2>2. ToDo(i, "create", e) \in Nat /\ ToDo(i, "delete", e) \in Nat
    BY <1>1, CopiesAreNatural DEF ToDo
  <2>3. Times(i, "create", e) = 0 /\ Times(i, "delete", e) = 0
    BY <1>4 DEF Times
  <2>4. Share(i, e) = Before(i, e) + 0 - 0
    BY <2>3 DEF Share
  <2>5. /\ Share(i, e) + ToDo(i, "create", e) = After(i, e) + ToDo(i, "delete", e)
        /\ 0 + ToDo(i, "delete", e) <= Before(i, e)
    BY <2>3 DEF CommitProgress
  <2> QED
    BY <2>1, <2>2, <2>4, <2>5
<1>6. \A a \in Action : plan[a] = Count(done[i], a) + Copies(a, todo[i])
  BY <1>2, <1>4
<1>7. /\ Sorted(done[i])
      /\ \A a \in Action :
          /\ Count(done[i], a) <= plan[a]
          /\ Count(done[i], a) < plan[a] => \A k \in DOMAIN done[i] : Rank(done[i][k]) <= Rank(a)
  <2>1. DOMAIN done[i] = {}
    OBVIOUS
  <2> QED
    BY <1>3, <1>4, <2>1 DEF Sorted
<1> HIDE DEF plan
<1>8. Follows(i, plan)
  BY <1>5, <1>7 DEF Follows
<1> QED
  BY <1>3, <1>6, <1>8 DEF FollowsPlan

LEMMA PlanIsMadeAnyway ==
  \A i \in Intent : Known /\ Progress(i) /\ pc[i] = "commit" /\ done[i] = <<>> => FollowsPlan(i)
<1> SUFFICES ASSUME NEW i \in Intent, Known, Progress(i), pc[i] = "commit", done[i] = <<>>
             PROVE  FollowsPlan(i)
  OBVIOUS
<1>1. \A e \in TableEntry : After(i, e) \in Nat /\ Before(i, e) \in Nat
  BY SharesAreNatural
<1>2. CommitProgress(i)
  BY DEF Progress
<1> QED
  BY <1>1, <1>2, PlanIsMade

LEMMA PlanIsMadeNext ==
  \A i \in Intent :
      Known' /\ Progress(i)' /\ pc'[i] = "commit" /\ done'[i] = <<>> => FollowsPlan(i)'
<1>1. (\A i \in Intent :
          Known /\ Progress(i) /\ pc[i] = "commit" /\ done[i] = <<>> => FollowsPlan(i))'
  BY PlanIsMadeAnyway, PTL
<1> QED
  BY <1>1

LEMMA SortedAfterOneMore ==
  ASSUME NEW s \in Seq(Action), Sorted(s), NEW a \in Action,
         \A k \in DOMAIN s : Rank(s[k]) <= Rank(a)
  PROVE  Sorted(Append(s, a))
<1> DEFINE t == Append(s, a)
           m == Len(s) + 1
<1>1. /\ DOMAIN s = 1 .. Len(s) /\ DOMAIN t = 1 .. m /\ Len(s) \in Nat
      /\ t[m] = a /\ \A k \in 1 .. Len(s) : t[k] = s[k]
  OBVIOUS
<1>2. Rank(a) <= Rank(a)
  BY RanksAreNumbers
<1> HIDE DEF t
<1>3. ASSUME NEW k \in DOMAIN t, NEW l \in DOMAIN t, k <= l
      PROVE  Rank(t[k]) <= Rank(t[l])
  <2>1. CASE l \in 1 .. Len(s)
    BY <1>1, <1>3, <2>1 DEF Sorted
  <2>2. CASE l = m /\ k = m
    BY <1>1, <1>2, <2>2
  <2>3. CASE l = m /\ k \in 1 .. Len(s)
    BY <1>1, <2>3
  <2> QED
    BY <1>1, <1>3, <2>1, <2>2, <2>3
<1> QED
  BY <1>3 DEF Sorted, t

LEMMA CommitStepFollows ==
  ASSUME Known, NEW i \in Intent, Progress(i), FollowsPlan(i), CommitStep(i)
  PROVE  FollowsPlan(i)'
<1>1. PICK a \in NextActions(i), ok \in BOOLEAN :
          IF ok
          THEN /\ todo' = [todo EXCEPT ![i] = @ (-) SetToBag({a})]
               /\ done' = [done EXCEPT ![i] = Append(@, a)]
               /\ UNCHANGED <<pc, failed>>
          ELSE /\ GoTo(i, "rollback")
               /\ UNCHANGED done
  BY DEF CommitStep
<1>2. /\ pc[i] = "commit" /\ intentState' = intentState /\ intents' = intents
      /\ job' = job /\ request' = request
  BY DEF CommitStep, poolVars
<1>3. a \in Action /\ a \in BagToSet(todo[i]) /\ done[i] \in Seq(Action) /\ IsABag(todo[i])
  BY <1>2 DEF NextActions, Pending, Known, ChangelogTypes, Progress, CommitProgress
<1>4. Held(i)' = Held(i)
  BY <1>2 DEF Held, NumbersOf
<1>5. \A e \in TableEntry : Before(i, e)' = Before(i, e) /\ After(i, e)' = After(i, e)
  BY <1>2, <1>4 DEF Before, After, Configured
<1>6. PICK plan \in [Action -> Nat] :
          /\ Follows(i, plan)
          /\ \A b \in Action : plan[b] = Count(done[i], b) + Copies(b, todo[i])
  BY <1>2 DEF FollowsPlan
<1>7. \A b : Copies(b, todo[i]) \in Nat /\ Count(done[i], b) \in Nat
  BY <1>3, CopiesAreNatural, CountIsNatural
<1>8. CASE ok
  <2>1. /\ todo'[i] = todo[i] (-) SetToBag({a}) /\ done'[i] = Append(done[i], a)
        /\ pc'[i] = "commit"
    BY <1>1, <1>2, <1>8, KnownTypes
  <2>2. \A b : Copies(b, todo[i]) = Copies(b, todo'[i]) + (IF a = b THEN 1 ELSE 0)
    BY <1>3, <2>1, CopiesOfOneLess
  <2>3. IsABag(todo'[i])
    BY <1>3, <2>1, CopiesOfOneLess
  <2>4. \A b : Count(Append(done[i], a), b) = Count(done[i], b) + (IF a = b THEN 1 ELSE 0)
    BY <1>3, CountOfOneMore
  <2>5. \A b : /\ Count(done'[i], b) = Count(done[i], b) + (IF a = b THEN 1 ELSE 0)
               /\ Copies(b, todo'[i]) \in Nat
    BY <2>1, <2>3, <2>4, CopiesAreNatural
  <2>6. \A b \in Action : plan[b] = Count(done'[i], b) + Copies(b, todo'[i])
    BY <1>6, <1>7, <2>2, <2>5
  <2>7. \A k \in DOMAIN done[i] : Rank(done[i][k]) <= Rank(a)
    <3>1. Copies(a, todo[i]) > 0
      BY <1>3, CopiesAreNatural
    <3>2. Count(done[i], a) < plan[a]
      BY <1>3, <1>6, <1>7, <3>1
    <3> QED
      BY <1>3, <1>6, <3>2 DEF Follows
  <2>8. Sorted(done'[i])
    BY <1>3, <1>6, <2>1, <2>7, SortedAfterOneMore DEF Follows
  <2>9. ASSUME NEW b \in Action
        PROVE  /\ Count(done'[i], b) <= plan[b]
               /\ Count(done'[i], b) < plan[b] =>
                     \A k \in DOMAIN done'[i] : Rank(done'[i][k]) <= Rank(b)
    <3>1. Count(done'[i], b) <= plan[b]
      BY <1>7, <2>5, <2>6
    <3>2. SUFFICES ASSUME Count(done'[i], b) < plan[b], NEW k \in DOMAIN done'[i]
                   PROVE  Rank(done'[i][k]) <= Rank(b)
      BY <3>1
    <3>3. Copies(b, todo'[i]) > 0
      BY <1>7, <2>5, <2>6, <3>2
    <3>4. Copies(b, todo[i]) > 0
      BY <2>2, <2>5, <3>3
    <3>5. Rank(a) <= Rank(b)
      <4>1. b \in Pending(i)
        BY <1>3, <3>4, CopiesAreNatural DEF Pending
      <4> QED
        BY <4>1 DEF NextActions
    <3>6. Count(done[i], b) < plan[b]
      <4>1. plan[b] = Count(done[i], b) + Copies(b, todo[i])
        BY <1>6
      <4>2. Count(done[i], b) \in Nat /\ Copies(b, todo[i]) \in Nat
        BY <1>7
      <4> QED
        BY <3>4, <4>1, <4>2
    <3>7. \A l \in DOMAIN done[i] : Rank(done[i][l]) <= Rank(b)
      BY <1>6, <3>6 DEF Follows
    <3>8. \/ k \in DOMAIN done[i] /\ done'[i][k] = done[i][k]
          \/ done'[i][k] = a
      BY <1>3, <2>1
    <3> QED
      BY <3>5, <3>7, <3>8
  <2>10. Follows(i, plan)'
    BY <1>5, <1>6, <2>8, <2>9 DEF Follows
  <2> QED
    BY <2>1, <2>6, <2>10 DEF FollowsPlan
<1>9. CASE ~ok
  <2>1. done' = done /\ pc'[i] = "rollback"
    BY <1>1, <1>9, KnownTypes DEF GoTo
  <2>2. Follows(i, plan)'
    BY <1>5, <1>6, <2>1 DEF Follows
  <2> QED
    BY <2>1, <2>2 DEF FollowsPlan
<1> QED
  BY <1>8, <1>9

LEMMA RollbackStepFollows ==
  ASSUME Known, NEW i \in Intent, FollowsPlan(i), RollbackStep(i)
  PROVE  FollowsPlan(i)'
<1> DEFINE a == done[i][Len(done[i])]
<1>1. /\ pc[i] = "rollback" /\ pc' = pc /\ intentState' = intentState /\ intents' = intents
      /\ job' = job /\ request' = request
      /\ done[i] # <<>> /\ done[i] \in Seq(Action)
      /\ done'[i] = SubSeq(done[i], 1, Len(done[i]) - 1)
  BY DEF RollbackStep, poolVars, Known, ChangelogTypes
<1>2. /\ Len(done[i]) \in DOMAIN done[i] /\ a \in Action /\ done'[i] \in Seq(Action)
      /\ \A k \in DOMAIN done'[i] : /\ k \in DOMAIN done[i] /\ done'[i][k] = done[i][k]
                                    /\ k <= Len(done[i])
  BY <1>1
<1>3. Held(i)' = Held(i)
  BY <1>1 DEF Held, NumbersOf
<1>4. \A e \in TableEntry : Before(i, e)' = Before(i, e) /\ After(i, e)' = After(i, e)
  BY <1>1, <1>3 DEF Before, After, Configured
<1>5. \A b : Count(done[i], b) = Count(done'[i], b) + (IF a = b THEN 1 ELSE 0)
  BY <1>1, CountOfOneLess
<1>6. \A b : Count(done'[i], b) \in Nat
  BY <1>2, CountIsNatural
<1>7. PICK plan \in [Action -> Nat] : Follows(i, plan)
  BY <1>1 DEF FollowsPlan
<1>8. Sorted(done'[i])
  BY <1>2, <1>7 DEF Follows, Sorted
<1>9. ASSUME NEW b \in Action
      PROVE  /\ Count(done'[i], b) <= plan[b]
             /\ Count(done'[i], b) < plan[b] =>
                   \A k \in DOMAIN done'[i] : Rank(done'[i][k]) <= Rank(b)
  <2>1. Count(done[i], b) <= plan[b] /\ plan[b] \in Nat
    BY <1>7 DEF Follows
  <2>2. CASE a = b
    <3>1. \A k \in DOMAIN done'[i] : Rank(done'[i][k]) <= Rank(b)
      BY <1>2, <1>7, <2>2 DEF Follows, Sorted
    <3>2. Count(done[i], b) = Count(done'[i], b) + 1
      BY <1>5, <2>2
    <3> QED
      BY <1>6, <2>1, <3>1, <3>2
  <2>3. CASE a # b
    <3>1. Count(done[i], b) = Count(done'[i], b)
      <4>1. Count(done[i], b) = Count(done'[i], b) + 0
        BY <1>5, <2>3
      <4> QED
        BY <1>6, <4>1
    <3>2. Count(done[i], b) < plan[b] => \A k \in DOMAIN done[i] : Rank(done[i][k]) <= Rank(b)
      BY <1>7 DEF Follows
    <3> QED
      BY <1>2, <2>1, <3>1, <3>2
  <2> QED
    BY <2>2, <2>3
<1>10. Follows(i, plan)'
  BY <1>4, <1>7, <1>8, <1>9 DEF Follows
<1> QED
  BY <1>1, <1>10 DEF FollowsPlan

LEMMA OthersFollow ==
  ASSUME NEW j \in Intent, FollowsPlan(j), NumbersOf(j)' = NumbersOf(j),
         pc'[j] = pc[j], job'[j] = job[j], intentState'[j] = intentState[j],
         request'[j] = request[j], done'[j] = done[j], todo'[j] = todo[j]
  PROVE  FollowsPlan(j)'
<1>1. \A e \in TableEntry : Before(j, e)' = Before(j, e) /\ After(j, e)' = After(j, e)
  BY OthersKeepTheirShare
<1>2. \A plan \in [Action -> Nat] : Follows(j, plan) => Follows(j, plan)'
  BY <1>1 DEF Follows
<1> QED
  BY <1>2 DEF FollowsPlan

\* A step of the intent itself: into a commit, within it or its undoing, or
\* outside of both.
LEMMA OwnStepFollows ==
  ASSUME Known, Known', CountsInv, CountsInv', NEW i \in Intent, FollowsPlan(i),
         \/ \E r \in Request : BeginConfigure(i, r)
         \/ BeginDisable(i) \/ Step(i)
  PROVE  FollowsPlan(i)'
<1>1. Progress(i) /\ Progress(i)'
  BY DEF CountsInv
<1>2. pc \in [Intent -> Steps] /\ job \in [Intent -> {"none", "configure", "disable"}]
  BY KnownTypes
<1>3. CASE CommitStep(i)
  BY <1>1, <1>3, CommitStepFollows
<1>4. CASE RollbackStep(i)
  BY <1>4, RollbackStepFollows
<1>5. CASE Alloc(i) \/ Load(i)
  <2>1. pc[i] \in {"alloc", "load"} /\ done' = done
    BY <1>5 DEF Alloc, Load
  <2>2. pc'[i] \in {"commit", "store", "panic", "leaked"}
    BY <1>2, <1>5 DEF Alloc, Load, GoTo
  <2>3. CASE pc'[i] = "commit"
    <3>1. done'[i] = <<>>
      BY <1>1, <2>1, KnownTypes DEF Progress
    <3> QED
      BY <1>1, <2>3, <3>1, PlanIsMadeNext
  <2>4. CASE pc'[i] # "commit"
    BY <2>2, <2>4 DEF FollowsPlan
  <2> QED
    BY <2>3, <2>4
<1>6. CASE \/ \E r \in Request : BeginConfigure(i, r)
           \/ BeginDisable(i) \/ AllocRefused(i) \/ Store(i) \/ Drop(i) \/ Notify(i)
           \/ FreeNumber(i) \/ DeleteIntentLock(i) \/ UnlockIntent(i)
  <2>1. pc'[i] \notin {"commit", "rollback"}
    <3>1. pc[i] \in {"commit", "rollback"} => job[i] \in {"configure", "disable"}
      BY <1>2, KnownTypes DEF ControlOf
    <3>2. AfterCommit(i) \notin {"commit", "rollback"} \/ job[i] \notin {"configure", "disable"}
      BY DEF AfterCommit
    <3> QED
      BY <1>2, <1>6, <3>1, <3>2
         DEF BeginConfigure, BeginDisable, AllocRefused, Store, Drop, Notify, FreeNumber,
             DeleteIntentLock, UnlockIntent, Start, Finish, GoTo
  <2> QED
    BY <2>1 DEF FollowsPlan
<1> QED
  BY <1>3, <1>4, <1>5, <1>6 DEF Step

PlansInv == \A i \in Intent : FollowsPlan(i)

LEMMA StepKeepsPlans ==
  ASSUME Known, Known', CountsInv, CountsInv', PlansInv, NEW i \in Intent,
         \/ \E r \in Request : BeginConfigure(i, r)
         \/ BeginDisable(i) \/ Step(i)
  PROVE  PlansInv'
<1>1. FollowsPlan(i)'
  BY OwnStepFollows DEF PlansInv
<1>2. ASSUME NEW j \in Intent, j # i
      PROVE  FollowsPlan(j)'
  <2>1. /\ pc'[j] = pc[j] /\ job'[j] = job[j] /\ intentState'[j] = intentState[j]
        /\ request'[j] = request[j] /\ done'[j] = done[j] /\ todo'[j] = todo[j]
        /\ NumbersOf(j)' = NumbersOf(j)
    BY <1>2, OthersAreLeftAlone
  <2> QED
    BY <2>1, OthersFollow DEF PlansInv
<1> QED
  BY <1>1, <1>2 DEF PlansInv

LEMMA StutteringKeepsPlans ==
  ASSUME PlansInv, UNCHANGED vars
  PROVE  PlansInv'
<1>1. /\ pc' = pc /\ job' = job /\ intentState' = intentState /\ request' = request
      /\ done' = done /\ todo' = todo /\ intents' = intents
  BY DEF vars, poolVars, logVars
<1>2. \A j \in Intent : NumbersOf(j)' = NumbersOf(j)
  BY <1>1 DEF NumbersOf
<1> QED
  BY <1>1, <1>2, OthersFollow DEF PlansInv

LEMMA PlansInit == Init => PlansInv
BY DEF Init, PlansInv, FollowsPlan
-----------------------------------------------------------------------------
(* Sources have their sinks *)

\* A source entry that an intent keeps is one that it needs as it is stored, or as
\* it will be, and the intent has all the sinks that go with it.
SourcesHaveSinks(i) ==
    \A e \in SourceEntry : Share(i, e) >= 1 =>
        \/ /\ Before(i, e) >= 1
           /\ \A s \in SinkEntry : Before(i, s) >= 1 => Share(i, s) >= 1
        \/ /\ After(i, e) >= 1 /\ pc[i] \in {"commit", "rollback", "store", "drop"}
           /\ \A s \in SinkEntry : After(i, s) >= 1 => Share(i, s) >= 1

LEMMA AfterIsNatural ==
  ASSUME Known, NEW i \in Intent, pc[i] \in {"commit", "rollback"}, NEW e \in TableEntry
  PROVE  After(i, e) \in Nat
<1>1. request[i] \in Request
  BY DEF Known, ServiceInv, ControlOf
<1>2. IsEntities(EntitiesOf[request[i]])
  BY <1>1, EntitiesOfRequests
<1>3. Occurrences(EntitiesOf[request[i]], Held(i), e) \in Nat
  BY <1>2, OccurrencesAreNatural DEF Known, CountingConditions
<1> QED
  BY <1>3 DEF After

\* The share of an entry in terms of what is done of a plan.
LEMMA SharesAndPlans ==
  ASSUME Known, NEW i \in Intent, Progress(i), pc[i] \in {"commit", "rollback"},
         NEW plan \in [Action -> Nat], Follows(i, plan), NEW e \in TableEntry
  PROVE  /\ Before(i, e) \in Nat /\ After(i, e) \in Nat
         /\ Times(i, "create", e) \in Nat /\ plan[<<"create", e>>] \in Nat
         /\ Times(i, "delete", e) \in Nat /\ plan[<<"delete", e>>] \in Nat
         /\ Times(i, "create", e) <= plan[<<"create", e>>]
         /\ Times(i, "delete", e) <= plan[<<"delete", e>>]
         /\ plan[<<"delete", e>>] <= Before(i, e)
         /\ Before(i, e) + plan[<<"create", e>>] = After(i, e) + plan[<<"delete", e>>]
         /\ Share(i, e) = Before(i, e) + Times(i, "create", e) - Times(i, "delete", e)
<1>1. /\ Before(i, e) \in Nat /\ Times(i, "create", e) \in Nat /\ Times(i, "delete", e) \in Nat
  BY SharesAreNatural
<1>2. After(i, e) \in Nat
  BY AfterIsNatural
<1>3. <<"create", e>> \in Action /\ <<"delete", e>> \in Action
  BY DEF Action
<1>4. /\ Times(i, "create", e) <= plan[<<"create", e>>]
      /\ Times(i, "delete", e) <= plan[<<"delete", e>>]
  BY <1>3 DEF Follows, Times
<1>5. /\ plan[<<"delete", e>>] <= Before(i, e)
      /\ Before(i, e) + plan[<<"create", e>>] = After(i, e) + plan[<<"delete", e>>]
  BY DEF Follows
<1>6. Share(i, e) = Before(i, e) + Times(i, "create", e) - Times(i, "delete", e)
  BY DEF Share
<1>7. plan[<<"create", e>>] \in Nat /\ plan[<<"delete", e>>] \in Nat
  BY <1>3
<1> QED
  BY <1>1, <1>2, <1>4, <1>5, <1>6, <1>7

\* What is done at all, is done at some place; with it everything of lower rank is
\* done as often as it is to be.
LEMMA LowerRanksAreDone ==
  ASSUME Known, NEW i \in Intent, NEW plan \in [Action -> Nat], Follows(i, plan),
         NEW a \in Action, Count(done[i], a) # 0, NEW b \in Action, Rank(b) < Rank(a)
  PROVE  Count(done[i], b) = plan[b]
<1>1. done[i] \in Seq(Action)
  BY DEF Known, ChangelogTypes
<1>2. {k \in DOMAIN done[i] : done[i][k] = a} # {}
  BY FS_EmptySet DEF Count
<1>3. PICK k \in DOMAIN done[i] : done[i][k] = a
  BY <1>2
<1>4. Count(done[i], b) \in Nat /\ Count(done[i], b) <= plan[b] /\ plan[b] \in Nat
  BY <1>1, CountIsNatural DEF Follows
<1>5. ~(Count(done[i], b) < plan[b])
  <2> SUFFICES ASSUME Count(done[i], b) < plan[b] PROVE FALSE
    OBVIOUS
  <2>1. Rank(a) <= Rank(b)
    BY <1>3 DEF Follows
  <2> QED
    BY <2>1, RanksAreNumbers
<1> QED
  BY <1>4, <1>5

LEMMA RanksOfSourcesAndSinks ==
  ASSUME NEW e \in SourceEntry, NEW s \in SinkEntry
  PROVE  /\ e \in TableEntry /\ s \in TableEntry
         /\ <<"create", e>> \in Action /\ <<"delete", e>> \in Action
         /\ <<"create", s>> \in Action /\ <<"delete", s>> \in Action
         /\ Rank(<<"create", s>>) = 1 /\ Rank(<<"create", e>>) = 5
         /\ Rank(<<"delete", e>>) = 6 /\ Rank(<<"delete", s>>) = 10
BY DEF SourceEntry, SinkEntry, TableEntry, Action, Rank, Stage

\* As long as no sink has been deleted, those of the stored state are there; and
\* once a source has been created, so are those of the request.  When one has been
\* deleted, all creations and all deletions of sources are done.
LEMMA CommitsKeepSinks ==
  ASSUME Known, NEW i \in Intent, Progress(i), pc[i] \in {"commit", "rollback"}, FollowsPlan(i)
  PROVE  SourcesHaveSinks(i)
<1>1. PICK plan \in [Action -> Nat] : Follows(i, plan)
  BY DEF FollowsPlan
<1> SUFFICES ASSUME NEW e \in SourceEntry, Share(i, e) >= 1
             PROVE  \/ /\ Before(i, e) >= 1
                       /\ \A s \in SinkEntry : Before(i, s) >= 1 => Share(i, s) >= 1
                    \/ /\ After(i, e) >= 1
                       /\ \A s \in SinkEntry : After(i, s) >= 1 => Share(i, s) >= 1
  BY DEF SourcesHaveSinks
<1>2. e \in TableEntry /\ \A s \in SinkEntry : s \in TableEntry
  BY DEF TableEntry
<1>3. /\ Before(i, e) \in Nat /\ After(i, e) \in Nat
      /\ Times(i, "create", e) \in Nat /\ plan[<<"create", e>>] \in Nat
      /\ Times(i, "delete", e) \in Nat /\ plan[<<"delete", e>>] \in Nat
      /\ Times(i, "create", e) <= plan[<<"create", e>>]
      /\ Times(i, "delete", e) <= plan[<<"delete", e>>]
      /\ plan[<<"delete", e>>] <= Before(i, e)
      /\ Before(i, e) + plan[<<"create", e>>] = After(i, e) + plan[<<"delete", e>>]
      /\ Share(i, e) = Before(i, e) + Times(i, "create", e) - Times(i, "delete", e)
  BY <1>1, <1>2, SharesAndPlans
<1>4. CASE \A s \in SinkEntry : Times(i, "delete", s) = 0
  <2>1. CASE Before(i, e) >= 1
    <3>1. ASSUME NEW s \in SinkEntry, Before(i, s) >= 1 PROVE Share(i, s) >= 1
      <4>1. /\ Before(i, s) \in Nat /\ Times(i, "create", s) \in Nat
            /\ Share(i, s) = Before(i, s) + Times(i, "create", s) - Times(i, "delete", s)
        BY <1>1, <1>2, SharesAndPlans
      <4> QED
        BY <1>4, <3>1, <4>1
    <3> QED
      BY <2>1, <3>1
  <2>2. CASE Before(i, e) = 0
    <3>1. After(i, e) >= 1 /\ Times(i, "create", e) # 0
      BY <1>3, <2>2
    <3>2. ASSUME NEW s \in SinkEntry, After(i, s) >= 1 PROVE Share(i, s) >= 1
      <4>1. Times(i, "create", s) = plan[<<"create", s>>]
        <5>1. /\ <<"create", s>> \in Action /\ <<"create", e>> \in Action
              /\ Rank(<<"create", s>>) < Rank(<<"create", e>>)
          <6>1. /\ <<"create", s>> \in Action /\ <<"create", e>> \in Action
                /\ Rank(<<"create", s>>) = 1 /\ Rank(<<"create", e>>) = 5
            BY RanksOfSourcesAndSinks
          <6> QED
            BY <6>1
        <5>2. Count(done[i], <<"create", e>>) # 0
          BY <3>1 DEF Times
        <5>3. Count(done[i], <<"create", s>>) = plan[<<"create", s>>]
          BY <1>1, <5>1, <5>2, LowerRanksAreDone
        <5> QED
          BY <5>3 DEF Times
      <4>2. /\ Before(i, s) \in Nat /\ After(i, s) \in Nat
            /\ plan[<<"create", s>>] \in Nat /\ plan[<<"delete", s>>] \in Nat
            /\ Before(i, s) + plan[<<"create", s>>] = After(i, s) + plan[<<"delete", s>>]
            /\ Share(i, s) = Before(i, s) + Times(i, "create", s) - Times(i, "delete", s)
        BY <1>1, <1>2, SharesAndPlans
      <4>3. Times(i, "delete", s) = 0
        BY <1>4
      <4> QED
        BY <3>2, <4>1, <4>2, <4>3
    <3> QED
      BY <3>1, <3>2
  <2> QED
    BY <1>3, <2>1, <2>2
<1>5. CASE \E s \in SinkEntry : Times(i, "delete", s) # 0
  <2>1. PICK x \in SinkEntry : Times(i, "delete", x) # 0
    BY <1>5
  <2>2. /\ Times(i, "create", e) = plan[<<"create", e>>]
        /\ Times(i, "delete", e) = plan[<<"delete", e>>]
    <3>1. /\ <<"create", e>> \in Action /\ <<"delete", e>> \in Action
          /\ <<"delete", x>> \in Action
          /\ Rank(<<"create", e>>) < Rank(<<"delete", x>>)
          /\ Rank(<<"delete", e>>) < Rank(<<"delete", x>>)
      <4>1. /\ <<"create", e>> \in Action /\ <<"delete", e>> \in Action
            /\ <<"delete", x>> \in Action
            /\ Rank(<<"create", e>>) = 5 /\ Rank(<<"delete", e>>) = 6
            /\ Rank(<<"delete", x>>) = 10
        BY RanksOfSourcesAndSinks
      <4> QED
        BY <4>1
    <3>2. Count(done[i], <<"delete", x>>) # 0
      BY <2>1 DEF Times
    <3>3. Count(done[i], <<"create", e>>) = plan[<<"create", e>>]
      BY <1>1, <3>1, <3>2, LowerRanksAreDone
    <3>4. Count(done[i], <<"delete", e>>) = plan[<<"delete", e>>]
      BY <1>1, <3>1, <3>2, LowerRanksAreDone
    <3> QED
      BY <3>3, <3>4 DEF Times
  <2>3. After(i, e) >= 1
    BY <1>3, <2>2
  <2>4. ASSUME NEW s \in SinkEntry, After(i, s) >= 1 PROVE Share(i, s) >= 1
    <3>1. Times(i, "create", s) = plan[<<"create", s>>]
      <4>1. /\ <<"create", s>> \in Action /\ <<"delete", x>> \in Action
            /\ Rank(<<"create", s>>) < Rank(<<"delete", x>>)
        <5>1. <<"create", s>> \in Action /\ Rank(<<"create", s>>) = 1
          BY RanksOfSourcesAndSinks
        <5>2. <<"delete", x>> \in Action /\ Rank(<<"delete", x>>) = 10
          BY RanksOfSourcesAndSinks
        <5> QED
          BY <5>1, <5>2
      <4>2. Count(done[i], <<"delete", x>>) # 0
        BY <2>1 DEF Times
      <4>3. Count(done[i], <<"create", s>>) = plan[<<"create", s>>]
        BY <1>1, <4>1, <4>2, LowerRanksAreDone
      <4> QED
        BY <4>3 DEF Times
    <3>2. /\ Before(i, s) \in Nat /\ After(i, s) \in Nat
          /\ plan[<<"create", s>>] \in Nat /\ plan[<<"delete", s>>] \in Nat
          /\ Times(i, "delete", s) \in Nat /\ Times(i, "delete", s) <= plan[<<"delete", s>>]
          /\ Before(i, s) + plan[<<"create", s>>] = After(i, s) + plan[<<"delete", s>>]
          /\ Share(i, s) = Before(i, s) + Times(i, "create", s) - Times(i, "delete", s)
      BY <1>1, <1>2, SharesAndPlans
    <3> QED
      BY <2>4, <3>1, <3>2
  <2> QED
    BY <2>3, <2>4
<1> QED
  BY <1>4, <1>5

LEMMA SourcesHaveTheirSinks ==
  ASSUME Known, NEW i \in Intent, Progress(i), FollowsPlan(i)
  PROVE  SourcesHaveSinks(i)
<1>1. CASE pc[i] \in {"commit", "rollback"}
  BY <1>1, CommitsKeepSinks
<1>2. CASE pc[i] \in {"store", "drop"}
  BY <1>2 DEF SourcesHaveSinks, Share
<1>3. CASE pc[i] \notin {"commit", "rollback", "store", "drop"}
  <2>1. \A e \in TableEntry : Share(i, e) = Before(i, e)
    BY <1>3, SharesAreNatural
  <2>2. SourceEntry \subseteq TableEntry /\ SinkEntry \subseteq TableEntry
    BY DEF TableEntry
  <2> QED
    BY <2>1, <2>2 DEF SourcesHaveSinks
<1> QED
  BY <1>1, <1>2, <1>3
-----------------------------------------------------------------------------
(* What is installed *)

LEMMA InstalledIsShared ==
  ASSUME Known, CountsInv, NEW e \in TableEntry
  PROVE  e \in installed <=> \E i \in Intent : Share(i, e) >= 1
<1> DEFINE f == [i \in Intent |-> Share(i, e)]
<1>1. \A i \in Intent : Share(i, e) \in Nat
  BY SharesAreNatural DEF CountsInv
<1>2. counter[e] = Total(f, Intent) /\ counter[e] \in Nat
  BY KnownTypes DEF CountsInv, CountsAddUp
<1>3. e \in installed <=> counter[e] > 0
  BY TablesAssumption DEF Known, InstalledIffCounted
<1>4. ASSUME NEW i \in Intent, Share(i, e) >= 1 PROVE counter[e] > 0
  <2>1. Share(i, e) <= counter[e]
    BY SharesAreCounted DEF CountsInv
  <2> QED
    BY <1>1, <1>2, <1>4, <2>1
<1>5. ASSUME \A i \in Intent : ~(Share(i, e) >= 1) PROVE counter[e] = 0
  <2>1. \A i \in Intent : f[i] = 0
    BY <1>1, <1>5
  <2> HIDE DEF f
  <2> QED
    BY <1>2, <2>1, TotalOfZeros DEF Known, CountingConditions
<1> QED
  BY <1>2, <1>3, <1>4, <1>5

\* An entry that some request needs.
NeededBy(r, e) == \E n : Occurrences(EntitiesOf[r], n, e) >= 1

\* Behind every source entry is a request that needs it, all of whose sinks are
\* installed.
LEMMA SourcesHaveARequest ==
  ASSUME Known, CountsInv, PlansInv, NEW e \in SourceEntry, e \in installed
  PROVE  \E r \in Request :
            /\ NeededBy(r, e)
            /\ \A s \in SinkEntry : <<s.dev, s.key>> \in EntitiesOf[r].sinks => s \in installed
<1>1. e \in TableEntry /\ \A s \in SinkEntry : s \in TableEntry
  BY DEF TableEntry
<1>2. PICK i \in Intent : Share(i, e) >= 1
  BY <1>1, InstalledIsShared
<1>3. SourcesHaveSinks(i)
  BY SourcesHaveTheirSinks DEF CountsInv, PlansInv
<1>4. \A s \in SinkEntry : Share(i, s) >= 1 => s \in installed
  BY <1>1, InstalledIsShared
<1>5. ASSUME NEW s \in SinkEntry, NEW r, <<s.dev, s.key>> \in EntitiesOf[r].sinks, NEW n
      PROVE  Occurrences(EntitiesOf[r], n, s) >= 1
  BY <1>5 DEF Occurrences, SinkEntry
<1>6. CASE /\ Before(i, e) >= 1
           /\ \A s \in SinkEntry : Before(i, s) >= 1 => Share(i, s) >= 1
  <2>1. Configured(i)
    BY <1>6 DEF Before
  <2>2. intentState[i] \in Request
    BY <2>1 DEF Known, ServiceInv, ControlTypes, Configured
  <2>3. \A x : Before(i, x) = Occurrences(EntitiesOf[intentState[i]], Held(i), x)
    BY <2>1 DEF Before
  <2>4. NeededBy(intentState[i], e)
    BY <1>6, <2>3 DEF NeededBy
  <2> QED
    BY <1>4, <1>5, <1>6, <2>2, <2>3, <2>4
<1>7. CASE /\ After(i, e) >= 1 /\ pc[i] \in {"commit", "rollback", "store", "drop"}
           /\ \A s \in SinkEntry : After(i, s) >= 1 => Share(i, s) >= 1
  <2>1. job[i] = "configure"
    BY <1>7 DEF After
  <2>2. request[i] \in Request
    BY <1>7, <2>1 DEF Known, ServiceInv, ControlOf
  <2>3. \A x : After(i, x) = Occurrences(EntitiesOf[request[i]], Held(i), x)
    BY <2>1 DEF After
  <2>4. NeededBy(request[i], e)
    BY <1>7, <2>3 DEF NeededBy
  <2> QED
    BY <1>4, <1>5, <1>7, <2>2, <2>3, <2>4
<1> QED
  BY <1>2, <1>3, <1>6, <1>7 DEF SourcesHaveSinks

\* A source entry is needed for some edge of its switch.
LEMMA NeededSourcesAreOnEdges ==
  ASSUME IsFiniteSet(Edge), NEW r \in Request, NEW e \in SourceEntry, NeededBy(r, e)
  PROVE  \E x \in DOMAIN EntitiesOf[r].sources :
            x[1] = e.dev /\ EntitiesOf[r].sources[x][e.key] > 0
<1> DEFINE ents == EntitiesOf[r]
           edges == {x \in DOMAIN ents.sources : x[1] = e.dev}
           f == [x \in edges |-> ents.sources[x][e.key]]
<1>1. IsEntities(ents)
  BY EntitiesOfRequests
<1>2. IsFiniteSet(edges)
  <2>1. edges \subseteq Edge
    BY <1>1 DEF IsEntities
  <2> QED
    BY <2>1, FS_Subset
<1>3. \A x \in edges : f[x] \in Nat
  BY <1>1 DEF IsEntities, SourceEntry
<1>4. e.kind = "source"
  BY DEF SourceEntry
<1>5. \A n : Occurrences(ents, n, e) = Total(f, edges)
  BY <1>4 DEF Occurrences
<1> HIDE DEF f, edges
<1>6. Total(f, edges) # 0
  <2>1. PICK n : Occurrences(ents, n, e) >= 1
    BY DEF NeededBy
  <2> QED
    BY <1>5, <2>1
<1>7. ~(\A x \in edges : f[x] = 0)
  BY <1>2, <1>6, TotalOfZeros
<1> QED
  BY <1>3, <1>7 DEF f, edges
-----------------------------------------------------------------------------
(* A packet on its way *)

LEMMA EveryNumberOf ==
  ASSUME NEW n \in Nat, NEW Q, n >= 1 => 1 \in Q,
         \A m \in 1 .. n : m < n /\ m \in Q => m + 1 \in Q
  PROVE  \A m \in 1 .. n : m \in Q
<1> SUFFICES ASSUME NEW m \in 1 .. n PROVE m \in Q
  OBVIOUS
<1> DEFINE P == {T \in SUBSET (1 .. m) : \A k \in 1 .. m : T = 1 .. k => k \in Q}
<1>1. IsFiniteSet(1 .. m)
  BY FS_Interval
<1>2. ASSUME NEW T \in SUBSET (1 .. m), \A U \in SUBSET T : U # T => U \in P
      PROVE  T \in P
  <2> SUFFICES ASSUME NEW k \in 1 .. m, T = 1 .. k PROVE k \in Q
    OBVIOUS
  <2>1. CASE k = 1
    BY <2>1
  <2>2. CASE k # 1
    <3>1. 1 .. (k - 1) \in SUBSET T /\ 1 .. (k - 1) # T
      BY <2>2
    <3>2. 1 .. (k - 1) \in P
      BY <1>2, <3>1
    <3>3. k - 1 \in 1 .. m /\ k - 1 \in 1 .. n /\ k - 1 < n /\ (k - 1) + 1 = k
      BY <2>2
    <3>4. k - 1 \in Q
      BY <3>2, <3>3
    <3> QED
      BY <3>3, <3>4
  <2> QED
    BY <2>1, <2>2
<1>3. 1 .. m \in P
  <2> DEFINE S == 1 .. m
  <2>1. IsFiniteSet(S) /\ \A T \in SUBSET S : (\A U \in SUBSET T : U # T => U \in P) => T \in P
    BY <1>1, <1>2
  <2> HIDE DEF P, S
  <2>2. S \in P
    BY <2>1, SubsetInduction
  <2> QED
    BY <2>2 DEF S
<1> QED
  BY <1>3 DEF P

\* The states of a packet on a way, and whether a switch adds or strips there.
Clean == [header |-> FALSE, measured |-> <<>>, reported |-> FALSE]
MeetsAt(entries, pkt, way, k, s) == Meets(entries, pkt, way[k], way[k - 1], way[k + 1], s)
IsTrip(f, entries, pkt, way, n) ==
    f = [k \in 1 .. n |-> IF k = 1 THEN Clean ELSE MeetsAt(entries, pkt, way, k, f[k - 1])]

LEMMA TripExists ==
  ASSUME NEW entries, NEW pkt, NEW way, NEW n \in Nat
  PROVE  \E f : IsTrip(f, entries, pkt, way, n)
<1> DEFINE Q == {m \in 0 .. n : \E f : IsTrip(f, entries, pkt, way, m)}
<1>1. \E f : IsTrip(f, entries, pkt, way, 1)
  <2> DEFINE f == [k \in 1 .. 1 |-> Clean]
  <2>1. IsTrip(f, entries, pkt, way, 1)
    <3>1. \A k \in 1 .. 1 : k = 1
      OBVIOUS
    <3> QED
      BY <3>1 DEF IsTrip
  <2> QED
    BY <2>1
<1>2. \E f : IsTrip(f, entries, pkt, way, 0)
  <2> DEFINE f == [k \in 1 .. 0 |-> Clean]
  <2>1. IsTrip(f, entries, pkt, way, 0)
    BY DEF IsTrip
  <2> QED
    BY <2>1
<1>3. ASSUME NEW m \in 1 .. n, m < n, m \in Q PROVE m + 1 \in Q
  <2>1. PICK f : IsTrip(f, entries, pkt, way, m)
    BY <1>3
  <2> DEFINE g == [k \in 1 .. m + 1 |->
                      IF k <= m THEN f[k] ELSE MeetsAt(entries, pkt, way, k, f[k - 1])]
  <2>2. \A k \in 1 .. m : f[k] = IF k = 1 THEN Clean ELSE MeetsAt(entries, pkt, way, k, f[k - 1])
    BY <2>1 DEF IsTrip
  <2>3. \A k \in 1 .. m + 1 :
           g[k] = IF k = 1 THEN Clean ELSE MeetsAt(entries, pkt, way, k, g[k - 1])
    <3> SUFFICES ASSUME NEW k \in 1 .. m + 1
                 PROVE  g[k] = IF k = 1 THEN Clean ELSE MeetsAt(entries, pkt, way, k, g[k - 1])
      OBVIOUS
    <3>1. CASE k = 1
      BY <2>2, <3>1
    <3>2. CASE k # 1
      <4>1. k - 1 \in 1 .. m /\ g[k - 1] = f[k - 1]
        BY <3>2
      <4>2. CASE k <= m
        <5>1. g[k] = f[k] /\ k \in 1 .. m
          BY <4>2
        <5> HIDE DEF g
        <5> QED
          BY <2>2, <3>2, <4>1, <5>1
      <4>3. CASE ~(k <= m)
        <5>1. g[k] = MeetsAt(entries, pkt, way, k, f[k - 1])
          BY <4>3
        <5> HIDE DEF g
        <5> QED
          BY <3>2, <4>1, <5>1
      <4> QED
        BY <4>2, <4>3
    <3> QED
      BY <3>1, <3>2
  <2>4. g = [k \in 1 .. m + 1 |-> g[k]]
    OBVIOUS
  <2> HIDE DEF g
  <2>5. IsTrip(g, entries, pkt, way, m + 1)
    BY <2>3, <2>4 DEF IsTrip
  <2> QED
    BY <1>3, <2>5
<1>4. n >= 1 => 1 \in Q
  BY <1>1
<1>5. n \in Q
  <2> HIDE DEF Q
  <2>1. \A m \in 1 .. n : m \in Q
    BY <1>3, <1>4, EveryNumberOf
  <2>2. CASE n = 0
    BY <1>2, <2>2 DEF Q
  <2>3. CASE n # 0
    BY <2>1, <2>3
  <2> QED
    BY <2>2, <2>3
<1> QED
  BY <1>5

LEMMA DeliveredIsATrip ==
  ASSUME NEW entries, NEW pkt, NEW way, way = Route[<<pkt.src, pkt.dst>>],
         NEW n \in Nat, n = Len(way) - 1
  PROVE  \E f : IsTrip(f, entries, pkt, way, n) /\ Delivered(entries, pkt) = f[n]
<1> DEFINE t == CHOOSE f : IsTrip(f, entries, pkt, way, n)
<1>1. IsTrip(t, entries, pkt, way, n)
  BY TripExists
<1>2. Delivered(entries, pkt) = t[n]
  BY DEF Delivered, IsTrip, MeetsAt, Clean
<1> QED
  BY <1>1, <1>2

\* A switch adds the header to a packet that comes from there, and strips it off
\* one that goes there.
Adds(entries, pkt, way, k) ==
    /\ way[k] \in Device
    /\ \E c \in Config : Matches(pkt, c) /\ [kind |-> "source", dev |-> way[k], key |-> c] \in entries
Strips(entries, way, k) ==
    way[k] \in Device /\ [kind |-> "sink", dev |-> way[k], key |-> way[k + 1]] \in entries

LEMMA HeaderIsAdded ==
  ASSUME NEW entries, NEW pkt, NEW way, NEW k, NEW s, s.header \in BOOLEAN
  PROVE  LET t == MeetsAt(entries, pkt, way, k, s)
         IN /\ t.header \in BOOLEAN
            /\ t.header => s.header \/ Adds(entries, pkt, way, k)
            /\ t.header => ~Strips(entries, way, k)
<1> DEFINE d == way[k]
           t == MeetsAt(entries, pkt, way, k, s)
<1>1. CASE d \notin Device
  <2>1. t = s
    BY <1>1 DEF MeetsAt, Meets
  <2> QED
    BY <1>1, <2>1 DEF Strips
<1>2. CASE d \in Device
  <2> DEFINE source ==
                /\ [kind |-> "activate", dev |-> d, key |-> way[k - 1]] \in entries
                /\ \E c \in Config :
                      Matches(pkt, c) /\ [kind |-> "source", dev |-> d, key |-> c] \in entries
             sink == [kind |-> "sink", dev |-> d, key |-> way[k + 1]] \in entries
  <2>1. t.header = ((s.header \/ source) /\ ~((s.header \/ source) /\ sink))
    BY <1>2 DEF MeetsAt, Meets
  <2>2. source => Adds(entries, pkt, way, k)
    BY <1>2 DEF Adds
  <2>3. Strips(entries, way, k) => sink
    BY DEF Strips
  <2> HIDE DEF t, source, sink
  <2>4. t.header \in BOOLEAN
    BY <2>1
  <2>5. t.header => (s.header \/ source) /\ ~sink
    BY <2>1
  <2>6. t.header => (s.header \/ Adds(entries, pkt, way, k)) /\ ~Strips(entries, way, k)
    BY <2>2, <2>3, <2>5
  <2> QED
    BY <2>4, <2>6 DEF t
<1> QED
  BY <1>1, <1>2

\* A packet with a header has got it somewhere, and no sink has been there since.
LEMMA HeadersComeFromSources ==
  ASSUME NEW entries, NEW pkt, NEW way, NEW n \in Nat, n >= 1,
         NEW f, IsTrip(f, entries, pkt, way, n)
  PROVE  /\ f[n].header \in BOOLEAN
         /\ f[n].header => \E k \in 2 .. n : /\ Adds(entries, pkt, way, k)
                                             /\ \A j \in k .. n : ~Strips(entries, way, j)
<1> DEFINE Since(m) == \E k \in 2 .. m : /\ Adds(entries, pkt, way, k)
                                         /\ \A j \in k .. m : ~Strips(entries, way, j)
           Q == {m \in 1 .. n : f[m].header \in BOOLEAN /\ (f[m].header => Since(m))}
<1>1. \A k \in 1 .. n : f[k] = IF k = 1 THEN Clean ELSE MeetsAt(entries, pkt, way, k, f[k - 1])
  BY DEF IsTrip
<1>2. 1 \in Q
  <2>1. f[1] = Clean
    BY <1>1
  <2>2. f[1].header = FALSE
    BY <2>1 DEF Clean
  <2>3. f[1].header \in BOOLEAN
    BY <2>2
  <2>4. 1 \in 1 .. n
    OBVIOUS
  <2> HIDE DEF Since
  <2>5. f[1].header => Since(1)
    BY <2>2
  <2> QED
    BY <2>3, <2>4, <2>5
<1>3. ASSUME NEW m \in 1 .. n, m < n, m \in Q PROVE m + 1 \in Q
  <2>1. f[m].header \in BOOLEAN /\ (f[m].header => Since(m))
    BY <1>3
  <2>2. m + 1 \in 1 .. n /\ m + 1 # 1 /\ (m + 1) - 1 = m
    BY <1>3
  <2>3. f[m + 1] = MeetsAt(entries, pkt, way, m + 1, f[m])
    BY <1>1, <2>2
  <2>4. /\ f[m + 1].header \in BOOLEAN
        /\ f[m + 1].header => f[m].header \/ Adds(entries, pkt, way, m + 1)
        /\ f[m + 1].header => ~Strips(entries, way, m + 1)
    BY <2>1, <2>3, HeaderIsAdded
  <2>5. ASSUME Since(m), ~Strips(entries, way, m + 1) PROVE Since(m + 1)
    <3>1. PICK k \in 2 .. m : /\ Adds(entries, pkt, way, k)
                              /\ \A j \in k .. m : ~Strips(entries, way, j)
      BY <2>5
    <3>2. k \in 2 .. m + 1 /\ \A j \in k .. m + 1 : j \in k .. m \/ j = m + 1
      OBVIOUS
    <3> QED
      BY <2>5, <3>1, <3>2
  <2>6. ASSUME Adds(entries, pkt, way, m + 1), ~Strips(entries, way, m + 1) PROVE Since(m + 1)
    <3>1. m + 1 \in 2 .. m + 1 /\ \A j \in m + 1 .. m + 1 : j = m + 1
      OBVIOUS
    <3> QED
      BY <2>6, <3>1
  <2> HIDE DEF Since
  <2>7. f[m + 1].header => Since(m + 1)
    BY <2>1, <2>4, <2>5, <2>6
  <2> QED
    BY <2>2, <2>4, <2>7
<1>4. n \in Q
  <2> HIDE DEF Q
  <2>1. \A m \in 1 .. n : m \in Q
    BY <1>2, <1>3, EveryNumberOf
  <2> QED
    BY <2>1
<1> QED
  BY <1>4
-----------------------------------------------------------------------------
(* All together *)

\* The entries that add a header have, behind them on the packet's way, one that
\* takes it off.
LEMMA InstalledSourcesAreStripped ==
  ASSUME RequestsStripTheirPackets, Known, CountsInv, PlansInv, NEW pkt \in Packet,
         NEW way, way = Route[<<pkt.src, pkt.dst>>], NEW k \in 2 .. Len(way) - 1,
         Adds(installed, pkt, way, k)
  PROVE  \E j \in k .. Len(way) - 1 : Strips(installed, way, j)
<1>1. PICK c \in Config : /\ Matches(pkt, c)
                          /\ [kind |-> "source", dev |-> way[k], key |-> c] \in installed
  BY DEF Adds
<1> DEFINE e == [kind |-> "source", dev |-> way[k], key |-> c]
<1>2. e \in SourceEntry /\ e \in installed /\ e.dev = way[k] /\ e.key = c
  BY <1>1 DEF Adds, SourceEntry
<1>3. PICK r \in Request :
          /\ NeededBy(r, e)
          /\ \A s \in SinkEntry : <<s.dev, s.key>> \in EntitiesOf[r].sinks => s \in installed
  BY <1>2, SourcesHaveARequest
<1>4. PICK x \in DOMAIN EntitiesOf[r].sources :
          x[1] = way[k] /\ EntitiesOf[r].sources[x][c] > 0
  BY <1>2, <1>3, NeededSourcesAreOnEdges DEF Known, CountingConditions
<1>5. PICK j \in k .. Len(way) - 1 : <<way[j], way[j + 1]>> \in EntitiesOf[r].sinks
  BY <1>1, <1>4 DEF RequestsStripTheirPackets
<1>6. way[j] \in Device /\ way[j + 1] \in Peer
  <2>1. <<way[j], way[j + 1]>> \in Device \X Peer
    BY <1>5, EntitiesOfRequests DEF IsEntities, Edge
  <2> QED
    BY <2>1
<1> DEFINE s == [kind |-> "sink", dev |-> way[j], key |-> way[j + 1]]
<1>7. s \in SinkEntry /\ <<s.dev, s.key>> \in EntitiesOf[r].sinks
  BY <1>5, <1>6 DEF SinkEntry
<1>8. s \in installed
  BY <1>3, <1>7
<1> QED
  BY <1>6, <1>8 DEF Strips

LEMMA HeadersAreStrippedWhen ==
  ASSUME RequestsStripTheirPackets, Known, CountsInv, PlansInv
  PROVE  HeadersAreStripped
<1> SUFFICES ASSUME NEW pkt \in Packet PROVE ~Delivered(installed, pkt).header
  BY DEF HeadersAreStripped
<1> DEFINE way == Route[<<pkt.src, pkt.dst>>]
           n == Len(way) - 1
<1>1. way \in Seq(Node) /\ Len(way) >= 2
  <2>1. Request # {}
    BY DEF Packet
  <2> QED
    BY <2>1 DEF RequestsStripTheirPackets
<1>2. n \in Nat /\ n >= 1
  BY <1>1
<1>3. PICK f : IsTrip(f, installed, pkt, way, n) /\ Delivered(installed, pkt) = f[n]
  BY <1>2, DeliveredIsATrip
<1> HIDE DEF way
<1>4. \A k \in 2 .. n : Adds(installed, pkt, way, k) => \E j \in k .. n : Strips(installed, way, j)
  BY InstalledSourcesAreStripped DEF way
<1> HIDE DEF n
<1>5. /\ f[n].header \in BOOLEAN
      /\ f[n].header => \E k \in 2 .. n : /\ Adds(installed, pkt, way, k)
                                          /\ \A j \in k .. n : ~Strips(installed, way, j)
  BY <1>2, <1>3, HeadersComeFromSources
<1>6. ~f[n].header
  BY <1>4, <1>5
<1> QED
  BY <1>3, <1>6

LEMMA PlansInvariance ==
  ASSUME CountingConditions
  PROVE  Spec /\ [][~RollbackFails]_vars => [](Known /\ CountsInv /\ PlansInv)
<1>1. Spec /\ [][~RollbackFails]_vars => [](Known /\ CountsInv)
  BY CountsInvariance
<1>2. Init => PlansInv
  BY PlansInit
<1>3. PlansInv /\ Known /\ CountsInv /\ Known' /\ CountsInv' /\ [Next]_vars => PlansInv'
  BY StepKeepsPlans, StutteringKeepsPlans DEF Next
<1> QED
  BY <1>1, <1>2, <1>3, PTL DEF Spec

\* No packet is delivered with a header, in the middle of commits and rollbacks
\* either, in any topology where every request has sinks for the packets that its
\* sources add headers to.
THEOREM HeadersTheorem ==
  ASSUME CountingConditions, RequestsStripTheirPackets
  PROVE  Spec /\ [][~RollbackFails]_vars => []HeadersAreStripped
<1>1. Spec /\ [][~RollbackFails]_vars => [](Known /\ CountsInv /\ PlansInv)
  BY PlansInvariance
<1>2. Known /\ CountsInv /\ PlansInv => HeadersAreStripped
  BY HeadersAreStrippedWhen
<1> QED
  BY <1>1, <1>2, PTL

\* The same with at most one failing call.
THEOREM HeadersWithOneFailure ==
  ASSUME CountingConditions, RequestsStripTheirPackets, MaxFailures <= 1
  PROVE  Spec => []HeadersAreStripped
BY HeadersTheorem, OneFailureSparesRollbacks, PTL

-----------------------------------------------------------------------------
(***************************************************************************)
(* The flows of an intent                                                  *)
(***************************************************************************)

\* The entries of a switch of a way, and whether a packet has a header there before
\* the switch acts as a sink.
Has(entries, way, k, kind, key) == [kind |-> kind, dev |-> way[k], key |-> key] \in entries
Carries(entries, pkt, way, k, s) ==
    \/ s.header
    \/ /\ Has(entries, way, k, "activate", way[k - 1])
       /\ \E c \in Config : Matches(pkt, c) /\ Has(entries, way, k, "source", c)
Reports(entries, way, k) == \E m \in Number : Has(entries, way, k, "reporting", m)

LEMMA MetAtSwitch ==
  ASSUME NEW entries, NEW pkt, NEW way, NEW k, way[k] \in Device, NEW s, NEW t,
         t = MeetsAt(entries, pkt, way, k, s)
  PROVE  LET carries == Carries(entries, pkt, way, k, s)
             sink == Has(entries, way, k, "sink", way[k + 1])
         IN /\ t.header = (carries /\ ~sink)
            /\ t.measured = IF carries /\ Has(entries, way, k, "transit", 0)
                            THEN Append(s.measured, way[k]) ELSE s.measured
            /\ t.reported = (s.reported \/ (carries /\ sink /\ Reports(entries, way, k)))
<1> DEFINE H == Carries(entries, pkt, way, k, s)
           S == Has(entries, way, k, "sink", way[k + 1])
           T == Has(entries, way, k, "transit", 0)
           R == Reports(entries, way, k)
<1>1. t = [header |-> H /\ ~(H /\ S),
           measured |-> IF H /\ T THEN Append(s.measured, way[k]) ELSE s.measured,
           reported |-> s.reported \/ (H /\ S /\ R)]
  BY DEF MeetsAt, Meets, Carries, Reports, Has
<1> HIDE DEF H, S, T, R
<1>2. /\ t.header = (H /\ ~(H /\ S))
      /\ t.measured = IF H /\ T THEN Append(s.measured, way[k]) ELSE s.measured
      /\ t.reported = (s.reported \/ (H /\ S /\ R))
  BY <1>1
<1>3. (H /\ ~(H /\ S)) = (H /\ ~S)
  OBVIOUS
<1>4. t.header = (H /\ ~S)
  BY <1>2, <1>3
<1> QED
  BY <1>2, <1>4 DEF H, S, T, R

\* What the entries of a flow's way have to be.
Covers(entries, pkt, way, first, last) ==
    /\ {first, last} \subseteq {k \in 1 .. Len(way) : way[k] \in Device}
    /\ {k \in 1 .. Len(way) : way[k] \in Device} \subseteq first .. last
    /\ Has(entries, way, first, "activate", way[first - 1])
    /\ \E c \in Config : Matches(pkt, c) /\ Has(entries, way, first, "source", c)
    /\ \A k \in 1 .. Len(way) : way[k] \in Device => Has(entries, way, k, "transit", 0)
    /\ Has(entries, way, last, "sink", way[last + 1])
    /\ Reports(entries, way, last)
    /\ \A k \in first .. last - 1 : ~Has(entries, way, k, "sink", way[k + 1])

\* Then the packet has its header from the first switch to the last.
Stages(f, first, last, m) ==
    /\ m < first => f[m] = Clean
    /\ first <= m /\ m < last => f[m].header = TRUE
    /\ last <= m => f[m].header = FALSE /\ f[m].reported = TRUE

MeasuresNext(f, way, m) ==
    f[m + 1].measured = IF way[m + 1] \in Device THEN Append(f[m].measured, way[m + 1])
                        ELSE f[m].measured

LEMMA OneStageFurther ==
  ASSUME NEW entries, NEW pkt, NEW way \in Seq(Node), NEW first \in 2 .. Len(way) - 1,
         NEW last \in 2 .. Len(way) - 1, Covers(entries, pkt, way, first, last),
         NEW n, n = Len(way) - 1, NEW f, IsTrip(f, entries, pkt, way, n),
         NEW m \in 1 .. n - 1, Stages(f, first, last, m)
  PROVE  /\ Stages(f, first, last, m + 1)
         /\ MeasuresNext(f, way, m)
<1> DEFINE k == m + 1
           s == f[m]
           t == f[k]
<1>0. /\ Len(way) \in Nat /\ m \in Nat /\ n \in Nat /\ k \in 2 .. n /\ first \in Nat /\ last \in Nat
      /\ first <= last /\ way[first] \in Device /\ way[last] \in Device
  <2>1. Len(way) \in Nat
    OBVIOUS
  <2>2. first \in first .. last /\ way[first] \in Device /\ way[last] \in Device
    BY DEF Covers
  <2> QED
    BY <2>1, <2>2
<1>1. t = MeetsAt(entries, pkt, way, k, s)
  <2>1. k \in 1 .. n /\ k # 1 /\ k - 1 = m
    BY <1>0
  <2> QED
    BY <2>1 DEF IsTrip
<1>3. CASE way[k] \notin Device
  <2>1. t = s
    BY <1>1, <1>3 DEF MeetsAt, Meets
  <2>2. k # first /\ k # last
    BY <1>0, <1>3
  <2>3. (k < first => m < first) /\ (first <= k => first <= m) /\ (k < last => m < last) /\ (last <= k => last <= m)
    BY <1>0, <2>2
  <2> QED
    BY <1>3, <2>1, <2>3 DEF Stages, MeasuresNext
<1>2. CASE way[k] \in Device
  <2>1. k \in first .. last
    <3>1. k \in 1 .. Len(way)
      BY <1>0
    <3> QED
      BY <1>2, <3>1 DEF Covers
  <2> DEFINE carries == Carries(entries, pkt, way, k, s)
             sink == Has(entries, way, k, "sink", way[k + 1])
             transit == Has(entries, way, k, "transit", 0)
             reports == Reports(entries, way, k)
  <2>2. /\ t.header = (carries /\ ~sink)
        /\ t.measured = IF carries /\ transit THEN Append(s.measured, way[k]) ELSE s.measured
        /\ t.reported = (s.reported \/ (carries /\ sink /\ reports))
    <3> HIDE DEF k, s, t
    <3> QED
      BY <1>1, <1>2, MetAtSwitch
  <2>3. transit
    <3>1. k \in 1 .. Len(way)
      BY <1>0
    <3> QED
      BY <1>2, <3>1 DEF Covers
  <2>4. k = first => carries
    BY DEF Covers, Carries
  <2>5. k # first => carries
    <3>1. k # first => first <= m /\ m < last
      BY <1>0, <2>1
    <3> QED
      BY <3>1 DEF Stages, Carries
  <2>6. k # last => ~sink
    <3>1. k # last => k \in first .. last - 1
      BY <1>0, <2>1
    <3> QED
      BY <3>1 DEF Covers
  <2>7. k = last => sink /\ reports
    BY DEF Covers
  <2>8. carries
    BY <2>4, <2>5
  <2> HIDE DEF carries, sink, transit, reports, s, t
  <2>9. t.measured = Append(s.measured, way[k])
    BY <2>2, <2>3, <2>8
  <2>10. k # last => t.header = TRUE
    BY <2>2, <2>6, <2>8
  <2>11. k = last => t.header = FALSE /\ t.reported = TRUE
    BY <2>2, <2>7, <2>8
  <2>12. ~(k < first) /\ (k < last => k # last) /\ (last <= k => k = last)
    BY <1>0, <2>1
  <2>13. Stages(f, first, last, k)
    BY <2>10, <2>11, <2>12 DEF Stages, t
  <2> QED
    BY <1>2, <2>9, <2>13 DEF s, t, MeasuresNext
<1> QED
  BY <1>3, <1>2

LEMMA AllStages ==
  ASSUME NEW entries, NEW pkt, NEW way \in Seq(Node), NEW first \in 2 .. Len(way) - 1,
         NEW last \in 2 .. Len(way) - 1, Covers(entries, pkt, way, first, last),
         NEW n, n = Len(way) - 1, NEW f, IsTrip(f, entries, pkt, way, n)
  PROVE  \A m \in 1 .. n : Stages(f, first, last, m)
<1> DEFINE Q == {m \in 1 .. n : Stages(f, first, last, m)}
<1>1. n \in Nat /\ n >= 1 /\ first \in Nat /\ last \in Nat /\ 1 < first /\ 1 < last
  OBVIOUS
<1>2. 1 \in Q
  <2>1. 1 \in 1 .. n
    BY <1>1
  <2>2. f[1] = Clean
    BY <2>1 DEF IsTrip
  <2>3. ~(first <= 1) /\ ~(last <= 1)
    BY <1>1
  <2> QED
    BY <2>1, <2>2, <2>3 DEF Stages
<1>3. ASSUME NEW m \in 1 .. n, m < n, m \in Q PROVE m + 1 \in Q
  <2>1. m \in 1 .. n - 1 /\ m + 1 \in 1 .. n
    BY <1>1, <1>3
  <2>2. Stages(f, first, last, m)
    BY <1>3
  <2>3. Stages(f, first, last, m + 1)
    BY <2>1, <2>2, OneStageFurther
  <2> QED
    BY <2>1, <2>3
<1> HIDE DEF Q
<1>4. \A m \in 1 .. n : m \in Q
  BY <1>1, <1>2, <1>3, EveryNumberOf
<1> QED
  BY <1>4 DEF Q

\* The devices of a way, in their order.
Among(way, f) ==
    f = [k \in 0 .. Len(way) |->
            IF k = 0 THEN <<>>
            ELSE IF way[k] \in Device THEN Append(f[k - 1], way[k]) ELSE f[k - 1]]

LEMMA AmongIsUnique ==
  ASSUME NEW way \in Seq(Node), Len(way) >= 1, NEW f, Among(way, f), NEW g, Among(way, g)
  PROVE  f[Len(way)] = g[Len(way)]
<1> DEFINE Q == {m \in 1 .. Len(way) : f[m] = g[m]}
<1>1. f[0] = g[0]
  BY DEF Among
<1>2. ASSUME NEW m \in 1 .. Len(way), f[m - 1] = g[m - 1] PROVE f[m] = g[m]
  <2>1. m \in 0 .. Len(way) /\ m # 0
    OBVIOUS
  <2>2. f[m] = IF way[m] \in Device THEN Append(f[m - 1], way[m]) ELSE f[m - 1]
    BY <2>1 DEF Among
  <2>3. g[m] = IF way[m] \in Device THEN Append(g[m - 1], way[m]) ELSE g[m - 1]
    BY <2>1 DEF Among
  <2> QED
    BY <1>2, <2>2, <2>3
<1>3. 1 >= 1 => 1 \in Q
  BY <1>1, <1>2
<1>4. ASSUME NEW m \in 1 .. Len(way), m < Len(way), m \in Q PROVE m + 1 \in Q
  <2>1. m + 1 \in 1 .. Len(way) /\ (m + 1) - 1 = m
    BY <1>4
  <2> QED
    BY <1>2, <1>4, <2>1
<1>5. Len(way) \in Nat /\ Len(way) \in 1 .. Len(way)
  OBVIOUS
<1> HIDE DEF Q
<1>6. \A m \in 1 .. Len(way) : m \in Q
  BY <1>3, <1>4, <1>5, EveryNumberOf
<1> QED
  BY <1>5, <1>6 DEF Q

\* A trip along covered entries is measured where it can be, and reported.
LEMMA CoveredTripsAreMeasured ==
  ASSUME NEW entries, NEW pkt, NEW way \in Seq(Node), way = Route[<<pkt.src, pkt.dst>>],
         NEW first \in 2 .. Len(way) - 1, NEW last \in 2 .. Len(way) - 1,
         Covers(entries, pkt, way, first, last), NEW n, n = Len(way) - 1
  PROVE  /\ Delivered(entries, pkt).measured = Measurers(pkt)
         /\ Delivered(entries, pkt).reported = TRUE
<1>1. n \in Nat /\ n >= 2 /\ Len(way) \in Nat /\ Len(way) = n + 1 /\ last \in Nat /\ last <= n
  OBVIOUS
<1>2. PICK f : IsTrip(f, entries, pkt, way, n) /\ Delivered(entries, pkt) = f[n]
  <2>1. n \in Nat
    BY <1>1
  <2> QED
    BY <2>1, DeliveredIsATrip
<1>3. f[n].reported = TRUE
  <2>1. \A m \in 1 .. n : Stages(f, first, last, m)
    BY <1>2, AllStages
  <2>2. n \in 1 .. n
    BY <1>1
  <2> QED
    BY <1>1, <2>1, <2>2 DEF Stages
<1> DEFINE g == [k \in 0 .. Len(way) |-> IF k = 0 THEN <<>> ELSE IF k <= n THEN f[k].measured
                                         ELSE f[n].measured]
<1>4. way[1] \notin Device /\ way[n + 1] \notin Device
  <2>1. \A k \in 1 .. Len(way) : way[k] \in Device => k \in first .. last
    BY DEF Covers
  <2>2. 1 \in 1 .. Len(way) /\ 1 \notin first .. last
    BY <1>1
  <2>3. n + 1 \in 1 .. Len(way) /\ n + 1 \notin first .. last
    BY <1>1
  <2> QED
    BY <2>1, <2>2, <2>3
<1>5. ASSUME NEW k \in 1 .. Len(way)
      PROVE  g[k] = IF way[k] \in Device THEN Append(g[k - 1], way[k]) ELSE g[k - 1]
  <2>1. CASE k = 1
    <3>1. f[1].measured = <<>>
      <4>1. f[1] = Clean
        BY <1>1, <1>2 DEF IsTrip
      <4> QED
        BY <4>1 DEF Clean
    <3>2. g[0] = <<>> /\ g[1] = f[1].measured
      BY <1>1
    <3> QED
      BY <1>4, <2>1, <3>1, <3>2
  <2>2. CASE k \in 2 .. n
    <3>1. PICK m \in 1 .. n - 1 : k = m + 1 /\ k - 1 = m
      <4>1. k - 1 \in 1 .. n - 1 /\ k = (k - 1) + 1
        BY <1>1, <2>2
      <4> QED
        BY <4>1
    <3>2. Stages(f, first, last, m)
      <4>1. m \in 1 .. n
        BY <1>1, <3>1
      <4>2. \A x \in 1 .. n : Stages(f, first, last, x)
        BY <1>2, AllStages
      <4> QED
        BY <4>1, <4>2
    <3>3. MeasuresNext(f, way, m)
      BY <1>2, <3>1, <3>2, OneStageFurther
    <3>4. g[k] = f[k].measured /\ g[k - 1] = f[k - 1].measured
      BY <1>1, <2>2
    <3> QED
      BY <3>1, <3>3, <3>4 DEF MeasuresNext
  <2>3. CASE k = n + 1
    <3>1. g[n + 1] = f[n].measured
      <4>1. n + 1 \in 0 .. Len(way) /\ n + 1 # 0 /\ ~(n + 1 <= n)
        BY <1>1
      <4> QED
        BY <4>1
    <3>2. g[n] = f[n].measured
      <4>1. n \in 0 .. Len(way) /\ n # 0 /\ n <= n
        BY <1>1
      <4> QED
        BY <4>1
    <3>3. (n + 1) - 1 = n
      BY <1>1
    <3> HIDE DEF g
    <3> QED
      BY <1>4, <2>3, <3>1, <3>2, <3>3
  <2>4. k = 1 \/ k \in 2 .. n \/ k = n + 1
    BY <1>1
  <2> QED
    BY <2>1, <2>2, <2>3, <2>4
<1>6. g[0] = <<>> /\ g[Len(way)] = f[n].measured /\ g = [k \in 0 .. Len(way) |-> g[k]]
  BY <1>1
<1> HIDE DEF g
<1>7. Among(way, g)
  <2>1. \A k \in 0 .. Len(way) :
            g[k] = IF k = 0 THEN <<>>
                   ELSE IF way[k] \in Device THEN Append(g[k - 1], way[k]) ELSE g[k - 1]
    <3> SUFFICES ASSUME NEW k \in 0 .. Len(way), k # 0
                 PROVE  g[k] = IF way[k] \in Device THEN Append(g[k - 1], way[k]) ELSE g[k - 1]
      BY <1>6
    <3>1. k \in 1 .. Len(way)
      BY <1>1
    <3> QED
      BY <1>5, <3>1
  <2> QED
    BY <1>6, <2>1 DEF Among
<1> DEFINE a == CHOOSE h : Among(way, h)
<1>8. Among(way, a)
  BY <1>7
<1>9. Measurers(pkt) = a[Len(way)]
  BY DEF Measurers, Among
<1> HIDE DEF a
<1>10. a[Len(way)] = g[Len(way)]
  BY <1>1, <1>7, <1>8, AmongIsUnique
<1> QED
  BY <1>2, <1>3, <1>6, <1>9, <1>10
-----------------------------------------------------------------------------
(* What is installed for a flow *)

LEMMA SharedIsNeeded ==
  ASSUME Known, NEW i \in Intent, Progress(i), FollowsPlan(i), NEW e \in TableEntry,
         Share(i, e) >= 1
  PROVE  \E r \in Request : NeededBy(r, e)
<1>1. Before(i, e) \in Nat
  BY SharesAreNatural
<1>2. Before(i, e) >= 1 \/ (After(i, e) >= 1 /\ pc[i] \in {"commit", "rollback", "store", "drop"})
  <2>1. CASE pc[i] \in {"commit", "rollback"}
    <3>1. PICK plan \in [Action -> Nat] : Follows(i, plan)
      BY <2>1 DEF FollowsPlan
    <3>2. /\ Before(i, e) \in Nat /\ After(i, e) \in Nat
          /\ Times(i, "create", e) \in Nat /\ plan[<<"create", e>>] \in Nat
          /\ Times(i, "delete", e) \in Nat /\ plan[<<"delete", e>>] \in Nat
          /\ Times(i, "create", e) <= plan[<<"create", e>>]
          /\ plan[<<"delete", e>>] <= Before(i, e)
          /\ Before(i, e) + plan[<<"create", e>>] = After(i, e) + plan[<<"delete", e>>]
          /\ Share(i, e) = Before(i, e) + Times(i, "create", e) - Times(i, "delete", e)
      BY <2>1, <3>1, SharesAndPlans
    <3>3. Before(i, e) >= 1 \/ After(i, e) >= 1
      BY <3>2
    <3> QED
      BY <2>1, <3>3
  <2>2. CASE pc[i] \in {"store", "drop"}
    BY <2>2 DEF Share
  <2>3. CASE pc[i] \notin {"commit", "rollback", "store", "drop"}
    BY <2>3, SharesAreNatural
  <2> QED
    BY <2>1, <2>2, <2>3
<1>3. CASE Before(i, e) >= 1
  <2>1. Configured(i)
    BY <1>3 DEF Before
  <2>2. intentState[i] \in Request
    BY <2>1 DEF Known, ServiceInv, ControlTypes, Configured
  <2> QED
    BY <1>3, <2>1, <2>2 DEF Before, NeededBy
<1>4. CASE After(i, e) >= 1 /\ pc[i] \in {"commit", "rollback", "store", "drop"}
  <2>1. job[i] = "configure"
    BY <1>4 DEF After
  <2>2. request[i] \in Request
    BY <1>4, <2>1 DEF Known, ServiceInv, ControlOf
  <2> QED
    BY <1>4, <2>1, <2>2 DEF After, NeededBy
<1> QED
  BY <1>2, <1>3, <1>4

LEMMA InstalledSinksAreRequested ==
  ASSUME Known, CountsInv, PlansInv, NEW e \in SinkEntry, e \in installed
  PROVE  \E r \in Request : <<e.dev, e.key>> \in EntitiesOf[r].sinks
<1>1. e \in TableEntry
  BY DEF TableEntry
<1>2. PICK i \in Intent : Share(i, e) >= 1
  BY <1>1, InstalledIsShared
<1>3. PICK r \in Request : NeededBy(r, e)
  BY <1>1, <1>2, SharedIsNeeded DEF CountsInv, PlansInv
<1>4. e.kind = "sink"
  BY DEF SinkEntry
<1> QED
  BY <1>3, <1>4 DEF NeededBy, Occurrences

\* While no request for an intent is under way, what it needs is installed.
LEMMA NeedsAreInstalled ==
  ASSUME Known, CountsInv, NEW i \in Intent, lock[i] = "free"
  PROVE  LET r == intentState[i]
         IN /\ r \in Request /\ Held(i) \in Number
            /\ \A e \in TableEntry : Occurrences(EntitiesOf[r], Held(i), e) >= 1 => e \in installed
<1>1. Configured(i) /\ pc[i] = "idle"
  BY DEF Known, ServiceInv, ControlOf, ControlTypes
<1>2. intentState[i] \in Request
  BY <1>1 DEF Known, ServiceInv, ControlTypes, Configured
<1>3. Held(i) \in Number
  <2>1. PICK n \in Number : i \in intents[n]
    BY <1>1 DEF Known, ServiceInv, AllocationOf, IsHolder, Allocated
  <2>2. Held(i) = n
    BY <2>1, HeldIs DEF Known
  <2> QED
    BY <2>2
<1>4. ASSUME NEW e \in TableEntry, Occurrences(EntitiesOf[intentState[i]], Held(i), e) >= 1
      PROVE  e \in installed
  <2>1. Share(i, e) = Before(i, e)
    BY <1>1, SharesAreNatural DEF CountsInv
  <2>2. Before(i, e) = Occurrences(EntitiesOf[intentState[i]], Held(i), e)
    BY <1>1 DEF Before
  <2>3. Share(i, e) >= 1
    BY <1>4, <2>1, <2>2
  <2> QED
    BY <2>3, InstalledIsShared
<1> QED
  BY <1>2, <1>3, <1>4

\* The entries of a source edge and of a sink edge.
LEMMA SourceOccurs ==
  ASSUME IsFiniteSet(Edge), NEW ents, IsEntities(ents), NEW n,
         NEW d \in Device, NEW p \in Peer, <<d, p>> \in DOMAIN ents.sources,
         NEW c \in Config, ents.sources[<<d, p>>][c] > 0
  PROVE  /\ Occurrences(ents, n, [kind |-> "activate", dev |-> d, key |-> p]) >= 1
         /\ Occurrences(ents, n, [kind |-> "source", dev |-> d, key |-> c]) >= 1
<1>1. Occurrences(ents, n, [kind |-> "activate", dev |-> d, key |-> p]) >= 1
  BY DEF Occurrences
<1> DEFINE edges == {s \in DOMAIN ents.sources : s[1] = d}
           f == [s \in edges |-> ents.sources[s][c]]
           e == [kind |-> "source", dev |-> d, key |-> c]
<1>2. Occurrences(ents, n, e) = Total(f, edges)
  BY DEF Occurrences
<1>3. IsFiniteSet(edges)
  <2>1. edges \subseteq Edge
    BY DEF IsEntities
  <2> QED
    BY <2>1, FS_Subset
<1>4. \A s \in edges : f[s] \in Nat
  BY DEF IsEntities
<1>5. <<d, p>> \in edges /\ f[<<d, p>>] >= 1
  <2>1. <<d, p>> \in edges
    OBVIOUS
  <2>2. f[<<d, p>>] > 0 /\ f[<<d, p>>] \in Nat
    BY <1>4, <2>1
  <2> QED
    BY <2>1, <2>2
<1> HIDE DEF edges, f
<1>6. f[<<d, p>>] <= Total(f, edges) /\ Total(f, edges) \in Nat
  BY <1>3, <1>4, <1>5, TotalBoundsSummands, TotalIsNatural
<1>7. f[<<d, p>>] \in Nat
  BY <1>4, <1>5
<1>8. Occurrences(ents, n, e) >= 1
  BY <1>2, <1>5, <1>6, <1>7
<1> QED
  BY <1>1, <1>8

LEMMA SinkOccurs ==
  ASSUME IsFiniteSet(Edge), NEW ents, IsEntities(ents), NEW n,
         NEW d \in Device, NEW p \in Peer, <<d, p>> \in ents.sinks
  PROVE  /\ Occurrences(ents, n, [kind |-> "sink", dev |-> d, key |-> p]) >= 1
         /\ Occurrences(ents, n, [kind |-> "reporting", dev |-> d, key |-> n]) >= 1
<1>1. Occurrences(ents, n, [kind |-> "sink", dev |-> d, key |-> p]) >= 1
  BY DEF Occurrences
<1> DEFINE edges == {s \in ents.sinks : s[1] = d}
<1>2. Occurrences(ents, n, [kind |-> "reporting", dev |-> d, key |-> n]) = Cardinality(edges)
  BY DEF Occurrences
<1>3. IsFiniteSet(edges) /\ edges # {}
  <2>1. edges \subseteq Edge /\ <<d, p>> \in edges
    BY DEF IsEntities
  <2> QED
    BY <2>1, FS_Subset
<1> HIDE DEF edges
<1>4. Cardinality(edges) \in Nat /\ Cardinality(edges) # 0
  BY <1>3, FS_CardinalityType, FS_EmptySet
<1>5. Cardinality(edges) >= 1
  BY <1>4
<1> QED
  BY <1>1, <1>2, <1>5

\* Where each request asks for the whole way, the installed entries cover it; and
\* the sinks of others are not among them.
LEMMA FlowsAreCovered ==
  ASSUME RequestsMeasureTheirFlows, Known, CountsInv, PlansInv,
         NEW i \in Intent, lock[i] = "free", NEW pkt \in FlowsOf(intentState[i]),
         Len(Measurers(pkt)) >= 2, NEW way, way = Route[<<pkt.src, pkt.dst>>]
  PROVE  /\ way \in Seq(Node)
         /\ \E first, last \in 2 .. Len(way) - 1 : Covers(installed, pkt, way, first, last)
<1> DEFINE r == intentState[i]
           ents == EntitiesOf[r]
           n == Held(i)
<1>1. /\ r \in Request /\ n \in Number
      /\ \A e \in TableEntry : Occurrences(ents, n, e) >= 1 => e \in installed
  BY NeedsAreInstalled
<1>2. IsEntities(ents) /\ IsFiniteSet(Edge)
  BY <1>1, EntitiesOfRequests DEF Known, CountingConditions
<1>3. way \in Seq(Node) /\ MeasuresAllOf(r, pkt, way)
  BY <1>1 DEF RequestsMeasureTheirFlows
<1> HIDE DEF r
<1>4. PICK first \in 2 .. Len(way) - 1, last \in 2 .. Len(way) - 1 :
         /\ {first, last} \subseteq {k \in 1 .. Len(way) : way[k] \in Device}
         /\ {k \in 1 .. Len(way) : way[k] \in Device} \subseteq first .. last
         /\ <<way[first], way[first - 1]>> \in DOMAIN ents.sources
         /\ \E c \in Config : /\ Matches(pkt, c)
                              /\ ents.sources[<<way[first], way[first - 1]>>][c] > 0
         /\ \A k \in {x \in 1 .. Len(way) : way[x] \in Device} : way[k] \in ents.transits
         /\ <<way[last], way[last + 1]>> \in ents.sinks
         /\ \A q \in Request, k \in first .. last - 1 :
                <<way[k], way[k + 1]>> \notin EntitiesOf[q].sinks
  BY <1>3 DEF MeasuresAllOf
<1> HIDE DEF ents, n
<1>5. Has(installed, way, first, "activate", way[first - 1])
      /\ \E c \in Config : Matches(pkt, c) /\ Has(installed, way, first, "source", c)
  <2>1. PICK c \in Config : /\ Matches(pkt, c)
                            /\ ents.sources[<<way[first], way[first - 1]>>][c] > 0
    BY <1>4
  <2>2. way[first] \in Device /\ way[first - 1] \in Peer
    <3>1. <<way[first], way[first - 1]>> \in Device \X Peer
      BY <1>2, <1>4 DEF IsEntities, Edge
    <3> QED
      BY <3>1
  <2> DEFINE a == [kind |-> "activate", dev |-> way[first], key |-> way[first - 1]]
             s == [kind |-> "source", dev |-> way[first], key |-> c]
  <2>3. a \in TableEntry /\ s \in TableEntry
    BY <2>2 DEF TableEntry, ActivateEntry, SourceEntry
  <2>4. Occurrences(ents, n, a) >= 1 /\ Occurrences(ents, n, s) >= 1
    BY <1>2, <1>4, <2>1, <2>2, SourceOccurs
  <2>5. a \in installed /\ s \in installed
    BY <1>1, <2>3, <2>4
  <2> QED
    BY <2>1, <2>5 DEF Has
<1>6. ASSUME NEW k \in 1 .. Len(way), way[k] \in Device
      PROVE  Has(installed, way, k, "transit", 0)
  <2> DEFINE t == [kind |-> "transit", dev |-> way[k], key |-> 0]
  <2>1. t \in TableEntry
    BY <1>6 DEF TableEntry, TransitEntry
  <2>2. way[k] \in ents.transits
    BY <1>4, <1>6
  <2>3. Occurrences(ents, n, t) >= 1
    BY <2>2 DEF Occurrences
  <2> QED
    BY <1>1, <2>1, <2>3 DEF Has
<1>7. Has(installed, way, last, "sink", way[last + 1]) /\ Reports(installed, way, last)
  <2>1. way[last] \in Device /\ way[last + 1] \in Peer
    <3>1. <<way[last], way[last + 1]>> \in Device \X Peer
      BY <1>2, <1>4 DEF IsEntities, Edge
    <3> QED
      BY <3>1
  <2> DEFINE s == [kind |-> "sink", dev |-> way[last], key |-> way[last + 1]]
             p == [kind |-> "reporting", dev |-> way[last], key |-> n]
  <2>2. s \in TableEntry /\ p \in TableEntry
    BY <1>1, <2>1 DEF TableEntry, SinkEntry, ReportingEntry
  <2>3. Occurrences(ents, n, s) >= 1 /\ Occurrences(ents, n, p) >= 1
    BY <1>2, <1>4, <2>1, SinkOccurs
  <2>4. s \in installed /\ p \in installed
    BY <1>1, <2>2, <2>3
  <2> QED
    BY <1>1, <2>4 DEF Has, Reports
<1>8. ASSUME NEW k \in first .. last - 1, Has(installed, way, k, "sink", way[k + 1]) PROVE FALSE
  <2> DEFINE s == [kind |-> "sink", dev |-> way[k], key |-> way[k + 1]]
  <2>1. s \in installed
    BY <1>8 DEF Has
  <2>2. s \in SinkEntry
    <3>1. s \in TableEntry
      BY <2>1, TablesAssumption DEF Known, CounterInv
    <3> QED
      BY <3>1 DEF TableEntry, SinkEntry, ReportingEntry, TransitEntry, ActivateEntry, SourceEntry
  <2>3. PICK q \in Request : <<s.dev, s.key>> \in EntitiesOf[q].sinks
    BY <2>1, <2>2, InstalledSinksAreRequested
  <2> QED
    BY <1>4, <2>3
<1>9. Covers(installed, pkt, way, first, last)
  BY <1>4, <1>5, <1>6, <1>7, <1>8 DEF Covers
<1> QED
  BY <1>3, <1>9

LEMMA FlowsAreMeasuredWhen ==
  ASSUME RequestsMeasureTheirFlows, Known, CountsInv, PlansInv
  PROVE  FlowsAreMeasured
<1> SUFFICES ASSUME NEW i \in Intent, lock[i] = "free", NEW pkt \in FlowsOf(intentState[i]),
                    Len(Measurers(pkt)) >= 2
             PROVE  /\ Delivered(installed, pkt).measured = Measurers(pkt)
                    /\ Delivered(installed, pkt).reported = TRUE
  BY DEF FlowsAreMeasured
<1> DEFINE way == Route[<<pkt.src, pkt.dst>>]
           n == Len(way) - 1
<1>1. /\ way \in Seq(Node)
      /\ \E first, last \in 2 .. Len(way) - 1 : Covers(installed, pkt, way, first, last)
  BY FlowsAreCovered
<1>2. PICK first \in 2 .. Len(way) - 1, last \in 2 .. Len(way) - 1 :
         Covers(installed, pkt, way, first, last)
  BY <1>1
<1>3. way = Route[<<pkt.src, pkt.dst>>] /\ n = Len(way) - 1
  OBVIOUS
<1> HIDE DEF way, n
<1> QED
  BY <1>1, <1>2, <1>3, CoveredTripsAreMeasured

\* While no request for an intent is under way, each packet of a flow it asked for is
\* measured by every switch of its way that can, in their order, and reported; in any
\* topology where the requests ask for the whole ways of their flows, whatever other
\* intents do.
THEOREM FlowsTheorem ==
  ASSUME CountingConditions, RequestsMeasureTheirFlows
  PROVE  Spec /\ [][~RollbackFails]_vars => []FlowsAreMeasured
<1>1. Spec /\ [][~RollbackFails]_vars => [](Known /\ CountsInv /\ PlansInv)
  BY PlansInvariance
<1>2. Known /\ CountsInv /\ PlansInv => FlowsAreMeasured
  BY FlowsAreMeasuredWhen
<1> QED
  BY <1>1, <1>2, PTL

\* The same with at most one failing call.
THEOREM FlowsWithOneFailure ==
  ASSUME CountingConditions, RequestsMeasureTheirFlows, MaxFailures <= 1
  PROVE  Spec => []FlowsAreMeasured
BY FlowsTheorem, OneFailureSparesRollbacks, PTL
=============================================================================
