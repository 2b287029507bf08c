-------------------- MODULE SourceCapabilityMonitor_proofs --------------------
(***************************************************************************)
(* Proofs about SourceCapabilityMonitor, for any notifiers, observers and  *)
(* number of changes.                                                      *)
(***************************************************************************)
EXTENDS SourceCapabilityMonitor, FiniteSetTheorems, SequenceTheorems, TLAPS

Kept == 1 .. Len(round) \ removed

\* The types the proof needs.
ListTypes ==
    /\ observers \in Seq(Observer)
    /\ runPc \in {"take", "copy", "check", "send", "remove"}
    /\ round \in Seq(Observer)
    /\ pos \in Nat \ {0} /\ (runPc = "send" => pos <= Len(round))
    /\ handlerPc \in [Observer -> {"unsubscribed", "greet", "receive", "forward",
                                   "unsubscribe", "returned"}]

\* An observer is on the list once, and not before it subscribes.
ListedOnce ==
    /\ \A j, k \in DOMAIN observers : observers[j] = observers[k] => j = k
    /\ \A k \in DOMAIN observers : handlerPc[observers[k]] # "unsubscribed"

\* A channel is closed for an observer that is never served again.
ClosedAreDone == \A o \in Observer : o \in stopped \cup closed => handlerPc[o] = "returned"

InRound == runPc \in {"check", "send", "remove"}

\* The list begins with the copy, and of those on it the closed ones are the
\* ones to be removed.
RoundIsPrefix ==
    InRound =>
        /\ removed \subseteq 1 .. Len(round)
        /\ \A k \in removed : k < pos
        /\ Len(round) <= Len(observers)
        /\ \A k \in 1 .. Len(round) : round[k] = observers[k]
        /\ \A k \in DOMAIN observers : observers[k] \in closed <=> k \in removed

\* Between rounds no closed channel is on the list.
NoneClosed == ~InRound => \A k \in DOMAIN observers : observers[k] \notin closed

ListInv ==
    /\ ListTypes /\ ListedOnce /\ ClosedAreDone
    /\ RoundIsPrefix /\ NoneClosed /\ NobodyIsForgotten
-----------------------------------------------------------------------------
(* The list that is put together again *)

\* Counting gives every position of a finite set of naturals its own number.
LEMMA NthProperties ==
    ASSUME NEW n \in Nat, NEW S \in SUBSET (1 .. n)
    PROVE  /\ Cardinality(S) \in Nat
           /\ \A m \in 1 .. Cardinality(S) : Nth(S, m) \in S
           /\ \A l, m \in 1 .. Cardinality(S) : Nth(S, l) = Nth(S, m) => l = m
           /\ \A k \in S : \E m \in 1 .. Cardinality(S) : Nth(S, m) = k
<1> DEFINE UpTo(k) == {j \in S : j <= k}
           rank == [k \in S |-> Cardinality(UpTo(k))]
           c == Cardinality(S)
<1>1. IsFiniteSet(S) /\ c \in Nat /\ IsFiniteSet(1 .. c) /\ Cardinality(1 .. c) = c
  <2>1. 1 \in Int /\ n \in Int
    OBVIOUS
  <2>2. IsFiniteSet(1 .. n)
    BY <2>1, FS_Interval
  <2>3. IsFiniteSet(S)
    BY <2>2, FS_Subset
  <2>4. c \in Nat
    BY <2>3, FS_CardinalityType
  <2> HIDE DEF c
  <2>5. IsFiniteSet(1 .. c) /\ Cardinality(1 .. c) = IF 1 > c THEN 0 ELSE c - 1 + 1
    BY <2>1, <2>4, FS_Interval
  <2> QED
    BY <2>3, <2>4, <2>5
<1>2. ASSUME NEW k \in S
      PROVE  IsFiniteSet(UpTo(k)) /\ Cardinality(UpTo(k)) \in 1 .. c
  <2>1. UpTo(k) \in SUBSET S /\ k \in UpTo(k)
    OBVIOUS
  <2>2. IsFiniteSet(UpTo(k)) /\ Cardinality(UpTo(k)) <= c
    BY <1>1, <2>1, FS_Subset
  <2>3. Cardinality(UpTo(k)) \in Nat /\ Cardinality(UpTo(k)) # 0
    BY <2>1, <2>2, FS_CardinalityType, FS_EmptySet
  <2> QED
    BY <1>1, <2>2, <2>3
<1>3. ASSUME NEW j \in S, NEW k \in S, Cardinality(UpTo(j)) = Cardinality(UpTo(k)), j <= k
      PROVE  j = k
  <2>1. UpTo(j) \in SUBSET UpTo(k)
    <3>1. j \in Int /\ k \in Int /\ \A l \in S : l \in Int
      OBVIOUS
    <3>2. \A l \in S : l <= j => l <= k
      BY <1>3, <3>1
    <3> QED
      BY <3>2
  <2>2. UpTo(j) = UpTo(k)
    BY <1>2, <1>3, <2>1, FS_Subset
  <2>3. k \in UpTo(j)
    BY <2>2
  <2> QED
    BY <1>3, <2>3
<1>4. \A j, k \in S : rank[j] = rank[k] => j = k
  BY <1>3
<1>5. rank \in Injection(S, 1 .. c)
  <2>1. rank \in [S -> 1 .. c]
    BY <1>2
  <2> QED
    BY <1>4, <2>1 DEF Injection, IsInjective
<1>6. rank \in Surjection(S, 1 .. c)
  BY <1>1, <1>5, FS_Injection
<1>7. \A m \in 1 .. c : \E k \in S : rank[k] = m
  BY <1>6 DEF Surjection
<1>8. \A m \in 1 .. c : Nth(S, m) \in S /\ rank[Nth(S, m)] = m
  BY <1>7 DEF Nth
<1>9. ASSUME NEW k \in S PROVE rank[k] \in 1 .. c /\ Nth(S, rank[k]) = k
  BY <1>2, <1>4, <1>8
<1> QED
  BY <1>1, <1>8, <1>9

LEMMA SelectProperties ==
    ASSUME NEW S \in SUBSET (1 .. Len(round)), round \in Seq(Observer)
    PROVE  /\ Select(S) \in Seq(Observer)
           /\ \A m \in 1 .. Len(Select(S)) : \E k \in S : Select(S)[m] = round[k]
           /\ \A k \in S : \E m \in 1 .. Len(Select(S)) : Select(S)[m] = round[k]
           /\ (\A j, k \in 1 .. Len(round) : round[j] = round[k] => j = k) =>
                \A l, m \in 1 .. Len(Select(S)) : Select(S)[l] = Select(S)[m] => l = m
<1> DEFINE n == Cardinality(S)
<1>1. Len(round) \in Nat /\ round \in [1 .. Len(round) -> Observer]
  BY LenProperties
<1>2. /\ n \in Nat
      /\ \A m \in 1 .. n : Nth(S, m) \in S
      /\ \A l, m \in 1 .. n : Nth(S, l) = Nth(S, m) => l = m
      /\ \A k \in S : \E m \in 1 .. n : Nth(S, m) = k
  BY <1>1, NthProperties
<1>3. Select(S) \in [1 .. n -> Observer]
  BY <1>1, <1>2 DEF Select
<1>4. Select(S) \in Seq(Observer) /\ Len(Select(S)) = n
  BY <1>2, <1>3
<1>5. \A m \in 1 .. n : Select(S)[m] = round[Nth(S, m)]
  BY DEF Select
<1>6. \A k \in S : \E m \in 1 .. n : Select(S)[m] = round[k]
  BY <1>2, <1>5
<1>7. ASSUME \A j, k \in 1 .. Len(round) : round[j] = round[k] => j = k,
             NEW l \in 1 .. n, NEW m \in 1 .. n, Select(S)[l] = Select(S)[m]
      PROVE  l = m
  BY <1>2, <1>5, <1>7
<1> QED
  BY <1>2, <1>4, <1>5, <1>6, <1>7

\* Nobody is on the new list twice, those to be removed are not, and nobody else
\* is lost.
LEMMA RemainingProperties ==
    ASSUME ListInv, runPc = "remove"
    PROVE  /\ Remaining \in Seq(Observer)
           /\ \A m \in 1 .. Len(Remaining) : \E k \in DOMAIN observers \ removed :
                Remaining[m] = observers[k]
           /\ \A k \in DOMAIN observers \ removed : \E m \in 1 .. Len(Remaining) :
                Remaining[m] = observers[k]
           /\ \A l, m \in 1 .. Len(Remaining) : Remaining[l] = Remaining[m] => l = m
<1> DEFINE r == Len(round)
           n == Len(observers)
           first == Select(Kept)
           last == SubSeq(observers, Len(round) + 1, Len(observers))
<1>1. /\ round \in Seq(Observer) /\ observers \in Seq(Observer)
      /\ r \in Nat /\ n \in Nat /\ r <= n /\ DOMAIN observers = 1 .. n
      /\ \A k \in 1 .. r : round[k] = observers[k]
      /\ removed \subseteq 1 .. r
      /\ \A j, k \in 1 .. n : observers[j] = observers[k] => j = k
  BY LenProperties DEF ListInv, ListTypes, RoundIsPrefix, InRound, ListedOnce
<1>2. /\ first \in Seq(Observer)
      /\ \A m \in 1 .. Len(first) : \E k \in Kept : first[m] = observers[k]
      /\ \A k \in Kept : \E m \in 1 .. Len(first) : first[m] = observers[k]
      /\ \A l, m \in 1 .. Len(first) : first[l] = first[m] => l = m
  <2>1. \A j, k \in 1 .. Len(round) : round[j] = round[k] => j = k
    BY <1>1
  <2>2. Kept \in SUBSET (1 .. Len(round)) /\ \A k \in Kept : round[k] = observers[k]
    BY <1>1 DEF Kept
  <2> QED
    BY <1>1, <2>1, <2>2, SelectProperties
<1>3. /\ last \in Seq(Observer) /\ Len(last) = n - r
      /\ \A i \in 1 .. n - r : last[i] = observers[r + i]
  <2>1. r + 1 \in Int /\ n \in Int /\ \A i \in r + 1 .. n : observers[i] \in Observer
    BY <1>1, LenProperties
  <2>2. /\ last \in Seq(Observer) /\ Len(last) = IF r + 1 <= n THEN n - (r + 1) + 1 ELSE 0
        /\ \A i \in 1 .. n - (r + 1) + 1 : last[i] = observers[(r + 1) + i - 1]
    BY <2>1, SubSeqProperties
  <2> QED
    BY <1>1, <2>2
<1> HIDE DEF first, last, r, n
<1> PICK f : f = Len(first)
  OBVIOUS
<1> PICK e : e = Len(last)
  OBVIOUS
<1>4. Remaining = first \o last /\ f \in Nat /\ e \in Nat /\ e = n - r
  BY <1>2, <1>3, LenProperties DEF Remaining, first, last, Kept
<1>5. /\ Remaining \in Seq(Observer) /\ Len(Remaining) = f + e
      /\ \A m \in 1 .. f + e : Remaining[m] = IF m <= f THEN first[m] ELSE last[m - f]
  <2>1. first \in Seq(Observer) /\ last \in Seq(Observer)
    BY <1>2, <1>3
  <2>2. /\ first \o last \in Seq(Observer)
        /\ Len(first \o last) = Len(first) + Len(last)
        /\ \A m \in 1 .. Len(first) + Len(last) :
              (first \o last)[m] = IF m <= Len(first) THEN first[m] ELSE last[m - Len(first)]
    BY <2>1, ConcatProperties
  <2> QED
    BY <1>4, <2>2
<1>6. ASSUME NEW m \in 1 .. f PROVE Remaining[m] = first[m] /\ m \in 1 .. f + e
  BY <1>4, <1>5
<1>7. ASSUME NEW m \in f + 1 .. f + e
      PROVE  /\ Remaining[m] = observers[r + (m - f)] /\ m \in 1 .. f + e
             /\ r + (m - f) \in r + 1 .. n
  <2>1. m \in 1 .. f + e /\ ~(m <= f) /\ m - f \in 1 .. n - r
    BY <1>4
  <2> QED
    BY <1>1, <1>3, <1>5, <2>1
<1>8. \A m \in 1 .. f + e : m \in 1 .. f \/ m \in f + 1 .. f + e
  BY <1>4
<1>9. Kept \subseteq 1 .. r /\ (1 .. n) \ removed = Kept \cup (r + 1 .. n)
  BY <1>1 DEF Kept, r
<1>10. \A m \in 1 .. f + e : \E k \in (1 .. n) \ removed : Remaining[m] = observers[k]
  BY <1>2, <1>6, <1>7, <1>8, <1>9
<1>11. ASSUME NEW k \in (1 .. n) \ removed
       PROVE  \E m \in 1 .. f + e : Remaining[m] = observers[k]
  <2>1. CASE k \in Kept
    BY <1>2, <1>6, <2>1
  <2>2. CASE k \in r + 1 .. n
    <3>1. /\ f + (k - r) \in f + 1 .. f + e
          /\ r + ((f + (k - r)) - f) = k
      BY <1>1, <1>4, <2>2
    <3> QED
      BY <1>7, <3>1
  <2> QED
    BY <1>9, <2>1, <2>2
<1>12. ASSUME NEW l \in 1 .. f + e, NEW m \in 1 .. f + e, Remaining[l] = Remaining[m]
       PROVE  l = m
  <2>1. ASSUME NEW i \in 1 .. f, NEW j \in f + 1 .. f + e PROVE Remaining[i] # Remaining[j]
    <3>1. PICK k \in Kept : Remaining[i] = observers[k]
      BY <1>2, <1>6
    <3>2. r + (j - f) \in r + 1 .. n /\ Remaining[j] = observers[r + (j - f)]
      BY <1>7
    <3>3. k \in 1 .. n /\ r + (j - f) \in 1 .. n /\ k # r + (j - f)
      BY <1>1, <1>9, <3>2
    <3> QED
      BY <1>1, <3>1, <3>2, <3>3
  <2>2. CASE l \in 1 .. f /\ m \in 1 .. f
    BY <1>2, <1>6, <1>12, <2>2
  <2>3. CASE l \in f + 1 .. f + e /\ m \in f + 1 .. f + e
    <3>1. r + (l - f) \in 1 .. n /\ r + (m - f) \in 1 .. n
      BY <1>1, <1>7, <2>3
    <3>2. r + (l - f) = r + (m - f)
      BY <1>1, <1>7, <1>12, <2>3, <3>1
    <3> QED
      BY <1>1, <1>4, <3>2
  <2> QED
    BY <1>8, <1>12, <2>1, <2>2, <2>3
<1> QED
  BY <1>1, <1>5, <1>10, <1>11, <1>12
-----------------------------------------------------------------------------
(* The steps *)

LEMMA ListInit == ASSUME Init PROVE ListInv
BY DEF Init, ListInv, ListTypes, ListedOnce, ClosedAreDone, RoundIsPrefix, NoneClosed, InRound,
       NobodyIsForgotten, Subscribed

listVars == <<observers, runPc, round, pos, removed, handlerPc, stopped, closed>>

LEMMA Unaffected == ASSUME ListInv, UNCHANGED listVars PROVE ListInv'
BY DEF listVars, ListInv, ListTypes, ListedOnce, ClosedAreDone, RoundIsPrefix, NoneClosed, InRound,
       NobodyIsForgotten, Subscribed

\* A handler that has subscribed, and is not done, goes on.
LEMMA HandlerMoves ==
    ASSUME ListInv, NEW o \in Observer,
           handlerPc[o] \notin {"unsubscribed", "returned"},
           NEW step \in {"receive", "forward", "unsubscribe", "returned"},
           handlerPc' = [handlerPc EXCEPT ![o] = step],
           stopped' = IF step = "returned" THEN stopped \cup {o} ELSE stopped,
           UNCHANGED <<observers, round, removed, closed>>,
           \/ UNCHANGED <<runPc, pos>>
           \/ runPc = "send" /\ runPc' = "check" /\ pos' = pos + 1
    PROVE  ListInv'
<1>1. observers \in [1 .. Len(observers) -> Observer] /\ DOMAIN observers = 1 .. Len(observers)
  BY LenProperties DEF ListInv, ListTypes
<1>2. ListTypes' /\ (InRound' <=> InRound) /\ \A k \in Nat : k < pos => k < pos'
  BY DEF ListInv, ListTypes, InRound
<1>3. ListedOnce'
  BY <1>1 DEF ListInv, ListTypes, ListedOnce
<1>4. ClosedAreDone'
  BY DEF ListInv, ListTypes, ClosedAreDone
<1>5. NobodyIsForgotten'
  BY DEF ListInv, ListTypes, NobodyIsForgotten, Subscribed
<1>6. RoundIsPrefix' /\ NoneClosed'
  BY <1>2 DEF ListInv, RoundIsPrefix, NoneClosed, ListTypes
<1> QED
  BY <1>2, <1>3, <1>4, <1>5, <1>6 DEF ListInv

LEMMA SubscribeKeepsInv == ASSUME ListInv, NEW o \in Observer, Subscribe(o) PROVE ListInv'
<1> DEFINE n == Len(observers)
<1>1. /\ observers' = Append(observers, o) /\ handlerPc' = [handlerPc EXCEPT ![o] = "greet"]
      /\ handlerPc[o] = "unsubscribed"
      /\ UNCHANGED <<runPc, round, pos, removed, stopped, closed>>
  BY DEF Subscribe, HandlerGoTo, runVars
<1>2. /\ n \in Nat /\ DOMAIN observers = 1 .. n
      /\ \A k \in 1 .. n : observers[k] \in Observer /\ observers[k] # o
  BY <1>1, LenProperties DEF ListInv, ListTypes, ListedOnce
<1>3. /\ observers' \in Seq(Observer) /\ Len(observers') = n + 1 /\ DOMAIN observers' = 1 .. n + 1
      /\ \A k \in 1 .. n : observers'[k] = observers[k]
      /\ observers'[n + 1] = o
  BY <1>1, AppendProperties, LenProperties DEF ListInv, ListTypes
<1> HIDE DEF n
<1>4. \A k \in 1 .. n + 1 : k \in 1 .. n \/ k = n + 1
  BY <1>2
<1>5. 1 .. n \subseteq 1 .. n + 1 /\ n + 1 \in 1 .. n + 1 /\ n + 1 \notin 1 .. n /\ n <= n + 1
  BY <1>2
<1>6. ListTypes'
  BY <1>1, <1>3 DEF ListInv, ListTypes
<1>7. ListedOnce'
  BY <1>1, <1>2, <1>3, <1>4 DEF ListInv, ListTypes, ListedOnce
<1>8. ClosedAreDone'
  BY <1>1 DEF ListInv, ListTypes, ClosedAreDone
<1>9. o \notin closed
  BY <1>1 DEF ListInv, ClosedAreDone
<1>10. RoundIsPrefix'
  <2>1. SUFFICES ASSUME InRound PROVE RoundIsPrefix'
    BY <1>1 DEF RoundIsPrefix, InRound
  <2>2. /\ removed \subseteq 1 .. Len(round) /\ (\A k \in removed : k < pos)
        /\ Len(round) <= n /\ Len(round) \in Nat
        /\ \A k \in 1 .. Len(round) : round[k] = observers[k]
        /\ \A k \in 1 .. n : observers[k] \in closed <=> k \in removed
    BY <1>2, <2>1, LenProperties DEF ListInv, ListTypes, RoundIsPrefix, n
  <2>3. 1 .. Len(round) \subseteq 1 .. n /\ Len(round) <= n + 1
    BY <1>2, <2>2
  <2>4. n + 1 \notin removed
    BY <1>5, <2>2, <2>3
  <2> QED
    BY <1>1, <1>3, <1>4, <1>9, <2>2, <2>3, <2>4 DEF RoundIsPrefix
<1>11. NoneClosed'
  BY <1>1, <1>2, <1>3, <1>4, <1>9 DEF ListInv, NoneClosed, InRound
<1>12. NobodyIsForgotten'
  BY <1>1, <1>2, <1>3, <1>5 DEF ListInv, ListTypes, NobodyIsForgotten, Subscribed
<1> QED
  BY <1>6, <1>7, <1>8, <1>10, <1>11, <1>12 DEF ListInv

LEMMA CopyKeepsInv == ASSUME ListInv, Copy PROVE ListInv'
<1>1. /\ round' = observers /\ pos' = 1 /\ removed' = {} /\ runPc' = "check" /\ ~InRound
      /\ UNCHANGED <<observers, closed, handlerPc, stopped>>
  BY DEF Copy, InRound, handlerVars
<1>2. Len(observers) \in Nat /\ DOMAIN observers = 1 .. Len(observers)
  BY LenProperties DEF ListInv, ListTypes
<1>3. RoundIsPrefix' /\ NoneClosed'
  BY <1>1, <1>2 DEF ListInv, RoundIsPrefix, NoneClosed, InRound
<1> QED
  BY <1>1, <1>3 DEF ListInv, ListTypes, ListedOnce, ClosedAreDone, NobodyIsForgotten, Subscribed

LEMMA CheckKeepsInv == ASSUME ListInv, Check PROVE ListInv'
<1>1. /\ runPc = "check" /\ InRound
      /\ UNCHANGED <<observers, round, handlerPc, stopped>>
  BY DEF Check, InRound, handlerVars
<1>2. /\ Len(observers) \in Nat /\ DOMAIN observers = 1 .. Len(observers)
      /\ Len(round) \in Nat /\ DOMAIN round = 1 .. Len(round) /\ pos \in Nat \ {0}
  BY LenProperties DEF ListInv, ListTypes
<1>3. CASE UNCHANGED <<pos, removed, closed>>
  <2>1. \/ runPc' = "take" /\ removed = {}
        \/ runPc' = "remove"
        \/ runPc' = "send" /\ pos <= Len(round)
    BY <1>1, <1>2, <1>3 DEF Check
  <2>2. RoundIsPrefix' /\ NoneClosed'
    BY <1>1, <1>3, <2>1 DEF ListInv, RoundIsPrefix, NoneClosed, InRound
  <2> QED
    BY <1>1, <1>3, <2>1, <2>2
    DEF ListInv, ListTypes, ListedOnce, ClosedAreDone, NobodyIsForgotten, Subscribed
<1>4. CASE /\ ~(pos > Len(round)) /\ Here \in stopped
           /\ removed' = removed \cup {pos} /\ closed' = closed \cup {Here}
           /\ pos' = pos + 1 /\ UNCHANGED runPc
  <2>1. pos \in 1 .. Len(round)
    BY <1>2, <1>4
  <2>2. Here = observers[pos] /\ pos \in DOMAIN observers
    BY <1>1, <1>2, <2>1 DEF Here, ListInv, RoundIsPrefix
  <2>3. RoundIsPrefix'
    <3>1. /\ removed' \subseteq 1 .. Len(round)
          /\ \A k \in removed' : k < pos'
      BY <1>1, <1>2, <1>4, <2>1 DEF ListInv, RoundIsPrefix
    <3>2. \A k \in DOMAIN observers : observers[k] \in closed' <=> k \in removed'
      BY <1>1, <1>4, <2>2 DEF ListInv, RoundIsPrefix, ListedOnce
    <3> QED
      BY <1>1, <3>1, <3>2 DEF ListInv, RoundIsPrefix
  <2>4. ClosedAreDone' /\ NoneClosed'
    BY <1>1, <1>4 DEF ListInv, ClosedAreDone, NoneClosed, InRound
  <2> QED
    BY <1>1, <1>4, <2>3, <2>4 DEF ListInv, ListTypes, ListedOnce, NobodyIsForgotten, Subscribed
<1> QED
  BY <1>3, <1>4 DEF Check

LEMMA RemoveKeepsInv == ASSUME ListInv, Remove PROVE ListInv'
<1>1. /\ observers' = Remaining /\ runPc = "remove" /\ runPc' = "take"
      /\ UNCHANGED <<round, pos, removed, closed, handlerPc, stopped>>
  BY DEF Remove, handlerVars
<1>2. /\ observers' \in Seq(Observer) /\ DOMAIN observers' = 1 .. Len(observers')
      /\ \A m \in 1 .. Len(observers') : \E k \in DOMAIN observers \ removed :
            observers'[m] = observers[k]
      /\ \A k \in DOMAIN observers \ removed : \E m \in 1 .. Len(observers') :
            observers'[m] = observers[k]
      /\ \A l, m \in 1 .. Len(observers') : observers'[l] = observers'[m] => l = m
  BY <1>1, RemainingProperties, LenProperties
<1>3. \A k \in DOMAIN observers : observers[k] \in closed <=> k \in removed
  BY <1>1 DEF ListInv, RoundIsPrefix, InRound
<1>4. ListTypes' /\ ClosedAreDone' /\ RoundIsPrefix'
  BY <1>1, <1>2 DEF ListInv, ListTypes, ClosedAreDone, RoundIsPrefix, InRound
<1>5. ListedOnce'
  BY <1>1, <1>2 DEF ListInv, ListedOnce
<1>6. NoneClosed'
  BY <1>1, <1>2, <1>3 DEF NoneClosed
<1>7. NobodyIsForgotten'
  <2> SUFFICES ASSUME NEW o \in Observer, Subscribed(o)
               PROVE  \E m \in DOMAIN observers' : observers'[m] = o
    BY <1>1 DEF NobodyIsForgotten, Subscribed
  <2>1. PICK k \in DOMAIN observers : observers[k] = o
    BY DEF ListInv, NobodyIsForgotten
  <2>2. o \notin closed
    BY DEF ListInv, ClosedAreDone, Subscribed
  <2>3. k \notin removed
    BY <1>3, <2>1, <2>2
  <2> QED
    BY <1>2, <2>1, <2>3
<1> QED
  BY <1>4, <1>5, <1>6, <1>7 DEF ListInv

LEMMA ListStep == ASSUME ListInv, [Next]_vars PROVE ListInv'
<1>1. CASE UNCHANGED vars \/ \E n \in Notifier : Change(n) \/ NotifierStep(n)
  BY <1>1, Unaffected
  DEF vars, runVars, handlerVars, listVars, Change, NotifierStep, Snapshot, Lock, Write, Discard
<1>2. CASE Take
  BY <1>2 DEF Take, handlerVars, ListInv, ListTypes, ListedOnce, ClosedAreDone, RoundIsPrefix, NoneClosed,
              InRound, NobodyIsForgotten, Subscribed
<1>3. CASE Copy \/ Check \/ Remove
  BY <1>3, CopyKeepsInv, CheckKeepsInv, RemoveKeepsInv
<1>4. CASE Send
  <2>1. PICK o : o = Here
    OBVIOUS
  <2>2. o \in Observer
    <3>1. Len(round) \in Nat /\ pos \in 1 .. Len(round)
      BY <1>4, LenProperties DEF Send, ListInv, ListTypes
    <3> QED
      BY <2>1, <3>1 DEF Here, ListInv, ListTypes
  <2> QED
    BY <1>4, <2>1, <2>2, HandlerMoves DEF Send
<1>5. ASSUME NEW o \in Observer, Subscribe(o) \/ HandlerStep(o) \/ Leave(o) PROVE ListInv'
  <2>1. CASE Subscribe(o)
    BY <2>1, SubscribeKeepsInv
  <2>2. CASE Leave(o)
    BY <2>2, Unaffected DEF Leave, runVars, handlerVars, listVars
  <2>3. CASE HandlerStep(o)
    <3>1. PICK step \in {"receive", "forward", "unsubscribe", "returned"} :
            /\ handlerPc' = [handlerPc EXCEPT ![o] = step]
            /\ stopped' = IF step = "returned" THEN stopped \cup {o} ELSE stopped
      BY <2>3 DEF HandlerStep, Greet, Forward, Unsubscribe, HandlerGoTo
    <3> QED
      BY <2>3, <3>1, HandlerMoves DEF HandlerStep, Greet, Forward, Unsubscribe, runVars
  <2> QED
    BY <1>5, <2>1, <2>2, <2>3
<1> QED
  BY <1>1, <1>2, <1>3, <1>4, <1>5 DEF Next, RunStep

LEMMA ListInvHolds == Spec => []ListInv
<1>1. Init => ListInv
  BY ListInit
<1>2. ListInv /\ [Next]_vars => ListInv'
  BY ListStep
<1> QED
  BY <1>1, <1>2, PTL DEF Spec

(***************************************************************************)
(* Who is subscribed is on the list, whatever leaves or joins during a     *)
(* round (run, sourcecapabilitymonitor.go:35-73).                          *)
(***************************************************************************)
THEOREM NobodyIsForgottenTheorem == Spec => []NobodyIsForgotten
<1>1. ListInv => NobodyIsForgotten
  BY DEF ListInv
<1> QED
  BY <1>1, ListInvHolds, PTL

(***************************************************************************)
(* run never sends on a channel it has closed and never closes one again,  *)
(* which would panic (sourcecapabilitymonitor.go:46, 49).                  *)
(***************************************************************************)
THEOREM ClosedChannelsTheorem == Spec => []ClosedChannelsAreLeftAlone
<1>1. ASSUME ListInv PROVE ClosedChannelsAreLeftAlone
  <2>1. runPc \in {"take", "copy"} => \A k \in DOMAIN observers : observers[k] \notin closed
    BY <1>1 DEF ListInv, NoneClosed, InRound
  <2>2. ASSUME runPc \in {"check", "send"}, NEW k \in pos .. Len(round)
        PROVE  round[k] \notin closed
    <3>1. /\ Len(observers) \in Nat /\ DOMAIN observers = 1 .. Len(observers)
          /\ Len(round) \in Nat /\ pos \in Nat \ {0} /\ k \in 1 .. Len(round)
      BY <1>1, LenProperties DEF ListInv, ListTypes
    <3> QED
      BY <1>1, <2>2, <3>1 DEF ListInv, RoundIsPrefix, InRound
  <2> QED
    BY <2>1, <2>2 DEF ClosedChannelsAreLeftAlone
<1> QED
  BY <1>1, ListInvHolds, PTL
-----------------------------------------------------------------------------
(* Types *)

LEMMA NotifierTypes ==
    ASSUME TypeOK, NEW n \in Notifier, Change(n) \/ NotifierStep(n) PROVE TypeOK'
<1>1. UNCHANGED <<observers, runVars, handlerVars, gone>>
  BY DEF Change, NotifierStep, Snapshot, Lock, Write, Discard
<1>2. CASE Change(n)
  <2>1. MaxChanges \in Nat /\ version \in 0 .. MaxChanges /\ version < MaxChanges
    BY <1>2, MonitorAssumption DEF MonitorAssumption, Change, TypeOK
  <2>2. version + 1 \in 0 .. MaxChanges
    BY <2>1
  <2> QED
    BY <1>1, <1>2, <2>2 DEF Change, NotifierGoTo, TypeOK, runVars, handlerVars
<1>3. CASE Snapshot(n) \/ Lock(n)
  BY <1>1, <1>3 DEF Snapshot, Lock, NotifierGoTo, TypeOK, runVars, handlerVars
<1>4. CASE Write(n) \/ Discard(n)
  <2>1. \A u \in 0 .. MaxChanges : <<u>> \in Seq(0 .. MaxChanges) /\ Len(<<u>>) = 1
    OBVIOUS
  <2>2. queue' \in Seq(0 .. MaxChanges) /\ Len(queue') <= 1 /\ lastQueued' \in 0 .. MaxChanges
    <3>1. /\ queue \in Seq(0 .. MaxChanges) /\ Len(queue) <= 1 /\ lastQueued \in 0 .. MaxChanges
          /\ update[n] \in 0 .. MaxChanges
          /\ <<>> \in Seq(0 .. MaxChanges) /\ Len(<<>>) = 0
      BY EmptySeq DEF TypeOK
    <3>2. \/ UNCHANGED <<queue, lastQueued>>
          \/ queue' = <<update[n]>> /\ lastQueued' = update[n]
          \/ queue' = <<>> /\ UNCHANGED lastQueued
      BY <1>4 DEF Write, Discard
    <3>3. CASE queue' = <<update[n]>> /\ lastQueued' = update[n]
      <4>1. PICK u \in 0 .. MaxChanges : u = update[n]
        BY <3>1
      <4> QED
        BY <2>1, <3>3, <4>1
    <3>4. CASE UNCHANGED <<queue, lastQueued>>
      BY <3>1, <3>4
    <3>5. CASE queue' = <<>> /\ UNCHANGED lastQueued
      <4>1. Len(queue') = 0 /\ queue' \in Seq(0 .. MaxChanges)
        BY <3>1, <3>5
      <4> QED
        BY <3>1, <3>5, <4>1
    <3> QED
      BY <3>2, <3>3, <3>4, <3>5
  <2> QED
    BY <1>1, <1>4, <2>2 DEF Write, Discard, NotifierGoTo, TypeOK, runVars, handlerVars
<1> QED
  BY <1>2, <1>3, <1>4 DEF NotifierStep

LEMMA RunTypes == ASSUME ListInv, TypeOK, RunStep PROVE TypeOK'
<1>1. UNCHANGED <<notifierVars, gone>>
  BY DEF RunStep, Take, Copy, Check, Send, Remove
<1>2. ListTypes'
  <2>1. [Next]_vars
    BY DEF Next
  <2> QED
    BY <2>1, ListStep DEF ListInv
<1>3. Len(round) \in Nat /\ \A k \in 1 .. Len(round) : round[k] \in Observer
  BY LenProperties DEF TypeOK
<1>4. CASE Take
  <2>1. Head(queue) \in 0 .. MaxChanges /\ Tail(queue) \in Seq(0 .. MaxChanges) /\ Len(Tail(queue)) <= 1
    <3>1. queue \in Seq(0 .. MaxChanges) /\ Len(queue) \in Nat /\ Len(queue) <= 1 /\ queue # <<>>
      BY <1>4, LenProperties DEF Take, TypeOK
    <3>2. /\ Head(queue) \in 0 .. MaxChanges /\ Tail(queue) \in Seq(0 .. MaxChanges)
          /\ Len(Tail(queue)) = Len(queue) - 1
      BY <3>1, HeadTailProperties
    <3> QED
      BY <3>1, <3>2
  <2> QED
    BY <1>1, <1>4, <2>1 DEF Take, TypeOK, notifierVars, handlerVars
<1>5. CASE Copy
  <2>1. 1 \in 1 .. Len(observers) + 1
    BY LenProperties DEF TypeOK
  <2> QED
    BY <1>1, <1>5, <2>1 DEF Copy, TypeOK, notifierVars, handlerVars
<1>6. CASE Check
  <2>1. CASE UNCHANGED <<pos, removed, closed>>
    BY <1>1, <1>2, <1>6, <2>1 DEF Check, TypeOK, ListTypes, notifierVars, handlerVars
  <2>2. CASE /\ ~(pos > Len(round))
             /\ removed' = removed \cup {pos} /\ closed' = closed \cup {Here}
             /\ pos' = pos + 1 /\ UNCHANGED runPc
    <3>1. pos \in 1 .. Len(round) /\ pos + 1 \in 1 .. Len(round) + 1 /\ Here \in Observer
      BY <1>3, <2>2 DEF TypeOK, Here
    <3> QED
      BY <1>1, <1>6, <2>2, <3>1 DEF Check, TypeOK, notifierVars, handlerVars
  <2> QED
    BY <1>6, <2>1, <2>2 DEF Check
<1>7. CASE Send
  <2>1. pos \in 1 .. Len(round) /\ pos + 1 \in 1 .. Len(round) + 1
    BY <1>3, <1>7 DEF Send, ListInv, ListTypes
  <2>2. Here \in Observer
    BY <1>3, <2>1 DEF Here
  <2> QED
    BY <1>1, <1>7, <2>1, <2>2 DEF Send, TypeOK, notifierVars
<1>8. CASE Remove
  BY <1>1, <1>2, <1>8 DEF Remove, TypeOK, ListTypes, notifierVars, handlerVars
<1> QED
  BY <1>4, <1>5, <1>6, <1>7, <1>8 DEF RunStep

LEMMA HandlerTypes ==
    ASSUME TypeOK, NEW o \in Observer, Subscribe(o) \/ HandlerStep(o) \/ Leave(o) PROVE TypeOK'
<1>1. UNCHANGED <<notifierVars, queue, runVars, inHand>>
  BY DEF Subscribe, HandlerStep, Greet, Forward, Unsubscribe, Leave, handlerVars
<1>2. observers' \in Seq(Observer)
  <2>1. observers \in Seq(Observer)
    BY DEF TypeOK
  <2>2. observers' = Append(observers, o) \/ observers' = observers
    BY DEF Subscribe, HandlerStep, Greet, Forward, Unsubscribe, Leave
  <2> QED
    BY <2>1, <2>2, AppendProperties
<1>3. handlerPc' \in [Observer -> {"unsubscribed", "greet", "receive", "forward",
                                   "unsubscribe", "returned"}]
  BY DEF Subscribe, HandlerStep, Greet, Forward, Unsubscribe, Leave, HandlerGoTo, handlerVars, TypeOK
<1>4. stopped' \subseteq Observer /\ gone' \subseteq Fickle
  BY DEF Subscribe, HandlerStep, Greet, Forward, Unsubscribe, Leave, handlerVars, TypeOK
<1>5. told' \in [Observer -> 0 .. MaxChanges]
  BY DEF Subscribe, HandlerStep, Greet, Forward, Unsubscribe, Leave, handlerVars, TypeOK
<1> QED
  BY <1>1, <1>2, <1>3, <1>4, <1>5 DEF TypeOK, notifierVars, runVars

(***************************************************************************)
(* Type correctness: in particular the queue has one place, and run never  *)
(* looks beyond its copy of the list.                                      *)
(***************************************************************************)
THEOREM MonitorTypeCorrect == Spec => []TypeOK
<1>1. Init => TypeOK
  <2>1. MaxChanges \in Nat /\ 0 \in 0 .. MaxChanges
    BY MonitorAssumption DEF MonitorAssumption
  <2> QED
    BY <2>1, EmptySeq DEF Init, TypeOK
<1>2. ListInv /\ TypeOK /\ [Next]_vars => TypeOK'
  <2> SUFFICES ASSUME ListInv, TypeOK, [Next]_vars PROVE TypeOK'
    OBVIOUS
  <2>1. CASE UNCHANGED vars
    BY <2>1 DEF vars, notifierVars, runVars, handlerVars, TypeOK
  <2>2. CASE Next
    BY <2>2, NotifierTypes, RunTypes, HandlerTypes DEF Next
  <2> QED
    BY <2>1, <2>2
<1> QED
  BY <1>1, <1>2, ListInvHolds, PTL DEF Spec
===============================================================================
