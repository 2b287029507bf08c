----------------------- MODULE SourceCapabilityMonitor -----------------------
(***************************************************************************)
(* How clients are told of the source capacity that is left                *)
(* (kinda-sdn/telemetry/sourcecapabilitymonitor.go, service.go:350,        *)
(* 394-404 and controller/frontend.go:85-98).                              *)
(*                                                                         *)
(* Notifiers are the goroutines that commit changes of intents: each takes *)
(* a snapshot of the counters and puts it in a queue with one place.  One  *)
(* goroutine (run) takes it from there and hands it to the observers, one  *)
(* after the other, over unbuffered channels; an observer is the handler   *)
(* of a client's stream.  A client may go away, which its handler notices  *)
(* when it sends the next message.                                         *)
(*                                                                         *)
(* A snapshot is the number of changes it has seen: a later one is newer.  *)
(* (The real one reads the devices' counters one by one.)                  *)
(***************************************************************************)
EXTENDS Integers, Sequences, FiniteSets

CONSTANTS
    Notifier,       \* the intents whose commits change counters
    Observer,       \* the handlers of SubscribeSourceCapabilities
    Fickle,         \* the observers whose client may go away
    Nobody,         \* the queue lock is free
    MaxChanges      \* bound on the number of changes

ASSUME MonitorAssumption ==
    /\ Fickle \subseteq Observer
    /\ Nobody \notin Notifier
    /\ MaxChanges \in Nat

VARIABLES
    version,        \* the number of changes so far
    notifierPc,     \* notifier -> what it does next
    update,         \* notifier -> the snapshot it announces
    queueLock,      \* the notifier that holds queueLock
    queue,          \* sourceCapabilityUpdatesQueue: at most one message
    observers,      \* downstreamObservers
    runPc,          \* what the run goroutine does next
    message,        \* the update it is handing out
    round,          \* its copy of the list of observers
    pos,            \* the observer of the copy it is at
    removed,        \* the positions of the copy found unsubscribed
    handlerPc,      \* observer -> what the handler does next
    inHand,         \* observer -> the message it is sending to its client
    stopped,        \* the observers that have closed their stopChan
    closed,         \* the observers whose downstreamChan run has closed
    gone,           \* the observers whose client has gone away
    told,           \* observer -> the last message its client has been sent
    lastQueued      \* the last message put in the queue (for the properties)

notifierVars == <<version, notifierPc, update, queueLock, lastQueued>>
runVars == <<runPc, message, round, pos, removed, closed>>
handlerVars == <<handlerPc, inHand, stopped, told>>
vars == <<notifierVars, queue, observers, runVars, handlerVars, gone>>

Init ==
    /\ version = 0
    /\ notifierPc = [n \in Notifier |-> "idle"]
    /\ update = [n \in Notifier |-> 0]
    /\ queueLock = Nobody
    /\ queue = <<>>
    /\ observers = <<>>
    /\ runPc = "take"
    /\ message = 0
    /\ round = <<>>
    /\ pos = 1
    /\ removed = {}
    /\ handlerPc = [o \in Observer |-> "unsubscribed"]
    /\ inHand = [o \in Observer |-> 0]
    /\ stopped = {}
    /\ closed = {}
    /\ gone = {}
    /\ told = [o \in Observer |-> 0]
    /\ lastQueued = 0
-----------------------------------------------------------------------------
(* The notifiers *)

NotifierGoTo(n, step) == notifierPc' = [notifierPc EXCEPT ![n] = step]

\* The changelog of an intent changes the counters.
Change(n) ==
    /\ notifierPc[n] = "idle" /\ version < MaxChanges
    /\ version' = version + 1
    /\ NotifierGoTo(n, "snapshot")
    /\ UNCHANGED <<update, queueLock, lastQueued, queue, observers, runVars, handlerVars, gone>>

\* createCapabilityUpdate: the argument of NotifyChanged, made before the lock
\* is taken.
Snapshot(n) ==
    /\ notifierPc[n] = "snapshot"
    /\ update' = [update EXCEPT ![n] = version]
    /\ NotifierGoTo(n, "lock")
    /\ UNCHANGED <<version, queueLock, lastQueued, queue, observers, runVars, handlerVars, gone>>

Lock(n) ==
    /\ notifierPc[n] = "lock" /\ queueLock = Nobody
    /\ queueLock' = n
    /\ NotifierGoTo(n, "write")
    /\ UNCHANGED <<version, update, lastQueued, queue, observers, runVars, handlerVars, gone>>

\* Mutant: the lock is not released.
Write_KeepsTheLock(n) ==
    /\ notifierPc[n] = "write"
    /\ IF queue = <<>>
       THEN /\ queue' = <<update[n]>>
            /\ lastQueued' = update[n]
            /\ NotifierGoTo(n, "idle")
       ELSE NotifierGoTo(n, "discard") /\ UNCHANGED <<queue, lastQueued>>
    /\ UNCHANGED <<version, update, queueLock, observers, runVars, handlerVars, gone>>

\* Mutant: a message that finds the queue full is dropped.
Write_DropsTheNewest(n) ==
    /\ notifierPc[n] = "write"
    /\ queue' = IF queue = <<>> THEN <<update[n]>> ELSE queue
    /\ lastQueued' = update[n]
    /\ queueLock' = Nobody
    /\ NotifierGoTo(n, "idle")
    /\ UNCHANGED <<version, update, observers, runVars, handlerVars, gone>>

\* Writes to the queue when it has room, and else makes room first.
Write(n) ==
    /\ notifierPc[n] = "write"
    /\ IF queue = <<>>
       THEN /\ queue' = <<update[n]>>
            /\ lastQueued' = update[n]
            /\ queueLock' = Nobody
            /\ NotifierGoTo(n, "idle")
       ELSE /\ NotifierGoTo(n, "discard")
            /\ UNCHANGED <<queue, lastQueued, queueLock>>
    /\ UNCHANGED <<version, update, observers, runVars, handlerVars, gone>>

\* The older message is consumed, unless run has just taken it.
Discard(n) ==
    /\ notifierPc[n] = "discard"
    /\ queue' = <<>>
    /\ NotifierGoTo(n, "write")
    /\ UNCHANGED <<version, update, queueLock, lastQueued, observers, runVars, handlerVars, gone>>
-----------------------------------------------------------------------------
(* run *)

Here == round[pos]

Take ==
    /\ runPc = "take" /\ queue # <<>>
    /\ message' = Head(queue)
    /\ queue' = Tail(queue)
    /\ runPc' = "copy"
    /\ UNCHANGED <<notifierVars, observers, round, pos, removed, closed, handlerVars, gone>>

Copy ==
    /\ runPc = "copy"
    /\ round' = observers
    /\ pos' = 1
    /\ removed' = {}
    /\ runPc' = "check"
    /\ UNCHANGED <<notifierVars, queue, observers, message, closed, handlerVars, gone>>

\* The observer at pos: one that has closed its stopChan is taken off the list
\* later, any other is sent the message.  After the last one, the list is put
\* together again if somebody left.
Check ==
    /\ runPc = "check"
    /\ IF pos > Len(round)
       THEN /\ runPc' = IF removed = {} THEN "take" ELSE "remove"
            /\ UNCHANGED <<pos, removed, closed>>
       ELSE IF Here \in stopped
       THEN /\ removed' = removed \cup {pos}
            /\ closed' = closed \cup {Here}
            /\ pos' = pos + 1
            /\ UNCHANGED runPc
       ELSE /\ runPc' = "send"
            /\ UNCHANGED <<pos, removed, closed>>
    /\ UNCHANGED <<notifierVars, queue, observers, message, round, handlerVars, gone>>

\* The channel is unbuffered: sender and receiver meet.
Send ==
    /\ runPc = "send" /\ handlerPc[Here] = "receive"
    /\ inHand' = [inHand EXCEPT ![Here] = message]
    /\ handlerPc' = [handlerPc EXCEPT ![Here] = "forward"]
    /\ pos' = pos + 1
    /\ runPc' = "check"
    /\ UNCHANGED <<notifierVars, queue, observers, message, round, removed, closed, stopped, told, gone>>

\* The m-th of a set of positions, counted from the lowest.
Nth(positions, m) ==
    CHOOSE k \in positions : Cardinality({j \in positions : j <= k}) = m

Select(positions) == [m \in 1 .. Cardinality(positions) |-> round[Nth(positions, m)]]

\* Mutant: the observers that joined during the round are not looked at.
Remaining_OfTheCopy == Select(1 .. Len(round) \ removed)

\* Mutant: the positions are off by one.
Remaining_OffByOne ==
    Select({k \in 1 .. Len(round) : k + 1 \notin removed})
        \o SubSeq(observers, Len(round) + 1, Len(observers))

\* What is left of the copy, and the observers that joined since it was made.
Remaining ==
    Select(1 .. Len(round) \ removed) \o SubSeq(observers, Len(round) + 1, Len(observers))

Remove ==
    /\ runPc = "remove"
    /\ observers' = Remaining
    /\ runPc' = "take"
    /\ UNCHANGED <<notifierVars, queue, message, round, pos, removed, closed, handlerVars, gone>>
-----------------------------------------------------------------------------
(* SubscribeSourceCapabilities, the handler of a client's stream *)

HandlerGoTo(o, step) == handlerPc' = [handlerPc EXCEPT ![o] = step]

\* RegisterDownstreamObserver
Subscribe(o) ==
    /\ handlerPc[o] = "unsubscribed"
    /\ observers' = Append(observers, o)
    /\ HandlerGoTo(o, "greet")
    /\ UNCHANGED <<notifierVars, queue, runVars, inHand, stopped, told, gone>>

\* GetSourceCapabilities, sent at once; an error of this Send is not looked at.
Greet(o) ==
    /\ handlerPc[o] = "greet"
    /\ told' = [told EXCEPT ![o] = IF o \in gone THEN @ ELSE version]
    /\ HandlerGoTo(o, "receive")
    /\ UNCHANGED <<notifierVars, queue, observers, runVars, inHand, stopped, gone>>

Forward(o) ==
    /\ handlerPc[o] = "forward"
    /\ told' = [told EXCEPT ![o] = IF o \in gone THEN @ ELSE inHand[o]]
    /\ HandlerGoTo(o, IF o \in gone THEN "unsubscribe" ELSE "receive")
    /\ UNCHANGED <<notifierVars, queue, observers, runVars, inHand, stopped, gone>>

\* close(stopChan)
Unsubscribe(o) ==
    /\ handlerPc[o] = "unsubscribe"
    /\ stopped' = stopped \cup {o}
    /\ HandlerGoTo(o, "returned")
    /\ UNCHANGED <<notifierVars, queue, observers, runVars, inHand, told, gone>>

\* The client goes away.
Leave(o) ==
    /\ o \in Fickle \ gone /\ handlerPc[o] # "unsubscribed"
    /\ gone' = gone \cup {o}
    /\ UNCHANGED <<notifierVars, queue, observers, runVars, handlerVars>>
-----------------------------------------------------------------------------
NotifierStep(n) == Snapshot(n) \/ Lock(n) \/ Write(n) \/ Discard(n)
RunStep == Take \/ Copy \/ Check \/ Send \/ Remove
HandlerStep(o) == Greet(o) \/ Forward(o) \/ Unsubscribe(o)

Next ==
    \/ \E n \in Notifier : Change(n) \/ NotifierStep(n)
    \/ RunStep
    \/ \E o \in Observer : Subscribe(o) \/ HandlerStep(o) \/ Leave(o)

Spec == Init /\ [][Next]_vars

\* Goroutines run on, and Go's mutex starves nobody who waits for it.  Nothing
\* makes counters change, clients come or clients go.
FairSpec ==
    /\ Spec
    /\ \A n \in Notifier : WF_vars(NotifierStep(n)) /\ SF_vars(Lock(n))
    /\ WF_vars(RunStep)
    /\ \A o \in Observer : WF_vars(HandlerStep(o))
-----------------------------------------------------------------------------
Subscribed(o) == handlerPc[o] \notin {"unsubscribed", "returned"}

\* run waits for an observer that will never receive again.
Stuck == runPc = "send" /\ handlerPc[Here] \in {"unsubscribe", "returned"}

TypeOK ==
    /\ version \in 0 .. MaxChanges
    /\ notifierPc \in [Notifier -> {"idle", "snapshot", "lock", "write", "discard"}]
    /\ update \in [Notifier -> 0 .. MaxChanges]
    /\ queueLock \in Notifier \cup {Nobody}
    /\ queue \in Seq(0 .. MaxChanges) /\ Len(queue) <= 1
    /\ observers \in Seq(Observer)
    /\ runPc \in {"take", "copy", "check", "send", "remove"}
    /\ message \in 0 .. MaxChanges
    /\ round \in Seq(Observer)
    /\ pos \in 1 .. Len(round) + 1
    /\ removed \subseteq 1 .. Len(round)
    /\ handlerPc \in [Observer -> {"unsubscribed", "greet", "receive", "forward",
                                   "unsubscribe", "returned"}]
    /\ inHand \in [Observer -> 0 .. MaxChanges]
    /\ stopped \subseteq Observer
    /\ closed \subseteq Observer
    /\ gone \subseteq Fickle
    /\ told \in [Observer -> 0 .. MaxChanges]
    /\ lastQueued \in 0 .. MaxChanges

\* The list that run puts together from an old copy and two loops over indices
\* loses nobody who is subscribed, be it before, during or after the round.
NobodyIsForgotten ==
    \A o \in Observer : Subscribed(o) => \E k \in DOMAIN observers : observers[k] = o

\* A channel that is closed is off the list before the next round, so run never
\* sends on it and never closes it again, either of which panics.
ClosedChannelsAreLeftAlone ==
    /\ runPc \in {"take", "copy"} => \A k \in DOMAIN observers : observers[k] \notin closed
    /\ runPc \in {"check", "send"} => \A k \in pos .. Len(round) : round[k] \notin closed

\* NotifyChanged is "guaranteed not to block the caller" (line 76), however slow
\* run and the observers are.
NotifyReturns == \A n \in Notifier : notifierPc[n] # "idle" ~> notifierPc[n] = "idle"

\* As long as run does not get stuck, every client that stays learns the last
\* message that was queued, though messages are dropped and lists change.
LastMessageArrives ==
    \A o \in Observer : []<>(Stuck \/ o \in gone \/ handlerPc[o] = "unsubscribed"
                                \/ told[o] >= lastQueued)
=============================================================================
