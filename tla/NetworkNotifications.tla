------------------------ MODULE NetworkNotifications ------------------------
(***************************************************************************)
(* How the SDN shim learns that the network has changed                    *)
(* (kinda-sdn/controller/controller.go:97-173, frontend.go:56-69;          *)
(* sdn-shim/controllers/sdnshim_controller.go:87-162, 465-534).            *)
(*                                                                         *)
(* A change starts a goroutine that looks for a listener (the handler of a *)
(* SubscribeNetworkChanges stream) and gives up when there is none.  At    *)
(* the other end of the stream the shim's watcher goroutine wakes the      *)
(* reconciler, whose next pass fetches the topology; when the connection   *)
(* is broken, a pass closes the client and the next one connects again.    *)
(* Connections break, and both programs restart.                           *)
(*                                                                         *)
(* What the network is and what a pass does with it is NetworkMirror's     *)
(* concern.  There is one SDNShim object, and its address does not change. *)
(***************************************************************************)
EXTENDS Naturals

CONSTANTS
    Connection,     \* the connections that may exist at a time
    None,           \* there is no client
    MaxChanges,     \* bound on the number of changes of the network
    MaxFaults       \* bound on the number of faults of any kind

ASSUME NotificationsAssumption ==
    /\ None \notin Connection
    /\ MaxChanges \in Nat /\ MaxFaults \in Nat

VARIABLES
    changes,        \* the number of changes that have been announced
    pending,        \* goroutines of notifyNetworkChanged that look for a listener
    handler,        \* connection -> what SubscribeNetworkChanges does
    up,             \* the connections that work
    inFlight,       \* connection -> messages sent and not yet received
    watcher,        \* connection -> what watchSdnNetworkUpdates does
    stopped,        \* the connections whose watcherStopChan is closed
    client,         \* the connection of sdnClient, sdnConn and ShimForClient
    queued,         \* the SDNShim object is in the reconciler's work queue
    pc,             \* what the reconciler does next
    faults,         \* the number of faults so far
    owed            \* a change that was heard has not been fetched since

sdnVars == <<changes, pending>>
connVars == <<handler, up, inFlight>>
watchVars == <<watcher, stopped>>
passVars == <<client, queued, pc>>
vars == <<sdnVars, connVars, watchVars, passVars, faults, owed>>

Init ==
    /\ changes = 0
    /\ pending = 0
    /\ handler = [c \in Connection |-> "none"]
    /\ up = {}
    /\ inFlight = [c \in Connection |-> 0]
    /\ watcher = [c \in Connection |-> "none"]
    /\ stopped = {}
    /\ client = None
    /\ queued = TRUE
    /\ pc = "idle"
    /\ faults = 0
    /\ owed = FALSE
-----------------------------------------------------------------------------
(* KindaSdn *)

HandlerGoTo(c, step) == handler' = [handler EXCEPT ![c] = step]

\* numUpdateListeners
Listeners == {c \in Connection : handler[c] \in {"listening", "sending", "returning"}}

\* The client listens, and no handler of an earlier connection does or will.
IsHeard == client \in up \cap Listeners /\ \A c \in Connection \ {client} : handler[c] = "none"

\* notifyNetworkChanged, at the end of AddDevices, RemoveDevices and ChangeProgram
Change ==
    /\ changes < MaxChanges
    /\ changes' = changes + 1
    /\ pending' = pending + 1
    /\ owed' = (owed \/ IsHeard)
    /\ UNCHANGED <<connVars, watchVars, passVars, faults>>

\* The subscription arrives, unless the connection has gone before.
Accept(c) ==
    /\ handler[c] = "coming"
    /\ \/ HandlerGoTo(c, "listening")
       \/ c \notin up /\ HandlerGoTo(c, "none")
    /\ UNCHANGED <<sdnVars, up, inFlight, watchVars, passVars, faults, owed>>

\* A change meets a listener.
Take(c) ==
    /\ pending > 0 /\ handler[c] = "listening"
    /\ pending' = pending - 1
    /\ HandlerGoTo(c, "sending")
    /\ UNCHANGED <<changes, up, inFlight, watchVars, passVars, faults, owed>>

\* "ignore this update, queue is full"
GiveUp ==
    /\ pending > 0 /\ Listeners = {}
    /\ pending' = pending - 1
    /\ UNCHANGED <<changes, connVars, watchVars, passVars, faults, owed>>

\* Mutant: a handler that could not send announces the change again and goes on.
Send_AnnouncesAgain(c) ==
    /\ handler[c] = "sending"
    /\ HandlerGoTo(c, "listening")
    /\ \/ c \in up /\ inFlight' = [inFlight EXCEPT ![c] = @ + 1] /\ UNCHANGED pending
       \/ c \notin up /\ pending' = pending + 1 /\ UNCHANGED inFlight
    /\ UNCHANGED <<changes, up, watchVars, passVars, faults, owed>>

\* Over a broken connection a message may be lost without an error.
Send(c) ==
    /\ handler[c] = "sending"
    /\ \/ /\ c \in up
          /\ inFlight' = [inFlight EXCEPT ![c] = @ + 1]
          /\ HandlerGoTo(c, "listening")
       \/ /\ c \notin up
          /\ \E step \in {"listening", "returning"} : HandlerGoTo(c, step)
          /\ UNCHANGED inFlight
    /\ UNCHANGED <<sdnVars, up, watchVars, passVars, faults, owed>>

\* A handler that could not send leaves when another one has taken its message.
PutBack(c, d) ==
    /\ handler[c] = "returning" /\ handler[d] = "listening"
    /\ handler' = [handler EXCEPT ![c] = "none", ![d] = "sending"]
    /\ UNCHANGED <<sdnVars, up, inFlight, watchVars, passVars, faults, owed>>
-----------------------------------------------------------------------------
(* The reconciler *)

WatcherGoTo(c, step) == watcher' = [watcher EXCEPT ![c] = step]

EndPass(again) ==
    /\ pc' = "idle"
    /\ queued' = (queued \/ again)

Begin ==
    /\ pc = "idle" /\ queued
    /\ queued' = FALSE
    /\ pc' = IF client = None THEN "connect" ELSE "fetch"
    /\ UNCHANGED <<sdnVars, connVars, watchVars, client, faults, owed>>

\* runSdnClientForShim.  SubscribeNetworkChanges returns before its handler
\* runs.  A connection is used again when nothing of it is left.
Connect(c) ==
    /\ pc = "connect"
    /\ handler[c] = "none" /\ watcher[c] = "none"
    /\ client' = c
    /\ up' = up \cup {c}
    /\ HandlerGoTo(c, "coming")
    /\ inFlight' = [inFlight EXCEPT ![c] = 0]
    /\ WatcherGoTo(c, "receiving")
    /\ stopped' = stopped \ {c}
    /\ EndPass(TRUE)
    /\ UNCHANGED <<sdnVars, faults, owed>>

Fault == faults < MaxFaults /\ faults' = faults + 1

ConnectFails ==
    /\ pc = "connect"
    /\ Fault
    /\ EndPass(TRUE)
    /\ UNCHANGED <<sdnVars, connVars, watchVars, client, owed>>

\* GetTopology
Fetch ==
    /\ pc = "fetch" /\ client \in up
    /\ owed' = FALSE
    /\ pc' = "store"
    /\ UNCHANGED <<sdnVars, connVars, watchVars, client, queued, faults>>

closeSdnClient ==
    /\ stopped' = stopped \cup {client}
    /\ up' = up \ {client}
    /\ client' = None

\* Any call to KindaSdn may be the one that finds the connection broken.
CallFails ==
    /\ pc \in {"fetch", "store"} /\ client \notin up
    /\ closeSdnClient
    /\ EndPass(TRUE)
    /\ UNCHANGED <<sdnVars, handler, inFlight, watcher, faults, owed>>

\* The pass is done, or has met another error and is queued again.
Finish ==
    /\ pc = "store"
    /\ \E again \in BOOLEAN : EndPass(again)
    /\ UNCHANGED <<sdnVars, connVars, watchVars, client, faults, owed>>
-----------------------------------------------------------------------------
(* The watchers *)

\* Mutant: a change that comes while the reconciler is busy is dropped.
Receive_WhenIdle(c) ==
    /\ watcher[c] = "receiving" /\ inFlight[c] > 0
    /\ inFlight' = [inFlight EXCEPT ![c] = @ - 1]
    /\ \/ c \in stopped /\ WatcherGoTo(c, "none") /\ UNCHANGED queued
       \/ c \notin stopped /\ queued' = (queued \/ pc = "idle") /\ UNCHANGED watcher
    /\ UNCHANGED <<sdnVars, handler, up, stopped, client, pc, faults, owed>>

\* Recv returns a change.
Receive(c) ==
    /\ watcher[c] = "receiving" /\ inFlight[c] > 0
    /\ inFlight' = [inFlight EXCEPT ![c] = @ - 1]
    /\ \/ c \in stopped /\ WatcherGoTo(c, "none") /\ UNCHANGED queued
       \/ c \notin stopped /\ queued' = TRUE /\ UNCHANGED watcher
    /\ UNCHANGED <<sdnVars, handler, up, stopped, client, pc, faults, owed>>

\* Recv returns an error.
ReceiveError(c) ==
    /\ watcher[c] = "receiving" /\ c \notin up
    /\ WatcherGoTo(c, IF c \in stopped THEN "none" ELSE "failed")
    /\ UNCHANGED <<sdnVars, connVars, stopped, passVars, faults, owed>>

\* Mutant: the connection is closed and nobody told.
Report_Silently(c) ==
    /\ watcher[c] = "failed"
    /\ WatcherGoTo(c, "none")
    /\ \/ client = c /\ up' = up \ {c}
       \/ client # c /\ UNCHANGED up
    /\ UNCHANGED <<sdnVars, handler, inFlight, stopped, passVars, faults, owed>>

\* The reconciler is told, if the client is still this watcher's.
Report(c) ==
    /\ watcher[c] = "failed"
    /\ WatcherGoTo(c, "none")
    /\ \/ client = c /\ up' = up \ {c} /\ queued' = TRUE
       \/ client # c /\ UNCHANGED <<up, queued>>
    /\ UNCHANGED <<sdnVars, handler, inFlight, stopped, client, pc, faults, owed>>

\* The code knows its own client by the resource version of the SDNShim object.
\* A later client has the same when the object was not changed in between: then
\* the watcher that comes late closes the connection of that one.
ReportLate(c) ==
    /\ watcher[c] = "failed" /\ client \notin {None, c}
    /\ Fault
    /\ WatcherGoTo(c, "none")
    /\ up' = up \ {client}
    /\ queued' = TRUE
    /\ UNCHANGED <<sdnVars, handler, inFlight, stopped, client, pc, owed>>
-----------------------------------------------------------------------------
(* What goes wrong *)

Break(c) ==
    /\ c \in up
    /\ Fault
    /\ up' = up \ {c}
    /\ UNCHANGED <<sdnVars, handler, inFlight, watchVars, passVars, owed>>

\* KindaSdn starts again, with the network it was generated for.
SdnRestart ==
    /\ Fault
    /\ pending' = 0
    /\ handler' = [c \in Connection |-> "none"]
    /\ up' = {}
    /\ owed' = TRUE
    /\ UNCHANGED <<changes, inFlight, watchVars, passVars>>

\* SetupWithManager has every SDNShim object queued.
ShimRestart ==
    /\ Fault
    /\ EndPass(TRUE)
    /\ client' = None
    /\ up' = {}
    /\ watcher' = [c \in Connection |-> "none"]
    /\ stopped' = {}
    /\ UNCHANGED <<sdnVars, handler, inFlight, owed>>
-----------------------------------------------------------------------------
PassStep == Begin \/ (\E c \in Connection : Connect(c)) \/ Fetch \/ CallFails \/ Finish

HandlerStep(c) == Accept(c) \/ Send(c) \/ \E d \in Connection : PutBack(c, d)

WatcherStep(c) == Receive(c) \/ ReceiveError(c) \/ Report(c)

Notify == GiveUp \/ \E c \in Connection : Take(c)

Trouble ==
    \/ ConnectFails \/ SdnRestart \/ ShimRestart
    \/ \E c \in Connection : Break(c) \/ ReportLate(c)

Next ==
    \/ Change
    \/ Notify
    \/ \E c \in Connection : HandlerStep(c) \/ WatcherStep(c)
    \/ PassStep
    \/ Trouble

Spec == Init /\ [][Next]_vars

\* Goroutines run on, calls end, and a subscription that is asked for begins.
\* Nothing makes the network change or things fail.
FairSpec ==
    /\ Spec
    /\ WF_vars(PassStep)
    /\ WF_vars(Notify)
    /\ \A c \in Connection : WF_vars(WatcherStep(c)) /\ WF_vars(HandlerStep(c))
-----------------------------------------------------------------------------
TypeOK ==
    /\ changes \in 0 .. MaxChanges
    /\ pending \in 0 .. MaxChanges
    /\ handler \in [Connection -> {"none", "coming", "listening", "sending", "returning"}]
    /\ up \subseteq Connection
    /\ inFlight \in [Connection -> 0 .. MaxChanges]
    /\ watcher \in [Connection -> {"none", "receiving", "failed"}]
    /\ stopped \subseteq Connection
    /\ client \in Connection \cup {None}
    /\ queued \in BOOLEAN
    /\ pc \in {"idle", "connect", "fetch", "store"}
    /\ faults \in 0 .. MaxFaults
    /\ owed \in BOOLEAN

\* A client without a watcher would never be told of anything again.  When a
\* watcher ends, its connection is closed, and a pass is queued or about to fetch
\* that will find it closed, in whatever order stop channels are closed, errors
\* are received and connections are replaced.
ClientIsWatched ==
    client # None /\ watcher[client] = "none" =>
        /\ client \notin up
        /\ queued \/ pc = "fetch"

\* A change that meets the client's handler, when no handler of a broken connection
\* can take it away, leads to a new look at the network, and so does a restart of
\* KindaSdn: even if the connection breaks with the message under way, the watcher
\* ends or the reconciler is in the middle of a pass.
HeardChangeIsFetched == owed ~> ~owed

\* Every change finds a listener or is given up, and is not passed around for ever
\* among handlers of broken connections, which count as listeners until they find
\* out: the goroutines that announce changes come to an end.
AnnouncersEnd == <>[](pending = 0)
=============================================================================
