--------------------- MODULE NetworkNotifications_proofs ---------------------
(***************************************************************************)
(* Proof that the client of the SDN shim is watched, for any number of     *)
(* connections, changes and faults.                                        *)
(***************************************************************************)
EXTENDS NetworkNotifications, TLAPS

\* The types the proof needs, without the bounds on what is under way.
ConnectionType ==
    /\ up \subseteq Connection
    /\ watcher \in [Connection -> {"none", "receiving", "failed"}]
    /\ stopped \subseteq Connection
    /\ client \in Connection \cup {None}
    /\ queued \in BOOLEAN
    /\ pc \in {"idle", "connect", "fetch", "store"}

\* A pass that calls KindaSdn has a client, and only one without a client connects.
PassHasClient ==
    /\ pc = "connect" => client = None
    /\ pc \in {"fetch", "store"} => client # None

\* The client's own watcher is not told to stop, and fails on a broken connection
\* only.
ClientIsNotStopped ==
    client # None => client \notin stopped /\ (watcher[client] = "failed" => client \notin up)

WatchInv == ConnectionType /\ PassHasClient /\ ClientIsNotStopped /\ ClientIsWatched

LEMMA WatchInit == ASSUME Init PROVE WatchInv
BY DEF Init, WatchInv, ConnectionType, PassHasClient, ClientIsNotStopped, ClientIsWatched

\* KindaSdn's side touches none of what the invariant speaks of.
LEMMA SdnStep ==
    ASSUME WatchInv,
           \/ Change \/ Notify \/ UNCHANGED vars
           \/ \E c \in Connection : HandlerStep(c)
    PROVE  WatchInv'
<1>1. UNCHANGED <<up, watcher, stopped, client, queued, pc>>
  BY DEF Change, Notify, GiveUp, Take, HandlerStep, Accept, Send, PutBack, vars,
         connVars, watchVars, passVars
<1> QED
  BY <1>1 DEF WatchInv, ConnectionType, PassHasClient, ClientIsNotStopped, ClientIsWatched

LEMMA PassStepKeepsWatch ==
    ASSUME NotificationsAssumption, WatchInv, PassStep PROVE WatchInv'
<1> USE NotificationsAssumption
    DEF NotificationsAssumption, WatchInv, ConnectionType, PassHasClient, ClientIsNotStopped, ClientIsWatched
<1>1. CASE Begin
  BY <1>1 DEF Begin, connVars, watchVars
<1>2. ASSUME NEW c \in Connection, Connect(c) PROVE WatchInv'
  BY <1>2 DEF Connect, EndPass, WatcherGoTo
<1>3. CASE Fetch
  BY <1>3 DEF Fetch, connVars, watchVars
<1>4. CASE CallFails
  BY <1>4 DEF CallFails, closeSdnClient, EndPass
<1>5. CASE Finish
  BY <1>5 DEF Finish, EndPass, connVars, watchVars
<1> QED
  BY <1>1, <1>2, <1>3, <1>4, <1>5 DEF PassStep

LEMMA WatcherStepKeepsWatch ==
    ASSUME NotificationsAssumption, WatchInv, NEW c \in Connection, WatcherStep(c)
    PROVE  WatchInv'
<1> USE NotificationsAssumption
    DEF NotificationsAssumption, WatchInv, ConnectionType, PassHasClient, ClientIsNotStopped, ClientIsWatched
<1>1. CASE Receive(c)
  <2>1. client = c => UNCHANGED watcher
    BY <1>1 DEF Receive
  <2>2. \A d \in Connection \ {c} : watcher'[d] = watcher[d]
    BY <1>1 DEF Receive, WatcherGoTo
  <2>3. UNCHANGED <<up, stopped, client, pc>> /\ (queued => queued')
    BY <1>1 DEF Receive
  <2>4. ConnectionType'
    BY <1>1 DEF Receive, WatcherGoTo
  <2> QED
    BY <2>1, <2>2, <2>3, <2>4
<1>2. CASE ReceiveError(c)
  BY <1>2 DEF ReceiveError, WatcherGoTo, connVars, passVars
<1>3. CASE Report(c)
  BY <1>3 DEF Report, WatcherGoTo
<1> QED
  BY <1>1, <1>2, <1>3 DEF WatcherStep

LEMMA TroubleKeepsWatch ==
    ASSUME NotificationsAssumption, WatchInv, Trouble PROVE WatchInv'
<1> USE NotificationsAssumption
    DEF NotificationsAssumption, WatchInv, ConnectionType, PassHasClient, ClientIsNotStopped, ClientIsWatched
<1>1. CASE ConnectFails
  BY <1>1 DEF ConnectFails, EndPass, connVars, watchVars
<1>2. CASE SdnRestart
  BY <1>2 DEF SdnRestart, watchVars, passVars
<1>3. CASE ShimRestart
  BY <1>3 DEF ShimRestart, EndPass
<1>4. ASSUME NEW c \in Connection, Break(c) PROVE WatchInv'
  BY <1>4 DEF Break, watchVars, passVars
<1>5. ASSUME NEW c \in Connection, ReportLate(c) PROVE WatchInv'
  BY <1>5 DEF ReportLate, WatcherGoTo
<1> QED
  BY <1>1, <1>2, <1>3, <1>4, <1>5 DEF Trouble

(***************************************************************************)
(* Whatever happens to connections, watchers and passes, the reconciler    *)
(* does not rely on a client whose watcher has gone (sdnshim_controller.go *)
(* lines 490-534) without being about to find out.                         *)
(***************************************************************************)
THEOREM ClientIsWatchedTheorem == Spec => []ClientIsWatched
<1>1. Init => WatchInv
  BY WatchInit
<1>2. WatchInv /\ [Next]_vars => WatchInv'
  BY NotificationsAssumption, SdnStep, PassStepKeepsWatch, WatcherStepKeepsWatch,
     TroubleKeepsWatch DEF Next
<1>3. WatchInv => ClientIsWatched
  BY DEF WatchInv
<1> QED
  BY <1>1, <1>2, <1>3, PTL DEF Spec
=============================================================================
