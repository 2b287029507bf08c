---------------------------- MODULE DeviceResources ----------------------------
(***************************************************************************)
(* The watcher that keeps the TelemetryDeviceResources object up to date,  *)
(* which tells the scheduler what devices can be a source of telemetry     *)
(* (inc-operator/controllers/telemetrydeviceresources_controller.go), on   *)
(* the connection it shares with the stat handlers (PluginConnector).      *)
(*                                                                         *)
(* One device.  The service tells a new subscriber the number of entries   *)
(* the device has left, and every later change (SourceCapabilityMonitor    *)
(* shows what that takes); a stream that is broken gives an error.         *)
(* Neither the object nor its deletion is watched.                         *)
(***************************************************************************)
EXTENDS PluginConnector, Sequences

CONSTANTS
    Watcher,        \* the user that is the watcher
    Broken,         \* there is no stream, or it has been broken
    Capacity,       \* the numbers of entries left
    MaxChanges,     \* bound on changes of the number
    MaxDeletions    \* bound on deletions of the object by users

CAN_BE_SOURCE_THRESHOLD == 10
UPDATE_STATUS_ATTEMPTS == 3

ASSUME ResourcesAssumption ==
    /\ Watcher \in User
    /\ Capacity \subseteq Nat /\ Broken \notin Seq(Capacity)
    /\ {MaxChanges, MaxDeletions} \subseteq Nat

VARIABLES
    capacity,       \* the entries left
    stream,         \* what the watcher's stream has for it, or Broken
    object,         \* absent, empty, or its status: source, full
    pc,             \* watcher: asleep, subscribing, receiving, reading, updating
    update,         \* the update it has received
    attempt,
    changes, deletions

serviceVars == <<capacity, changes>>
watcherVars == <<pc, update, attempt>>
vars == <<connectorVars, serviceVars, stream, object, watcherVars, deletions>>

Init ==
    /\ ConnectorInit
    /\ capacity \in Capacity /\ changes = 0
    /\ stream = Broken
    /\ object = "absent" /\ deletions = 0
    /\ pc = "asleep" /\ update = 0 /\ attempt = 1
-----------------------------------------------------------------------------
(* The service, the other users and the users of the object *)

CapacityChanges ==
    /\ changes < MaxChanges /\ changes' = changes + 1
    /\ \E n \in Capacity \ {capacity} :
        /\ capacity' = n
        /\ stream' = IF stream = Broken THEN Broken ELSE Append(stream, n)
    /\ UNCHANGED <<connectorVars, object, watcherVars, deletions>>

StreamBreaks == stream' = Broken

ConnectionBreaks ==
    /\ reset \/ ServiceRestarts
    /\ StreamBreaks
    /\ UNCHANGED <<serviceVars, object, watcherVars, deletions>>

OtherUser(u) ==
    /\ u # Watcher
    /\ BeginCall(u) \/ CallSucceeds(u) \/ CallFails(u) \/ DialFails(u)
    /\ UNCHANGED <<serviceVars, stream, object, watcherVars, deletions>>

ObjectIsDeleted ==
    /\ object # "absent" /\ object' = "absent"
    /\ deletions < MaxDeletions /\ deletions' = deletions + 1
    /\ UNCHANGED <<connectorVars, serviceVars, stream, watcherVars>>
-----------------------------------------------------------------------------
(* The watcher *)

GoTo(step) == pc' = step /\ UNCHANGED <<update, attempt>>

Subscribe ==
    /\ pc = "asleep"
    /\ \/ BeginCall(Watcher) /\ GoTo("subscribing")
       \/ DialFails(Watcher) /\ UNCHANGED watcherVars
    /\ UNCHANGED <<serviceVars, stream, object, deletions>>

Subscribed ==
    /\ pc = "subscribing" /\ CallSucceeds(Watcher)
    /\ stream' = <<capacity>>
    /\ GoTo("receiving")
    /\ UNCHANGED <<serviceVars, object, deletions>>

SubscriptionFails ==
    /\ pc = "subscribing" /\ CallFails(Watcher)
    /\ GoTo("asleep")
    /\ UNCHANGED <<serviceVars, stream, object, deletions>>

\* Mutant: a broken stream is received from again.
Recv_Again ==
    /\ pc = "receiving" /\ stream \notin {<<>>, Broken}
    /\ update' = Head(stream) /\ stream' = Tail(stream)
    /\ pc' = "reading" /\ attempt' = 1
    /\ UNCHANGED <<connectorVars, serviceVars, object, deletions>>

Recv ==
    /\ pc = "receiving"
    /\ \/ stream = Broken /\ GoTo("asleep") /\ UNCHANGED stream
       \/ /\ stream \notin {<<>>, Broken}
          /\ update' = Head(stream) /\ stream' = Tail(stream)
          /\ pc' = "reading" /\ attempt' = 1
    /\ UNCHANGED <<connectorVars, serviceVars, object, deletions>>

\* The error that ends an update: the watcher sleeps and subscribes anew.  The
\* stream is left behind, neither read nor cancelled.
GiveUp == GoTo("asleep") /\ StreamBreaks

getOrCreateResources ==
    /\ pc = "reading"
    /\ \/ /\ object' = IF object = "absent" THEN "empty" ELSE object
          /\ GoTo("updating") /\ NoFault
          /\ UNCHANGED stream
       \/ GiveUp /\ Fault /\ UNCHANGED object
    /\ UNCHANGED <<sdnConn, call, resets, serviceVars, deletions>>

StatusFor(n) == IF n > CAN_BE_SOURCE_THRESHOLD THEN "source" ELSE "full"

\* A conflict or a missing object leads to the next attempt, if there is one.
NextAttempt ==
    IF attempt < UPDATE_STATUS_ATTEMPTS
    THEN pc' = "reading" /\ attempt' = attempt + 1 /\ UNCHANGED <<update, stream>>
    ELSE GiveUp

updateStatus ==
    /\ pc = "updating"
    /\ \/ object # "absent" /\ object' = StatusFor(update) /\ GoTo("receiving") /\ NoFault
          /\ UNCHANGED stream
       \/ object = "absent" /\ NextAttempt /\ NoFault /\ UNCHANGED object
       \/ object # "absent" /\ NextAttempt /\ Fault /\ UNCHANGED object
       \/ GiveUp /\ Fault /\ UNCHANGED object
    /\ UNCHANGED <<sdnConn, call, resets, serviceVars, deletions>>
-----------------------------------------------------------------------------
WatcherStep ==
    Subscribe \/ Subscribed \/ SubscriptionFails \/ Recv \/ getOrCreateResources \/ updateStatus

Next ==
    \/ CapacityChanges \/ ObjectIsDeleted \/ ConnectionBreaks
    \/ \E u \in User : OtherUser(u)
    \/ WatcherStep

Spec == Init /\ [][Next]_vars

\* The watcher goes on (its sleeps end), calls end, and resets get the lock.
FairSpec ==
    /\ Spec
    /\ WF_vars(WatcherStep)
    /\ WF_vars(reset /\ ConnectionBreaks)
    /\ \A u \in User \ {Watcher} : WF_vars(OtherUser(u) /\ (CallSucceeds(u) \/ CallFails(u)))
-----------------------------------------------------------------------------
\* The object comes to tell whether the device can be a source, if connections
\* are reset no more: errors of others, restarts and failing updates make the
\* watcher miss changes, which it is told of when it has subscribed anew.  An
\* object that somebody deletes stays away until the next change.
StatusFollowsCapacity ==
    <>[](resets = 0) =>
        <>[](object = StatusFor(capacity) \/ (deletions > 0 /\ object = "absent"))
=============================================================================
