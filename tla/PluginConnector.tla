--------------------------- MODULE PluginConnector ---------------------------
(***************************************************************************)
(* The connection to the telemetry service that the operator's goroutines  *)
(* share (inc-operator/shimutils/connector.go): it is dialled when it is   *)
(* needed, and a call that ends with an error starts a goroutine that      *)
(* closes whatever connection there is by then, with all that runs on it.  *)
(*                                                                         *)
(* A dead call is one whose connection has been closed or has broken: it   *)
(* ends with an error.  What the service answers is left to the user; an   *)
(* application's error (GetCollectionId's NotFound) is one like any other. *)
(***************************************************************************)
EXTENDS Naturals

CONSTANTS
    User,           \* the goroutines that call WithTelemetryClient
    MaxResets,      \* bound on resets that wait to run
    MaxFaults       \* bound on failures of every kind

ASSUME ConnectorAssumption == MaxResets \in Nat \ {0} /\ MaxFaults \in Nat

VARIABLES
    sdnConn,        \* none, open
    call,           \* user -> its call: none, live, dead
    resets,         \* resets that wait for the lock
    faults

connectorVars == <<sdnConn, call, resets, faults>>

ConnectorInit ==
    /\ sdnConn = "none"
    /\ call = [u \in User |-> "none"]
    /\ resets = 0
    /\ faults = 0

Fault == faults < MaxFaults /\ faults' = faults + 1
NoFault == UNCHANGED faults

\* The connection is dialled if there is none.
BeginCall(u) ==
    /\ call[u] = "none" /\ resets < MaxResets
    /\ sdnConn' = "open"
    /\ call' = [call EXCEPT ![u] = "live"]
    /\ NoFault
    /\ UNCHANGED resets

\* There is no SDNShim to tell the address: an error, but no reset.
DialFails(u) ==
    /\ call[u] = "none" /\ sdnConn = "none"
    /\ Fault
    /\ UNCHANGED <<sdnConn, call, resets>>

CallSucceeds(u) ==
    /\ call[u] = "live"
    /\ call' = [call EXCEPT ![u] = "none"]
    /\ NoFault
    /\ UNCHANGED <<sdnConn, resets>>

CallFails(u) ==
    /\ \/ call[u] = "live" /\ Fault
       \/ call[u] = "dead" /\ NoFault
    /\ call' = [call EXCEPT ![u] = "none"]
    /\ resets' = resets + 1
    /\ UNCHANGED sdnConn

Cut == call' = [u \in User |-> IF call[u] = "live" THEN "dead" ELSE call[u]]

\* Calls that run meanwhile are allowed ("we allow concurrent close").
reset ==
    /\ resets > 0
    /\ resets' = resets - 1
    /\ sdnConn' = "none"
    /\ Cut
    /\ UNCHANGED faults

\* The service restarts: the connection stays, what runs on it breaks.
ServiceRestarts ==
    /\ sdnConn = "open"
    /\ Fault
    /\ Cut
    /\ UNCHANGED <<sdnConn, resets>>
=============================================================================
