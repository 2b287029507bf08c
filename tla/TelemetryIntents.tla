--------------------------- MODULE TelemetryIntents ---------------------------
(***************************************************************************)
(* What the telemetry service promises its clients, without how: an intent *)
(* is configured with the content of one request or not at all; at most    *)
(* one request for it is served at a time, and another one is turned away  *)
(* (IN_PROGRESS, ShouldRetryLater); a request that is served takes effect   *)
(* as a whole or not at all, and comes to an end.  Whether its client still *)
(* waits for the answer makes no difference.                               *)
(*                                                                         *)
(* TelemetryService implements this; InternalTelemetry builds on it.       *)
(***************************************************************************)

CONSTANTS
    Intent,
    Content,        \* what an intent can be configured with
    Nothing         \* the intent is not configured

ASSUME IntentsAssumption == \A c \in Content : c # Nothing

VARIABLES
    config,         \* intent -> what it is configured with
    serving,        \* intent -> the request being served: none, configure, disable
    asked           \* intent -> the content that request asks for

intentVars == <<config, serving, asked>>

IntentsInit ==
    /\ config = [i \in Intent |-> Nothing]
    /\ serving = [i \in Intent |-> "none"]
    /\ asked = [i \in Intent |-> Nothing]

IsBusy(i) == serving[i] # "none"

Accept(i, kind, content) ==
    /\ ~IsBusy(i)
    /\ serving' = [serving EXCEPT ![i] = kind]
    /\ asked' = [asked EXCEPT ![i] = content]
    /\ UNCHANGED config

\* The request takes effect, or fails and has none.
Finish(i, ok) ==
    /\ IsBusy(i)
    /\ config' = [config EXCEPT ![i] = IF ok THEN asked[i] ELSE @]
    /\ serving' = [serving EXCEPT ![i] = "none"]
    /\ asked' = [asked EXCEPT ![i] = Nothing]

IntentsNext ==
    \E i \in Intent :
        \/ \E content \in Content : Accept(i, "configure", content)
        \/ Accept(i, "disable", Nothing)
        \/ \E ok \in BOOLEAN : Finish(i, ok)

IntentsSpec ==
    /\ IntentsInit /\ [][IntentsNext]_intentVars
    /\ \A i \in Intent : WF_intentVars(\E ok \in BOOLEAN : Finish(i, ok))
=============================================================================
