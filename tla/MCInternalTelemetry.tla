------------------------- MODULE MCInternalTelemetry -------------------------
(***************************************************************************)
(* Instances of InternalTelemetry for TLC: two deployments, and pods of    *)
(* each that come and go.                                                  *)
(***************************************************************************)
EXTENDS InternalTelemetry, TLC

CONSTANTS d1, d2, p1, p2

MCPod == {p1, p2}
MCMortal == {p1}
MCDeployments == <<d1, d2>>
MCIntent == {<<d1, d2>>, <<d2, d1>>}
MCContent == SUBSET Pod
MCDeploymentOf == [p \in Pod |-> IF p = p2 THEN d2 ELSE d1]
=============================================================================
