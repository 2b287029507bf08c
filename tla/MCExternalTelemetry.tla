------------------------- MODULE MCExternalTelemetry -------------------------
(***************************************************************************)
(* Instances of ExternalTelemetry for TLC: the ingress node in, the node w *)
(* behind the switches s1 and s2, the node v behind s1 alone.              *)
(***************************************************************************)
EXTENDS ExternalTelemetry

CONSTANTS p1, p2, ingress, w, v, s1, s2

MCPod == {p1, p2}
MCMortal == {p1}
MCNetworkDevice == {ingress, w, v, s1, s2}
MCLinks ==
    [x \in MCNetworkDevice |-> CASE x = s1 -> <<v, ingress, s2>>
                                 [] x = s2 -> <<s1, w>>
                                 [] x \in {ingress, v} -> <<s1>>
                                 [] x = w -> <<s2>>]
MCNodes == {ingress, w, v}
MCIngressNodes == {ingress}
MCIncSwitch == {s1, s2}
MCIntent == {"ei", "ie", PodsIntent}
MCContent == [collection : Collection, pods : SUBSET Pod]
=============================================================================
