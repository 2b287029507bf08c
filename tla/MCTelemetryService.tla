------------------------- MODULE MCTelemetryService -------------------------
(***************************************************************************)
(* Instances of TelemetryService for TLC: hosts h1 and h4 on the switch    *)
(* s1, hosts h2 and h3 on the switch s2, and n between the switches, with  *)
(* a dead end to look into first.  n is a plain device or a third switch.  *)
(* Two intents share entries of the switches.                              *)
(***************************************************************************)
EXTENDS TelemetryService

CONSTANTS i1, i2, s1, s2, n, deadEnd, h1, h2, h3, h4, c1, c2, telemetry, NetType

MCIntent == {i1, i2}
MCNode == {s1, s2, n, deadEnd, h1, h2, h3, h4}
MCLinks ==
    [x \in MCNode |-> CASE x = s1 -> <<h1, n, h4>>
                        [] x = n -> <<deadEnd, s1, s2>>
                        [] x = s2 -> <<h2, n, h3>>
                        [] x \in {h1, h4} -> <<s1>>
                        [] x \in {h2, h3} -> <<s2>>
                        [] x = deadEnd -> <<n>>]
MCType ==
    [x \in MCNode |-> IF x \in {s1, s2} THEN "inc-switch" ELSE IF x = n THEN NetType
                      ELSE "node"]
MCProgram == [x \in IncSwitch |-> telemetry]
MCImplementing == {telemetry}
MCDevice == {x \in MCNode : isCompatible(x)}
MCPeer == UNION {Neighbours(x) : x \in MCDevice}
MCCollectionId == {c1, c2}

Raw(s, t) == [src |-> s, dst |-> t, tunneled |-> FALSE]
MCConfig ==
    {Raw(h1, h2), Raw(h1, h3), Raw(h4, h2)}

MCTableEntry == TableEntry
MCTable == Kind \X Device
MCTableOf == [e \in TableEntry |-> <<e.kind, e.dev>>]

RawReq(i, sources, targets, c) ==
    [intent |-> i, collectionId |-> c, tunneled |-> FALSE,
     sources |-> [x \in sources |-> {}], targets |-> [x \in targets |-> {}]]

\* One intent moves to another target and gives up a source edge;
\* the other shares flows and edges with it.
MCRequest ==
    {RawReq(i1, {h1}, {h3}, c1), RawReq(i1, {h1, h4}, {h2}, c1),
     RawReq(i2, {h4}, {h2}, c1), RawReq(i2, {h4}, {h2}, c2)}

\* Two intents that compete for the only collection id number.
MCRivalRequest ==
    {RawReq(i1, {h1}, {h2}, c1), RawReq(i2, {h4}, {h2}, c2)}

\* An intent that gets another target, so another flow on its source edge.
MCFlowRequest ==
    {RawReq(i1, {h1}, {h2}, c1), RawReq(i1, {h1}, {h2, h3}, c1)}

\* The requests of the intents that change flows and edges are among those for
\* which the counts are proved right.
ASSUME MCRequestsAreBalanced == Request = MCRequest => RequestsAreBalanced

\* The requests of every instance have sinks for the packets they mark, and ask for
\* the whole ways of their flows, some of which have two switches or more.
ASSUME MCPacketsAreStripped == RequestsStripTheirPackets
ASSUME MCFlowsAreMeasured ==
    /\ RequestsMeasureTheirFlows
    /\ \E r \in Request : \E pkt \in FlowsOf(r) : Len(Measurers(pkt)) >= 2
=============================================================================
