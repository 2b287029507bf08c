------------------------- MODULE TelemetryTraversals -------------------------
(***************************************************************************)
(* From a request to the entities it needs: the walks through the topology *)
(* (kinda-sdn/telemetry/traversals.go), the forwarding entries that decide *)
(* which way packets really go (kinda-sdn/controller/tree.go and           *)
(* kinda-sdn/graphutils/traversals.go), and what a packet meets on its way *)
(* through switches with given table entries.                              *)
(*                                                                         *)
(* The topology is connected and stays as it is.  A link has an address of *)
(* its own; that of a device with one link is written as the device.  A    *)
(* tunneled address (of a pod) includes the port, if one is asked for.     *)
(***************************************************************************)
EXTENDS TelemetryEntities, SequencesExt

CONSTANTS
    Node,           \* the devices of the topology
    Links,          \* node -> the sequence of its neighbours, port by port
    Type,           \* node -> "node", "inc-switch", "net" or "external"
    Program,        \* inc-switch -> its installed program
    Implementing,   \* the registered programs with the telemetry interface
    AnyAddress      \* matches every address

IncSwitch == {d \in Node : Type[d] = "inc-switch"}
External == {d \in Node : Type[d] = "external"}
Neighbours(d) == ToSet(Links[d])

isCompatible(d) == d \in IncSwitch /\ Program[d] \in Implementing

ASSUME TopologyAssumption ==
    /\ Links \in [Node -> Seq(Node)]
    /\ Type \in [Node -> {"node", "inc-switch", "net", "external"}]
    /\ \A d \in Node : \A n \in Neighbours(d) : d \in Neighbours(n)
    /\ Device = {d \in Node : isCompatible(d)}
    /\ Peer = UNION {Neighbours(d) : d \in Device}
-----------------------------------------------------------------------------
(* runDfs: one step goes on to the first neighbour not visited yet, or back *)

Further(s) ==
    LET cur == Head(s.path)
        fresh == {k \in DOMAIN Links[cur] : Links[cur][k] \notin s.visited}
        next == Links[cur][Min(fresh)]
    IN IF fresh = {}
       THEN [s EXCEPT !.path = Tail(@)]
       ELSE [path |-> <<next>> \o s.path, visited |-> s.visited \cup {next}]

\* The way from source to target, target first; empty when there is none.
runDfs(source, target) ==
    LET search[k \in 0 .. 2 * Cardinality(Node)] ==
            IF k = 0 THEN [path |-> <<source>>, visited |-> {source}]
            ELSE LET s == search[k - 1]
                 IN IF s.path = <<>> \/ Head(s.path) = target THEN s ELSE Further(s)
    IN search[2 * Cardinality(Node)].path
-----------------------------------------------------------------------------
(* findTelemetryEntitiesForRequest *)

Compatible(path, first, last) == {k \in first .. last : isCompatible(path[k])}

\* On a way, target first: the compatible device nearest to its source, and the
\* one nearest to its target, which is never the target itself.
SourceIndex(path) == Max(Compatible(path, 1, Len(path) - 1))
SinkIndex(path) == Min(Compatible(path, 2, SourceIndex(path)) \cup {SourceIndex(path) + 1})

\* "telemetry needs at least 2 devices to work properly"
FoundIncDevices(path) ==
    /\ Compatible(path, 1, Len(path) - 1) # {}
    /\ SinkIndex(path) # SourceIndex(path)

SinkEdge(path) == <<path[SinkIndex(path)], path[SinkIndex(path) - 1]>>
SourceEdge(path) == <<path[SourceIndex(path)], path[SourceIndex(path) + 1]>>

TransitsOn(path) ==
    {path[k] : k \in Compatible(path, SinkIndex(path) + 1, SourceIndex(path) - 1)}

\* createRawTelemetryConfig: flows from and to the outside have any address.
RawConfig(s, t) ==
    [src |-> IF s \in External THEN AnyAddress ELSE s,
     dst |-> IF t \in External THEN AnyAddress ELSE t,
     tunneled |-> FALSE]

\* createTunneledTelemetryConfigs: each source address with each target one.
TunneledConfigs(sourceAddrs, targetAddrs) ==
    {[src |-> a, dst |-> b, tunneled |-> TRUE] : a \in sourceAddrs, b \in targetAddrs}

\* A request names its source and target devices; a tunneled one has for each
\* the addresses behind it, a raw one none.
ConfigsFor(req, s, t) ==
    IF req.tunneled
    THEN TunneledConfigs(req.sources[s], req.targets[t])
    ELSE {RawConfig(s, t)}

getSourceDeviceNames(req) == DOMAIN req.sources
getTargetDeviceNames(req) == DOMAIN req.targets

\* The pairs with telemetry between them.
MeasuredPairs(req) ==
    {p \in getSourceDeviceNames(req) \X getTargetDeviceNames(req) :
        p[1] # p[2] /\ FoundIncDevices(runDfs(p[1], p[2]))}

\* "source/sink are configured as transits too"
findTelemetryEntitiesForRequest(req) ==
    LET pairs == MeasuredPairs(req)
        way(p) == runDfs(p[1], p[2])
        sources == [e \in {SourceEdge(way(p)) : p \in pairs} |-> [c \in Config |->
            Cardinality({p \in pairs : SourceEdge(way(p)) = e /\ c \in ConfigsFor(req, p[1], p[2])})]]
        sinks == {SinkEdge(way(p)) : p \in pairs}
    IN [sources |-> sources,
        transits |-> UNION {TransitsOn(way(p)) : p \in pairs}
                     \cup {e[1] : e \in DOMAIN sources \cup sinks},
        sinks |-> sinks]
-----------------------------------------------------------------------------
(* Forwarding *)

\* Bfs: how every device was first reached from the source.
Bfs(source) ==
    LET Visit(s) ==
            LET cur == Head(s.queue)
                fresh == SelectSeq(Links[cur], LAMBDA d : d \notin DOMAIN s.parents)
            IN [queue |-> Tail(s.queue) \o fresh,
                parents |-> [d \in ToSet(fresh) |-> cur] @@ s.parents]
        search[k \in 0 .. Cardinality(Node)] ==
            IF k = 0 THEN [queue |-> <<source>>, parents |-> source :> source]
            ELSE LET s == search[k - 1] IN IF s.queue = <<>> THEN s ELSE Visit(s)
    IN search[Cardinality(Node)].parents

\* GetNextHopsMap: the ancestor of the device among the source's children.
NextHop(source, target) ==
    LET parents == Bfs(source)
        ancestor[k \in 0 .. Cardinality(Node)] ==
            IF k = 0 THEN target
            ELSE LET d == ancestor[k - 1] IN IF parents[d] = source THEN d ELSE parents[d]
    IN ancestor[Cardinality(Node)]

\* Where a device sends packets for another: the direct and indirect entries of
\* buildBasicForwardingEntries; the other devices route as well.
Forwarding ==
    [d \in Node |-> [t \in Node |-> IF t \in Neighbours(d) THEN t ELSE NextHop(d, t)]]

\* The way a packet takes.
RouteOf(s, t) ==
    LET hops[k \in Nat] == IF k = 0 THEN s
                           ELSE LET d == hops[k - 1] IN IF d = t THEN t ELSE Forwarding[d][t]
        last == CHOOSE k \in 0 .. Cardinality(Node) :
                    hops[k] = t /\ \A j \in 0 .. k - 1 : hops[j] # t
    IN [k \in 1 .. last + 1 |-> hops[k - 1]]

Route == [p \in {q \in Node \X Node : q[1] # q[2]} |-> RouteOf(p[1], p[2])]
-----------------------------------------------------------------------------
(* A packet on its way through switches with a set of table entries *)

Matches(pkt, c) ==
    LET src == IF c.tunneled THEN pkt.innerSrc ELSE pkt.src
        dst == IF c.tunneled THEN pkt.innerDst ELSE pkt.dst
    IN c.src \in {src, AnyAddress} /\ c.dst \in {dst, AnyAddress}

\* The telemetry program of a switch: the source adds the header, every transit
\* adds its metadata to it, the sink takes it off and reports.
Meets(entries, pkt, d, from, to, s) ==
    LET has(kind, key) == [kind |-> kind, dev |-> d, key |-> key] \in entries
        source == has("activate", from) /\ \E c \in Config : Matches(pkt, c) /\ has("source", c)
        header == s.header \/ source
        sink == header /\ has("sink", to)
    IN IF d \notin Device THEN s
       ELSE [header |-> header /\ ~sink,
             measured |-> IF header /\ has("transit", 0) THEN Append(s.measured, d) ELSE s.measured,
             reported |-> s.reported \/ (sink /\ \E n \in Number : has("reporting", n))]

\* What is left of the packet's telemetry at its target.
Delivered(entries, pkt) ==
    LET way == Route[<<pkt.src, pkt.dst>>]
        after[k \in 1 .. Len(way) - 1] ==
            IF k = 1 THEN [header |-> FALSE, measured |-> <<>>, reported |-> FALSE]
            ELSE Meets(entries, pkt, way[k], way[k - 1], way[k + 1], after[k - 1])
    IN after[Len(way) - 1]
=============================================================================
