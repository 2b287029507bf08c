-------------------------- MODULE TelemetryEntities --------------------------
(***************************************************************************)
(* What an intent needs on the switches: its telemetry entities, the table *)
(* entries they stand for, and the difference between two sets of entities *)
(* (kinda-sdn/telemetry/util.go, config.go and service.go:235-314).        *)
(*                                                                         *)
(* An edge is a switch and the neighbour on one of its ports.  The configs *)
(* of a source edge are a Go slice in which one config may occur more than *)
(* once; its order only decides the order of writes within one stage, so a *)
(* slice is a function from configs to numbers of occurrences.             *)
(***************************************************************************)
EXTENDS Integers, FiniteSets, Functions

CONSTANTS
    Device,         \* the switches that run the telemetry program
    Peer,           \* their neighbours
    Config,         \* source configurations: what flow to add telemetry to
    PoolSize        \* the collection id numbers are 0 .. PoolSize - 1

Edge == Device \X Peer
Number == 0 .. PoolSize - 1

NoEntities == [sources |-> <<>>, transits |-> {}, sinks |-> {}]

IsEmpty(ents) == ents = NoEntities

IsEntities(ents) ==
    /\ DOMAIN ents = {"sources", "transits", "sinks"}
    /\ DOMAIN ents.sources \subseteq Edge
    /\ \A e \in DOMAIN ents.sources : ents.sources[e] \in [Config -> Nat]
    /\ ents.transits \subseteq Device
    /\ ents.sinks \subseteq Edge

Total(f, S) == SumFunctionOnSet(f, S)
-----------------------------------------------------------------------------
(* computeDifferences *)

\* The occurrences in a of the configs b does not have at all.
ConfigsMissingFrom(a, b) == [c \in Config |-> IF b[c] > 0 THEN 0 ELSE a[c]]

HasConfigs(conf) == \E c \in Config : conf[c] > 0

SourcesMissingFrom(a, b) ==
    LET new == DOMAIN a \ DOMAIN b
        changed == {e \in DOMAIN a \cap DOMAIN b : HasConfigs(ConfigsMissingFrom(a[e], b[e]))}
    IN [e \in new \cup changed |->
            IF e \in new THEN a[e] ELSE ConfigsMissingFrom(a[e], b[e])]

MissingFrom(a, b) ==
    [sources |-> SourcesMissingFrom(a.sources, b.sources),
     transits |-> a.transits \ b.transits,
     sinks |-> a.sinks \ b.sinks]

computeDifferences(old, new) ==
    [added |-> MissingFrom(new, old), removed |-> MissingFrom(old, new)]
-----------------------------------------------------------------------------
(* getEntriesForTelemetryEntities: the entries of each stage, as keys. *)

SinkEntry == [kind : {"sink"}, dev : Device, key : Peer]
ReportingEntry == [kind : {"reporting"}, dev : Device, key : Number]
TransitEntry == [kind : {"transit"}, dev : Device, key : {0}]
ActivateEntry == [kind : {"activate"}, dev : Device, key : Peer]
SourceEntry == [kind : {"source"}, dev : Device, key : Config]
TableEntry == SinkEntry \cup ReportingEntry \cup TransitEntry \cup ActivateEntry \cup SourceEntry

Kind == {"sink", "reporting", "transit", "activate", "source"}

\* How often one entry occurs in the changelog of the entities: one reporting
\* entry for every sink of a device, one source entry for every occurrence of
\* the config on an edge of the device.
Occurrences(ents, n, e) ==
    CASE e.kind = "sink" -> IF <<e.dev, e.key>> \in ents.sinks THEN 1 ELSE 0
      [] e.kind = "reporting" ->
            IF e.key = n THEN Cardinality({s \in ents.sinks : s[1] = e.dev}) ELSE 0
      [] e.kind = "transit" -> IF e.dev \in ents.transits THEN 1 ELSE 0
      [] e.kind = "activate" -> IF <<e.dev, e.key>> \in DOMAIN ents.sources THEN 1 ELSE 0
      [] e.kind = "source" ->
            LET edges == {s \in DOMAIN ents.sources : s[1] = e.dev}
            IN Total([s \in edges |-> ents.sources[s][e.key]], edges)

EntriesFor(ents, n) == [e \in TableEntry |-> Occurrences(ents, n, e)]
=============================================================================
