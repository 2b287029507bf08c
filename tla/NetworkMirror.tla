---------------------------- MODULE NetworkMirror ----------------------------
(***************************************************************************)
(* How the reconciler of the SDN shim mirrors the network into Kubernetes  *)
(* (sdn-shim/controllers/sdnshim_controller.go:157-339), while the network *)
(* changes (kinda-sdn/controller/controller.go:116-173).                   *)
(*                                                                         *)
(* A pass asks KindaSdn for the topology, for the switches and for their   *)
(* programs, each as it is then, and writes what differs from the stored   *)
(* objects.  It reads these from a cache that may be behind, and writes    *)
(* them one at a time; when anything fails the pass ends and is queued     *)
(* again.  The connection breaks, both programs restart, the API server    *)
(* refuses calls.                                                          *)
(*                                                                         *)
(* What wakes the reconciler is NetworkNotifications' concern.  A device   *)
(* is a switch with a program or Plain; its links, its architecture and    *)
(* the interfaces of a program are compared and copied like these and left *)
(* out, and so are the status conditions.                                  *)
(***************************************************************************)
EXTENDS Naturals, FiniteSets, Functions

CONSTANTS
    Device,         \* the devices the network may consist of
    Program,        \* the programs a switch may be given
    Registered,     \* the programs the registry knows
    Plain,          \* what a device that is no switch runs
    InitialNet,     \* the generated topology
    NoTopology,     \* there is no topology object
    MaxChanges,     \* bound on the number of changes of the network
    MaxFaults       \* bound on the number of faults of any kind

Net == UNION {[D -> Program \cup {Plain}] : D \in SUBSET Device}

ASSUME MirrorAssumption ==
    /\ Registered \subseteq Program
    /\ Plain \notin Program
    /\ InitialNet \in Net
    /\ Device \cap Program = {} /\ "topology" \notin Device \cup Program
    /\ MaxChanges \in Nat /\ MaxFaults \in Nat

VARIABLES
    net,            \* topo.Devices
    changes,        \* the number of changes so far
    client,         \* sdnClient: none, or its connection works or is broken
    queued,         \* the SDNShim object is in the reconciler's work queue
    pc,             \* what the pass does next
    wanted,         \* the topology this pass has fetched
    details,        \* the programs of the switches it has fetched
    listedSwitches, \* the stored switches as it has read them
    listedPrograms, \* the names of the stored programs as it has read them
    todo,           \* the objects it still has to write before it goes on
    steady,         \* it began with an exact cache, and the network is the same
    api,            \* the objects the API server stores
    cache,          \* the objects the shim's client reads
    behind,         \* the objects that differ between the two
    faults          \* the number of faults so far

netVars == <<net, changes>>
listedVars == <<listedSwitches, listedPrograms>>
passVars == <<pc, wanted, details, listedSwitches, listedPrograms, todo, steady, queued>>
storeVars == <<api, cache, behind>>
vars == <<netVars, client, passVars, storeVars, faults>>

\* TopologyModelToProto: names and types
TopologyOf(n) == [d \in DOMAIN n |-> n[d] # Plain]
SwitchesOf(topology) == {d \in DOMAIN topology : topology[d]}

NothingFetched == [d \in {} |-> Plain]

Init ==
    /\ net = InitialNet
    /\ changes = 0
    /\ client = "none"
    /\ queued = TRUE
    /\ pc = "idle"
    /\ wanted = NothingFetched
    /\ details = NothingFetched
    /\ listedSwitches = NothingFetched
    /\ listedPrograms = {}
    /\ todo = {}
    /\ steady = FALSE
    /\ api = [topology |-> NoTopology, switches |-> NothingFetched, programs |-> {}]
    /\ cache = api
    /\ behind = {}
    /\ faults = 0
-----------------------------------------------------------------------------
(* The network changes *)

ChangeTo(n) ==
    /\ changes < MaxChanges
    /\ changes' = changes + 1
    /\ net' = n
    /\ steady' = FALSE
    /\ UNCHANGED <<client, pc, wanted, details, listedVars, todo, storeVars, faults>>

\* Devices added over HTTP are no programmable switches.  With a link to a device
\* that does not exist the call fails when the device has been added, and nobody
\* is told; nor is anybody when nobody listens.
AddDevices(d) ==
    /\ d \notin DOMAIN net
    /\ ChangeTo([e \in DOMAIN net \cup {d} |-> IF e = d THEN Plain ELSE net[e]])
    /\ queued' \in {queued, TRUE}

RemoveDevices(d) ==
    /\ d \in DOMAIN net
    /\ ChangeTo(Restrict(net, DOMAIN net \ {d}))
    /\ queued' \in {queued, TRUE}

\* The program need not be registered.
ChangeProgram(d, p) ==
    /\ d \in DOMAIN net /\ net[d] \notin {Plain, p}
    /\ ChangeTo([net EXCEPT ![d] = p])
    /\ queued' \in {queued, TRUE}
-----------------------------------------------------------------------------
(* A pass: the connection *)

EndPass(again) ==
    /\ pc' = "idle"
    /\ wanted' = NothingFetched /\ details' = NothingFetched
    /\ listedSwitches' = NothingFetched /\ listedPrograms' = {} /\ todo' = {}
    /\ steady' = FALSE
    /\ queued' = (queued \/ again)

Begin ==
    /\ pc = "idle" /\ queued
    /\ queued' = FALSE
    /\ pc' = IF client = "none" THEN "connect" ELSE "fetch"
    /\ UNCHANGED <<netVars, client, wanted, details, listedVars, todo, steady, storeVars, faults>>

Connect ==
    /\ pc = "connect"
    /\ client' = "works"
    /\ EndPass(TRUE)
    /\ UNCHANGED <<netVars, storeVars, faults>>

AsksSdn ==
    \/ pc = "fetch"
    \/ pc = "deleteSwitches" /\ todo = {}
    \/ pc = "deletePrograms" /\ todo = {} /\ details # NothingFetched

\* closeSdnClient; the next pass connects
CallFails ==
    /\ AsksSdn /\ client = "broken"
    /\ client' = "none"
    /\ EndPass(TRUE)
    /\ UNCHANGED <<netVars, storeVars, faults>>

GetTopology ==
    /\ pc = "fetch" /\ client = "works"
    /\ wanted' = TopologyOf(net)
    /\ steady' = (behind = {})
    /\ pc' = "topology"
    /\ UNCHANGED <<netVars, client, queued, details, listedVars, todo, storeVars, faults>>
-----------------------------------------------------------------------------
(* A pass: the objects *)

Outside == <<netVars, client, faults>>

\* An error, or an answer that does not fit any more.
TryAgain == EndPass(TRUE) /\ UNCHANGED <<Outside, storeVars>>

\* The API server stores a new value of one object.
Write(kind, value, object) ==
    /\ api' = [api EXCEPT ![kind] = value]
    /\ behind' = behind \cup {object}
    /\ UNCHANGED <<Outside, cache>>

GoOn(step, objects) ==
    /\ pc' = step
    /\ todo' = objects
    /\ UNCHANGED <<queued, wanted, steady>>

Done(object) ==
    /\ todo' = todo \ {object}
    /\ UNCHANGED <<pc, queued, wanted, details, listedVars, steady>>

CreateTopology ==
    /\ pc = "topology" /\ cache.topology = NoTopology
    /\ \/ api.topology = NoTopology /\ EndPass(TRUE) /\ Write("topology", wanted, "topology")
       \/ api.topology # NoTopology /\ TryAgain

\* Mutant: the numbers of devices are compared.
topologyChanged_ByNumber == Cardinality(DOMAIN cache.topology) # Cardinality(DOMAIN wanted)

topologyChanged == cache.topology # wanted

\* The comparison is with what the cache has, and Update is refused when that is
\* not what is stored.
UpdateTopology ==
    /\ pc = "topology" /\ cache.topology # NoTopology
    /\ \/ /\ ~topologyChanged
          /\ GoOn("switches", {})
          /\ UNCHANGED <<Outside, details, listedVars, storeVars>>
       \/ /\ topologyChanged /\ "topology" \notin behind
          /\ GoOn("switches", {})
          /\ Write("topology", wanted, "topology")
          /\ UNCHANGED <<details, listedVars>>
       \/ topologyChanged /\ "topology" \in behind /\ TryAgain

ListSwitches ==
    /\ pc = "switches"
    /\ listedSwitches' = cache.switches
    /\ GoOn("deleteSwitches", DOMAIN cache.switches \ SwitchesOf(wanted))
    /\ UNCHANGED <<Outside, details, listedPrograms, storeVars>>

DeleteSwitch(s) ==
    /\ pc = "deleteSwitches" /\ s \in todo
    /\ \/ /\ s \in DOMAIN api.switches
          /\ Write("switches", Restrict(api.switches, DOMAIN api.switches \ {s}), s)
          /\ Done(s)
       \/ s \notin DOMAIN api.switches /\ TryAgain

\* KindaSdn answers for all the switches or, when one is gone, for none.
SwitchDetailsFor(names) == names \subseteq SwitchesOf(TopologyOf(net))

\* Mutant: switches that are there are not looked at again.
GetSwitchDetails_AddsOnly ==
    /\ pc = "deleteSwitches" /\ todo = {} /\ client = "works"
    /\ LET names == SwitchesOf(wanted)
       IN  \/ /\ SwitchDetailsFor(names)
              /\ details' = Restrict(net, names)
              /\ GoOn("writeSwitches", names \ DOMAIN listedSwitches)
              /\ UNCHANGED <<Outside, listedVars, storeVars>>
           \/ ~SwitchDetailsFor(names) /\ TryAgain

GetSwitchDetails ==
    /\ pc = "deleteSwitches" /\ todo = {} /\ client = "works"
    /\ LET names == SwitchesOf(wanted)
       IN  \/ /\ SwitchDetailsFor(names)
              /\ details' = Restrict(net, names)
              /\ GoOn("writeSwitches",
                      {s \in names : s \in DOMAIN listedSwitches => listedSwitches[s] # net[s]})
              /\ UNCHANGED <<Outside, listedVars, storeVars>>
           \/ ~SwitchDetailsFor(names) /\ TryAgain

StoredDetails(s) ==
    [t \in DOMAIN api.switches \cup {s} |-> IF t = s THEN details[s] ELSE api.switches[t]]

\* What is listed and has changed is updated first.
UpdateSwitch(s) ==
    /\ pc = "writeSwitches" /\ s \in todo \cap DOMAIN listedSwitches
    /\ \/ s \notin behind /\ Write("switches", StoredDetails(s), s) /\ Done(s)
       \/ s \in behind /\ TryAgain

CreateSwitch(s) ==
    /\ pc = "writeSwitches" /\ s \in todo /\ todo \cap DOMAIN listedSwitches = {}
    /\ \/ s \notin DOMAIN api.switches /\ Write("switches", StoredDetails(s), s) /\ Done(s)
       \/ s \in DOMAIN api.switches /\ TryAgain

ListPrograms ==
    /\ pc = "writeSwitches" /\ todo = {}
    /\ listedPrograms' = cache.programs
    /\ GoOn("deletePrograms", cache.programs \ Range(details))
    /\ UNCHANGED <<Outside, details, listedSwitches, storeVars>>

DeleteProgram(p) ==
    /\ pc = "deletePrograms" /\ p \in todo
    /\ \/ p \in api.programs /\ Write("programs", api.programs \ {p}, p) /\ Done(p)
       \/ p \notin api.programs /\ TryAgain

\* One call per program: one that is not registered keeps all from being created.
GetProgramDetails ==
    /\ pc = "deletePrograms" /\ todo = {}
    /\ client = "works" \/ details = NothingFetched
    /\ \/ /\ Range(details) \subseteq Registered
          /\ GoOn("createPrograms", Range(details) \ listedPrograms)
          /\ UNCHANGED <<Outside, details, listedVars, storeVars>>
       \/ ~(Range(details) \subseteq Registered) /\ TryAgain

CreateProgram(p) ==
    /\ pc = "createPrograms" /\ p \in todo
    /\ \/ p \notin api.programs /\ Write("programs", api.programs \cup {p}, p) /\ Done(p)
       \/ p \in api.programs /\ TryAgain

\* The status of the SDNShim object is updated, which may be refused, or wake the
\* reconciler.
Finish ==
    /\ pc = "createPrograms" /\ todo = {}
    /\ \E again \in BOOLEAN : EndPass(again)
    /\ UNCHANGED <<Outside, storeVars>>
-----------------------------------------------------------------------------
(* The cache, the manager, and what goes wrong *)

Kinds == [topology |-> {"topology"}, switches |-> Device, programs |-> Program]

CatchUp(kind) ==
    /\ behind \cap Kinds[kind] # {}
    /\ cache' = [cache EXCEPT ![kind] = api[kind]]
    /\ behind' = behind \ Kinds[kind]
    /\ UNCHANGED <<Outside, passVars, api>>

\* The manager queues every object from time to time.
Resync ==
    /\ ~queued
    /\ queued' = TRUE
    /\ UNCHANGED <<Outside, pc, wanted, details, listedVars, todo, steady, storeVars>>

Fault == faults < MaxFaults /\ faults' = faults + 1

\* The API server, or KindaSdn when it is asked to connect, does not answer.
CallIsLost ==
    /\ pc \notin {"idle", "fetch"}
    /\ Fault
    /\ EndPass(TRUE)
    /\ UNCHANGED <<netVars, client, storeVars>>

Break ==
    /\ client = "works"
    /\ Fault
    /\ client' = "broken"
    /\ UNCHANGED <<netVars, passVars, storeVars>>

\* KindaSdn forgets every change.
SdnRestart ==
    /\ Fault
    /\ net' = InitialNet
    /\ steady' = FALSE
    /\ client' = IF client = "none" THEN "none" ELSE "broken"
    /\ UNCHANGED <<changes, pc, wanted, details, listedVars, todo, queued, storeVars>>

\* What is stored survives.
ShimRestart ==
    /\ Fault
    /\ EndPass(TRUE)
    /\ client' = "none"
    /\ cache' = api
    /\ behind' = {}
    /\ UNCHANGED <<netVars, api>>
-----------------------------------------------------------------------------
NetworkChange ==
    \/ \E d \in Device : AddDevices(d) \/ RemoveDevices(d)
    \/ \E d \in Device, p \in Program : ChangeProgram(d, p)

SwitchStep == \E s \in Device : DeleteSwitch(s) \/ UpdateSwitch(s) \/ CreateSwitch(s)
ProgramStep == \E p \in Program : DeleteProgram(p) \/ CreateProgram(p)

PassStep ==
    \/ Begin \/ Connect \/ CallFails
    \/ GetTopology \/ CreateTopology \/ UpdateTopology
    \/ ListSwitches \/ GetSwitchDetails \/ SwitchStep
    \/ ListPrograms \/ GetProgramDetails \/ ProgramStep
    \/ Finish

Next ==
    \/ NetworkChange
    \/ PassStep
    \/ \E kind \in DOMAIN Kinds : CatchUp(kind)
    \/ Resync
    \/ CallIsLost \/ Break \/ SdnRestart \/ ShimRestart

Spec == Init /\ [][Next]_vars

\* Passes go on, and what is written reaches the cache.  Nothing makes the network
\* change, things fail, or the manager queue an object.
FairSpec ==
    /\ Spec
    /\ WF_vars(PassStep)
    /\ \A kind \in DOMAIN Kinds : WF_vars(CatchUp(kind))
-----------------------------------------------------------------------------
Topology == UNION {[D -> BOOLEAN] : D \in SUBSET Device}
Switches == UNION {[D -> Program] : D \in SUBSET Device}
Store == [topology : Topology \cup {NoTopology}, switches : Switches, programs : SUBSET Program]

TypeOK ==
    /\ net \in Net
    /\ changes \in 0 .. MaxChanges
    /\ client \in {"none", "works", "broken"}
    /\ queued \in BOOLEAN
    /\ pc \in {"idle", "connect", "fetch", "topology", "switches", "deleteSwitches",
               "writeSwitches", "deletePrograms", "createPrograms"}
    /\ wanted \in Topology
    /\ details \in Switches
    /\ listedSwitches \in Switches
    /\ listedPrograms \subseteq Program
    /\ todo \subseteq Device \cup Program
    /\ steady \in BOOLEAN
    /\ api \in Store
    /\ cache \in Store
    /\ behind \subseteq Device \cup Program \cup {"topology"}
    /\ faults \in 0 .. MaxFaults

TopologyIsExact == api.topology = TopologyOf(net)
SwitchesAreExact == api.switches = Restrict(net, SwitchesOf(TopologyOf(net)))
ProgramsAreExact == api.programs = Range(api.switches)

\* The mirror shows the network, as far as its programs are known.
MirrorIsExact ==
    /\ TopologyIsExact
    /\ SwitchesAreExact
    /\ Range(api.switches) \subseteq Registered => ProgramsAreExact

\* When "Network state reconciled" is about to be reported (line 320), the mirror
\* is exact, provided that the network has not changed and the cache was not
\* behind when the pass began: whatever earlier passes have left half done.
FinishedPassIsExact == pc = "createPrograms" /\ todo = {} /\ steady => MirrorIsExact

\* Changes nobody is told of, caches that are behind, half a pass and restarts
\* leave the mirror wrong for no longer than until later passes: if there is always
\* another one, the mirror becomes exact.
MirrorConverges == []<><<Begin>>_vars => <>[]MirrorIsExact
=============================================================================
