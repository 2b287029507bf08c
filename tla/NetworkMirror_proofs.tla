------------------------- MODULE NetworkMirror_proofs -------------------------
(***************************************************************************)
(* Proofs about NetworkMirror for any devices, programs and networks, and  *)
(* any number of changes and faults: its types, and that a pass that has   *)
(* met no error has made the mirror exact.                                 *)
(***************************************************************************)
EXTENDS NetworkMirror, TLAPS

-----------------------------------------------------------------------------
(* Partial functions *)

LEMMA PartialFunction ==
    ASSUME NEW S, NEW T, NEW f
    PROVE  f \in UNION {[D -> T] : D \in SUBSET S} <=> DOMAIN f \subseteq S /\ f \in [DOMAIN f -> T]
<1>1. ASSUME f \in UNION {[D -> T] : D \in SUBSET S}
      PROVE  DOMAIN f \subseteq S /\ f \in [DOMAIN f -> T]
  <2> PICK D \in SUBSET S : f \in [D -> T]
    BY <1>1
  <2> QED
    OBVIOUS
<1>2. ASSUME DOMAIN f \subseteq S, f \in [DOMAIN f -> T]
      PROVE  f \in UNION {[D -> T] : D \in SUBSET S}
  BY <1>2
<1> QED
  BY <1>1, <1>2

LEMMA RestrictType ==
    ASSUME NEW S, NEW T, NEW f, DOMAIN f \subseteq S, f \in [DOMAIN f -> T],
           NEW D \in SUBSET DOMAIN f
    PROVE  Restrict(f, D) \in UNION {[E -> T] : E \in SUBSET S}
<1>1. Restrict(f, D) \in [D -> T] /\ D \in SUBSET S
  BY DEF Restrict
<1> QED
  BY <1>1

LEMMA TopologyType ==
    ASSUME NEW n \in Net
    PROVE  /\ TopologyOf(n) \in Topology
           /\ DOMAIN TopologyOf(n) = DOMAIN n
           /\ SwitchesOf(TopologyOf(n)) = {d \in DOMAIN n : n[d] # Plain}
<1>1. DOMAIN n \subseteq Device
  BY PartialFunction DEF Net
<1>2. TopologyOf(n) \in [DOMAIN n -> BOOLEAN]
  BY DEF TopologyOf
<1> QED
  BY <1>1, <1>2 DEF TopologyOf, SwitchesOf, Topology

LEMMA NothingType == NothingFetched \in Topology /\ NothingFetched \in Switches
<1>1. ASSUME NEW T PROVE NothingFetched \in [{} -> T]
  BY DEF NothingFetched
<1> QED
  BY <1>1 DEF Topology, Switches

\* Every network the operations of KindaSdn make is one.
LEMMA NetType ==
    ASSUME NEW n \in Net, NEW d \in Device, NEW v \in Program \cup {Plain}
    PROVE  /\ [e \in DOMAIN n \cup {d} |-> IF e = d THEN v ELSE n[e]] \in Net
           /\ Restrict(n, DOMAIN n \ {d}) \in Net
           /\ d \in DOMAIN n => [n EXCEPT ![d] = v] \in Net
<1>1. DOMAIN n \subseteq Device /\ n \in [DOMAIN n -> Program \cup {Plain}]
  BY PartialFunction DEF Net
<1>2. [e \in DOMAIN n \cup {d} |-> IF e = d THEN v ELSE n[e]]
        \in [DOMAIN n \cup {d} -> Program \cup {Plain}]
  BY <1>1
<1>3. d \in DOMAIN n => [n EXCEPT ![d] = v] \in [DOMAIN n -> Program \cup {Plain}]
  BY <1>1
<1>4. Restrict(n, DOMAIN n \ {d}) \in Net
  BY <1>1, RestrictType DEF Net
<1>5. DOMAIN n \cup {d} \in SUBSET Device
  BY <1>1
<1> QED
  BY <1>1, <1>2, <1>3, <1>4, <1>5 DEF Net

-----------------------------------------------------------------------------
(* Types *)

\* Switches that are to be written have been asked about.
KnowsWhatToWrite == pc = "writeSwitches" => todo \subseteq DOMAIN details

TypeInv == TypeOK /\ KnowsWhatToWrite

LEMMA StoredDetailsType ==
    ASSUME TypeInv, NEW s \in DOMAIN details PROVE StoredDetails(s) \in Switches
<1>1. /\ DOMAIN details \subseteq Device /\ details \in [DOMAIN details -> Program]
      /\ DOMAIN api.switches \subseteq Device
      /\ api.switches \in [DOMAIN api.switches -> Program]
  BY PartialFunction DEF TypeInv, TypeOK, Store, Switches
<1>2. StoredDetails(s) \in [DOMAIN api.switches \cup {s} -> Program]
  BY <1>1 DEF StoredDetails
<1>3. DOMAIN api.switches \cup {s} \in SUBSET Device
  BY <1>1
<1> QED
  BY <1>2, <1>3 DEF Switches

\* Writing an object of the right type keeps the types of what is stored.
LEMMA WriteType ==
    ASSUME TypeInv, NEW kind, NEW value, NEW object, Write(kind, value, object),
           object \in Device \cup Program \cup {"topology"},
           \/ kind = "topology" /\ value \in Topology
           \/ kind = "switches" /\ value \in Switches
           \/ kind = "programs" /\ value \in SUBSET Program
    PROVE  /\ api' \in Store /\ cache' \in Store
           /\ behind' \subseteq Device \cup Program \cup {"topology"}
           /\ UNCHANGED <<net, changes, client, faults>>
BY DEF TypeInv, TypeOK, Write, Store, Outside, netVars

LEMMA EndPassType ==
    ASSUME EndPass(TRUE) \/ (\E again \in BOOLEAN : EndPass(again)), queued \in BOOLEAN
    PROVE  /\ pc' = "idle"
           /\ wanted' \in Topology /\ details' \in Switches
           /\ listedSwitches' \in Switches /\ listedPrograms' \subseteq Program
           /\ todo' = {} /\ steady' = FALSE /\ queued' \in BOOLEAN
BY NothingType DEF EndPass

LEMMA TypeInit == ASSUME MirrorAssumption, Init PROVE TypeInv
<1>1. api \in Store
  BY NothingType DEF Init, Store
<1>2. 0 \in 0 .. MaxChanges /\ 0 \in 0 .. MaxFaults
  BY DEF MirrorAssumption
<1>3. net \in Net /\ pc = "idle"
  BY DEF MirrorAssumption, Init
<1> QED
  BY <1>1, <1>2, <1>3, NothingType DEF Init, TypeInv, TypeOK, KnowsWhatToWrite

LEMMA NetworkChangeType == ASSUME TypeInv, NetworkChange PROVE TypeInv'
<1> USE DEF TypeInv, TypeOK
<1>1. \E n \in Net : ChangeTo(n) /\ queued' \in {queued, TRUE}
  <2>1. ASSUME NEW d \in Device, AddDevices(d)
        PROVE  \E n \in Net : ChangeTo(n) /\ queued' \in {queued, TRUE}
    BY <2>1, NetType DEF AddDevices
  <2>2. ASSUME NEW d \in Device, RemoveDevices(d)
        PROVE  \E n \in Net : ChangeTo(n) /\ queued' \in {queued, TRUE}
    BY <2>2, NetType DEF RemoveDevices
  <2>3. ASSUME NEW d \in Device, NEW p \in Program, ChangeProgram(d, p)
        PROVE  \E n \in Net : ChangeTo(n) /\ queued' \in {queued, TRUE}
    BY <2>3, NetType DEF ChangeProgram
  <2> QED
    BY <2>1, <2>2, <2>3 DEF NetworkChange
<1>2. changes' \in 0 .. MaxChanges
  BY <1>1, MirrorAssumption DEF ChangeTo, MirrorAssumption
<1> QED
  BY <1>1, <1>2 DEF ChangeTo, storeVars, listedVars, KnowsWhatToWrite

LEMMA ConnectionStepType ==
    ASSUME TypeInv, Begin \/ Connect \/ CallFails \/ GetTopology PROVE TypeInv'
<1> USE DEF TypeInv, TypeOK, KnowsWhatToWrite, netVars, storeVars, listedVars
<1>1. CASE Begin
  BY <1>1 DEF Begin
<1>2. CASE Connect
  BY <1>2, EndPassType DEF Connect
<1>3. CASE CallFails
  BY <1>3, EndPassType DEF CallFails
<1>4. CASE GetTopology
  BY <1>4, TopologyType DEF GetTopology
<1> QED
  BY <1>1, <1>2, <1>3, <1>4

LEMMA TryAgainType == ASSUME TypeInv, TryAgain PROVE TypeInv'
BY EndPassType DEF TypeInv, TypeOK, KnowsWhatToWrite, TryAgain, Outside, netVars, storeVars

LEMMA TopologyStepType ==
    ASSUME TypeInv, CreateTopology \/ UpdateTopology PROVE TypeInv'
<1> USE DEF TypeInv, TypeOK, KnowsWhatToWrite
<1>1. CASE CreateTopology /\ ~TryAgain
  <2>1. EndPass(TRUE) /\ Write("topology", wanted, "topology")
    BY <1>1 DEF CreateTopology
  <2> QED
    BY <2>1, WriteType, EndPassType
<1>2. CASE UpdateTopology /\ UNCHANGED storeVars /\ ~TryAgain
  BY <1>2 DEF UpdateTopology, GoOn, Outside, netVars, storeVars, listedVars, Write
<1>3. CASE UpdateTopology /\ ~UNCHANGED storeVars /\ ~TryAgain
  <2>1. /\ Write("topology", wanted, "topology")
        /\ GoOn("switches", {}) /\ UNCHANGED <<details, listedVars>>
    BY <1>3 DEF UpdateTopology
  <2> QED
    BY <2>1, WriteType DEF GoOn, listedVars
<1> QED
  BY <1>1, <1>2, <1>3, TryAgainType

LEMMA ReadStepType ==
    ASSUME TypeInv, ListSwitches \/ GetSwitchDetails \/ ListPrograms \/ GetProgramDetails
    PROVE  TypeInv'
<1> USE DEF TypeInv, TypeOK, KnowsWhatToWrite, GoOn, Outside, netVars, storeVars, listedVars
<1>1. /\ DOMAIN cache.switches \subseteq Device
      /\ DOMAIN details \subseteq Device /\ Range(details) \subseteq Program
      /\ cache.switches \in Switches /\ cache.programs \subseteq Program
  BY PartialFunction DEF Store, Switches, Range
<1>2. CASE ListSwitches
  BY <1>1, <1>2 DEF ListSwitches
<1>3. CASE GetSwitchDetails
  <2> DEFINE names == SwitchesOf(wanted)
  <2>1. CASE names \subseteq SwitchesOf(TopologyOf(net))
    <3>1. /\ DOMAIN net \subseteq Device /\ net \in [DOMAIN net -> Program \cup {Plain}]
      BY PartialFunction DEF Net
    <3>2. names \subseteq DOMAIN net /\ \A d \in names : net[d] \in Program
      BY <2>1, <3>1, TopologyType
    <3>3. Restrict(net, names) \in [names -> Program] /\ names \in SUBSET Device
      BY <3>1, <3>2 DEF Restrict
    <3>4. Restrict(net, names) \in Switches /\ DOMAIN Restrict(net, names) = names
      BY <3>3 DEF Switches
    <3>5. /\ details' = Restrict(net, names)
          /\ pc' = "writeSwitches" /\ todo' \subseteq names
          /\ UNCHANGED <<Outside, listedVars, storeVars, queued, wanted, steady>>
      BY <1>3, <2>1 DEF GetSwitchDetails, SwitchDetailsFor
    <3> QED
      BY <3>3, <3>4, <3>5
  <2>2. CASE ~(names \subseteq SwitchesOf(TopologyOf(net)))
    BY <1>3, <2>2, TryAgainType DEF GetSwitchDetails, SwitchDetailsFor
  <2> QED
    BY <2>1, <2>2
<1>4. CASE ListPrograms
  BY <1>1, <1>4 DEF ListPrograms
<1>5. CASE GetProgramDetails /\ ~TryAgain
  BY <1>1, <1>5 DEF GetProgramDetails
<1> QED
  BY <1>2, <1>3, <1>4, <1>5, TryAgainType

\* What the steps that write one object have in common.
LEMMA WriteStepType ==
    ASSUME TypeInv, NEW kind, NEW value, NEW object \in Device \cup Program,
           Write(kind, value, object), Done(object),
           \/ kind = "switches" /\ value \in Switches
           \/ kind = "programs" /\ value \in SUBSET Program
    PROVE  TypeInv'
BY WriteType DEF TypeInv, TypeOK, KnowsWhatToWrite, Done, listedVars

LEMMA SwitchStepType == ASSUME TypeInv, SwitchStep PROVE TypeInv'
<1>1. DOMAIN api.switches \subseteq Device /\ api.switches \in [DOMAIN api.switches -> Program]
  BY PartialFunction DEF TypeInv, TypeOK, Store, Switches
<1>2. ASSUME NEW s \in Device, DeleteSwitch(s), ~TryAgain PROVE TypeInv'
  <2>1. Restrict(api.switches, DOMAIN api.switches \ {s}) \in Switches
    BY <1>1, RestrictType DEF Switches
  <2> QED
    BY <1>2, <2>1, WriteStepType DEF DeleteSwitch
<1>3. ASSUME NEW s \in Device, UpdateSwitch(s) \/ CreateSwitch(s), ~TryAgain PROVE TypeInv'
  <2>1. Write("switches", StoredDetails(s), s) /\ Done(s) /\ s \in DOMAIN details
    BY <1>3 DEF UpdateSwitch, CreateSwitch, TypeInv, KnowsWhatToWrite
  <2> QED
    BY <2>1, StoredDetailsType, WriteStepType
<1> QED
  BY <1>2, <1>3, TryAgainType DEF SwitchStep

LEMMA ProgramStepType == ASSUME TypeInv, ProgramStep PROVE TypeInv'
<1>1. api.programs \subseteq Program
  BY DEF TypeInv, TypeOK, Store
<1>2. ASSUME NEW p \in Program, DeleteProgram(p), ~TryAgain PROVE TypeInv'
  BY <1>1, <1>2, WriteStepType DEF DeleteProgram
<1>3. ASSUME NEW p \in Program, CreateProgram(p), ~TryAgain PROVE TypeInv'
  BY <1>1, <1>3, WriteStepType DEF CreateProgram
<1> QED
  BY <1>2, <1>3, TryAgainType DEF ProgramStep

LEMMA PassStepType == ASSUME TypeInv, PassStep PROVE TypeInv'
<1>1. CASE Finish
  BY <1>1, EndPassType DEF Finish, TypeInv, TypeOK, KnowsWhatToWrite, Outside, netVars, storeVars
<1> QED
  BY <1>1, ConnectionStepType, TopologyStepType, ReadStepType, SwitchStepType, ProgramStepType
  DEF PassStep

LEMMA CatchUpType ==
    ASSUME TypeInv, NEW kind \in DOMAIN Kinds, CatchUp(kind) PROVE TypeInv'
<1>1. cache' \in Store
  BY DEF CatchUp, TypeInv, TypeOK, Store, Kinds
<1> QED
  BY <1>1 DEF CatchUp, TypeInv, TypeOK, KnowsWhatToWrite, Outside, netVars, passVars, listedVars

LEMMA TroubleType ==
    ASSUME MirrorAssumption, TypeInv,
           Resync \/ CallIsLost \/ Break \/ SdnRestart \/ ShimRestart
    PROVE  TypeInv'
<1> USE DEF TypeInv, TypeOK, KnowsWhatToWrite, Outside, netVars, storeVars, listedVars
<1>1. CASE Resync
  BY <1>1 DEF Resync
<1>2. ASSUME Fault PROVE faults' \in 0 .. MaxFaults
  BY <1>2 DEF Fault, MirrorAssumption
<1>3. CASE CallIsLost
  BY <1>2, <1>3, EndPassType DEF CallIsLost
<1>4. CASE Break
  BY <1>2, <1>4 DEF Break, passVars
<1>5. CASE SdnRestart
  BY <1>2, <1>5 DEF SdnRestart, MirrorAssumption
<1>6. CASE ShimRestart
  BY <1>2, <1>6, EndPassType DEF ShimRestart
<1> QED
  BY <1>1, <1>3, <1>4, <1>5, <1>6

LEMMA TypeStep == ASSUME MirrorAssumption, TypeInv, [Next]_vars PROVE TypeInv'
<1>1. CASE UNCHANGED vars
  BY <1>1 DEF vars, netVars, passVars, listedVars, storeVars, TypeInv, TypeOK, KnowsWhatToWrite
<1> QED
  BY <1>1, NetworkChangeType, PassStepType, CatchUpType, TroubleType DEF Next

(***************************************************************************)
(* Type correctness: in particular a pass only writes switches it has      *)
(* details of, and only stores what KindaSdn has said.                     *)
(***************************************************************************)
THEOREM MirrorTypeCorrect == Spec => []TypeOK
<1>1. Init => TypeInv
  BY TypeInit, MirrorAssumption
<1>2. TypeInv /\ [Next]_vars => TypeInv'
  BY TypeStep, MirrorAssumption
<1>3. TypeInv => TypeOK
  BY DEF TypeInv
<1> QED
  BY <1>1, <1>2, <1>3, PTL DEF Spec
-----------------------------------------------------------------------------
(* A pass in a steady network *)

\* Where no object is behind, the cache is what is stored.
CacheIsCoherent ==
    /\ "topology" \notin behind => cache.topology = api.topology
    /\ behind \cap Device = {} => cache.switches = api.switches
    /\ behind \cap Program = {} => cache.programs = api.programs

\* What a steady pass has achieved when it is at the deletion of switches, ...
SwitchesAreListed ==
    /\ todo = DOMAIN api.switches \ SwitchesOf(wanted)
    /\ \A s \in SwitchesOf(wanted) :
          /\ s \in DOMAIN listedSwitches <=> s \in DOMAIN api.switches
          /\ s \in DOMAIN api.switches => listedSwitches[s] = api.switches[s]

\* ... at the writing of switches, ...
SwitchesAreLeftToWrite ==
    /\ details = Restrict(net, SwitchesOf(wanted))
    /\ DOMAIN api.switches \subseteq SwitchesOf(wanted)
    /\ todo = {s \in SwitchesOf(wanted) : s \in DOMAIN api.switches => api.switches[s] # details[s]}

\* ... at the deletion of programs, ...
ProgramsAreListed ==
    /\ todo = api.programs \ Range(details)
    /\ listedPrograms \cap Range(details) = api.programs \cap Range(details)

\* ... and at the creation of programs.
ProgramsAreLeftToCreate ==
    /\ api.programs \subseteq Range(details)
    /\ todo = Range(details) \ api.programs

SwitchesAreDone ==
    /\ details = Restrict(net, SwitchesOf(wanted))
    /\ api.switches = details

SteadyProgress ==
    /\ pc \notin {"idle", "connect", "fetch"}
    /\ wanted = TopologyOf(net)
    /\ pc = "topology" => behind = {}
    /\ pc # "topology" => api.topology = wanted
    /\ pc = "switches" => behind \cap Device = {}
    /\ pc \in {"switches", "deleteSwitches", "writeSwitches"} => behind \cap Program = {}
    /\ pc = "deleteSwitches" => SwitchesAreListed
    /\ pc = "writeSwitches" => SwitchesAreLeftToWrite
    /\ pc = "deletePrograms" => SwitchesAreDone /\ ProgramsAreListed
    /\ pc = "createPrograms" => SwitchesAreDone /\ ProgramsAreLeftToCreate

MirrorInv == TypeInv /\ CacheIsCoherent /\ (steady => SteadyProgress)

LEMMA CoherentStep ==
    ASSUME MirrorAssumption, MirrorInv, [Next]_vars PROVE CacheIsCoherent'
<1> USE DEF MirrorInv, CacheIsCoherent
<1>1. ASSUME UNCHANGED storeVars PROVE CacheIsCoherent'
  BY <1>1 DEF storeVars
<1>2. ASSUME NEW value, Write("topology", value, "topology") PROVE CacheIsCoherent'
  BY <1>2 DEF Write, TypeInv, TypeOK, Store
<1>3. ASSUME NEW value, NEW s \in Device, Write("switches", value, s) PROVE CacheIsCoherent'
  BY <1>3 DEF Write, TypeInv, TypeOK, Store
<1>4. ASSUME NEW value, NEW p \in Program, Write("programs", value, p) PROVE CacheIsCoherent'
  BY <1>4 DEF Write, TypeInv, TypeOK, Store
<1>5. ASSUME NEW kind \in DOMAIN Kinds, CatchUp(kind) PROVE CacheIsCoherent'
  BY <1>5, MirrorAssumption DEF CatchUp, Kinds, TypeInv, TypeOK, Store, MirrorAssumption
<1>6. CASE ShimRestart
  BY <1>6 DEF ShimRestart
<1>7. CASE UNCHANGED vars
  BY <1>1, <1>7 DEF vars
<1>8. CASE NetworkChange
  BY <1>1, <1>8 DEF NetworkChange, AddDevices, RemoveDevices, ChangeProgram, ChangeTo
<1>9. CASE Resync \/ CallIsLost \/ Break \/ SdnRestart
  BY <1>1, <1>9 DEF Resync, CallIsLost, Break, SdnRestart
<1>10. CASE CreateTopology \/ UpdateTopology
  BY <1>1, <1>2, <1>10 DEF CreateTopology, UpdateTopology, TryAgain
<1>11. CASE SwitchStep
  BY <1>1, <1>3, <1>11 DEF SwitchStep, DeleteSwitch, UpdateSwitch, CreateSwitch, TryAgain
<1>12. CASE ProgramStep
  BY <1>1, <1>4, <1>12 DEF ProgramStep, DeleteProgram, CreateProgram, TryAgain
<1>13. CASE Begin \/ Connect \/ CallFails \/ GetTopology \/ ListSwitches \/ GetSwitchDetails
            \/ ListPrograms \/ GetProgramDetails \/ Finish
  BY <1>1, <1>13 DEF Begin, Connect, CallFails, GetTopology, ListSwitches, GetSwitchDetails,
     ListPrograms, GetProgramDetails, Finish, TryAgain
<1> QED
  BY <1>5, <1>6, <1>7, <1>8, <1>9, <1>10, <1>11, <1>12, <1>13 DEF Next, PassStep

LEMMA EqualFunctions ==
    ASSUME NEW S, NEW T, NEW f \in [S -> T], NEW g \in [S -> T], \A x \in S : f[x] = g[x]
    PROVE  f = g
OBVIOUS

\* The steps of a steady pass that is not at its end afterwards.
LEMMA TopologyProgress ==
    ASSUME MirrorInv, steady', GetTopology \/ UpdateTopology PROVE SteadyProgress'
<1> USE DEF MirrorInv, SteadyProgress, netVars, listedVars, storeVars, Outside
<1>1. CASE GetTopology
  BY <1>1 DEF GetTopology, TopologyOf
<1>2. CASE UpdateTopology
  <2>1. ~TryAgain
    BY DEF TryAgain, EndPass
  <2>2. steady /\ behind = {} /\ cache.topology = api.topology
    BY <1>2, <2>1 DEF UpdateTopology, GoOn, CacheIsCoherent
  <2>3. pc' = "switches" /\ UNCHANGED <<net, wanted>>
    BY <1>2, <2>1 DEF UpdateTopology, GoOn, Write
  <2>4. CASE cache.topology = wanted
    BY <1>2, <2>1, <2>2, <2>3, <2>4 DEF UpdateTopology, topologyChanged, TopologyOf
  <2>5. CASE cache.topology # wanted
    <3>1. Write("topology", wanted, "topology")
      BY <1>2, <2>1, <2>5 DEF UpdateTopology, topologyChanged
    <3>2. api'.topology = wanted /\ behind' = {"topology"}
      BY <2>2, <3>1 DEF Write, TypeInv, TypeOK, Store
    <3>3. "topology" \notin Device \cup Program
      BY MirrorAssumption DEF MirrorAssumption
    <3> QED
      BY <1>2, <2>2, <2>3, <3>2, <3>3 DEF TopologyOf
  <2> QED
    BY <2>4, <2>5
<1> QED
  BY <1>1, <1>2

LEMMA SwitchesListedProgress ==
    ASSUME MirrorInv, steady', ListSwitches PROVE SteadyProgress'
<1>1. steady /\ UNCHANGED <<net, wanted, api, behind>> /\ pc' = "deleteSwitches"
  BY DEF ListSwitches, GoOn, Outside, netVars, storeVars
<1>2. cache.switches = api.switches
  BY <1>1 DEF MirrorInv, CacheIsCoherent, SteadyProgress, ListSwitches
<1>3. SwitchesAreListed'
  BY <1>1, <1>2 DEF ListSwitches, GoOn, SwitchesAreListed
<1> QED
  BY <1>1, <1>3 DEF MirrorInv, SteadyProgress, ListSwitches, TopologyOf

LEMMA DeleteSwitchProgress ==
    ASSUME MirrorInv, steady', NEW s \in Device, DeleteSwitch(s) PROVE SteadyProgress'
<1>1. ~TryAgain
  BY DEF TryAgain, EndPass
<1>2. /\ pc = "deleteSwitches" /\ s \in todo
      /\ Write("switches", Restrict(api.switches, DOMAIN api.switches \ {s}), s) /\ Done(s)
  BY <1>1 DEF DeleteSwitch
<1>3. /\ UNCHANGED <<net, wanted, listedSwitches, pc, steady>> /\ todo' = todo \ {s}
      /\ api'.topology = api.topology /\ behind' \cap Program = behind \cap Program
      /\ api'.switches = Restrict(api.switches, DOMAIN api.switches \ {s})
  BY <1>2, MirrorAssumption
  DEF Done, Write, Outside, netVars, listedVars, MirrorInv, TypeInv, TypeOK, Store, MirrorAssumption
<1>4. SwitchesAreListed /\ s \notin SwitchesOf(wanted)
  BY <1>2, <1>3 DEF MirrorInv, SteadyProgress, SwitchesAreListed
<1>5. SwitchesAreListed'
  BY <1>3, <1>4 DEF SwitchesAreListed, Restrict
<1> QED
  BY <1>2, <1>3, <1>5 DEF MirrorInv, SteadyProgress, TopologyOf

LEMMA DetailsProgress ==
    ASSUME MirrorInv, steady', GetSwitchDetails PROVE SteadyProgress'
<1> DEFINE names == SwitchesOf(wanted)
<1>1. ~TryAgain
  BY DEF TryAgain, EndPass
<1>2. /\ pc = "deleteSwitches" /\ todo = {}
      /\ UNCHANGED <<net, wanted, api, behind, steady>> /\ pc' = "writeSwitches"
      /\ details' = Restrict(net, names)
      /\ todo' = {s \in names : s \in DOMAIN listedSwitches => listedSwitches[s] # net[s]}
  BY <1>1 DEF GetSwitchDetails, GoOn, Outside, netVars, storeVars
<1>3. SwitchesAreListed /\ wanted = TopologyOf(net)
  BY <1>2 DEF MirrorInv, SteadyProgress
<1>4. \A s \in names : details'[s] = net[s]
  BY <1>2 DEF Restrict
<1>5. todo' = {s \in names : s \in DOMAIN api.switches => api.switches[s] # details'[s]}
  BY <1>2, <1>3, <1>4 DEF SwitchesAreListed
<1>6. DOMAIN api.switches \subseteq names
  BY <1>2, <1>3 DEF SwitchesAreListed
<1>7. SwitchesAreLeftToWrite'
  BY <1>2, <1>5, <1>6 DEF SwitchesAreLeftToWrite
<1> QED
  BY <1>2, <1>7 DEF MirrorInv, SteadyProgress, TopologyOf

LEMMA WriteSwitchProgress ==
    ASSUME MirrorInv, steady', NEW s \in Device, UpdateSwitch(s) \/ CreateSwitch(s)
    PROVE  SteadyProgress'
<1>1. ~TryAgain
  BY DEF TryAgain, EndPass
<1>2. /\ pc = "writeSwitches" /\ s \in todo
      /\ Write("switches", StoredDetails(s), s) /\ Done(s)
  BY <1>1 DEF UpdateSwitch, CreateSwitch
<1>3. /\ UNCHANGED <<net, wanted, details, pc, steady>> /\ todo' = todo \ {s}
      /\ api'.topology = api.topology /\ behind' \cap Program = behind \cap Program
      /\ api'.switches = StoredDetails(s)
  BY <1>2, MirrorAssumption
  DEF Done, Write, Outside, netVars, listedVars, MirrorInv, TypeInv, TypeOK, Store, MirrorAssumption
<1>4. SwitchesAreLeftToWrite
  BY <1>2, <1>3 DEF MirrorInv, SteadyProgress
<1>5. /\ DOMAIN api'.switches = DOMAIN api.switches \cup {s}
      /\ api'.switches[s] = details[s]
      /\ \A t \in DOMAIN api.switches \ {s} : api'.switches[t] = api.switches[t]
  BY <1>3 DEF StoredDetails
<1>6. SwitchesAreLeftToWrite'
  BY <1>2, <1>3, <1>4, <1>5 DEF SwitchesAreLeftToWrite
<1> QED
  BY <1>2, <1>3, <1>6 DEF MirrorInv, SteadyProgress, TopologyOf

\* Nothing is left to write: the switches are those of the network.
LEMMA SwitchesWritten ==
    ASSUME TypeInv, SwitchesAreLeftToWrite, todo = {} PROVE api.switches = details
<1>1. /\ api.switches \in [DOMAIN api.switches -> Program]
      /\ details \in [DOMAIN details -> Program]
  BY PartialFunction DEF TypeInv, TypeOK, Store, Switches
<1>2. DOMAIN details = SwitchesOf(wanted)
  BY DEF SwitchesAreLeftToWrite, Restrict
<1>3. DOMAIN api.switches = DOMAIN details
  BY <1>2 DEF SwitchesAreLeftToWrite
<1>4. \A s \in DOMAIN details : api.switches[s] = details[s]
  BY <1>2, <1>3 DEF SwitchesAreLeftToWrite
<1> QED
  BY <1>1, <1>3, <1>4, EqualFunctions

LEMMA ProgramsListedProgress ==
    ASSUME MirrorInv, steady', ListPrograms PROVE SteadyProgress'
<1>1. /\ steady /\ pc = "writeSwitches" /\ todo = {}
      /\ UNCHANGED <<net, wanted, details, api, behind>> /\ pc' = "deletePrograms"
      /\ listedPrograms' = cache.programs /\ todo' = cache.programs \ Range(details)
  BY DEF ListPrograms, GoOn, Outside, netVars, storeVars
<1>2. cache.programs = api.programs /\ SwitchesAreLeftToWrite
  BY <1>1 DEF MirrorInv, CacheIsCoherent, SteadyProgress
<1>3. SwitchesAreDone'
  BY <1>1, <1>2, SwitchesWritten DEF MirrorInv, SwitchesAreDone, SwitchesAreLeftToWrite
<1>4. ProgramsAreListed'
  BY <1>1, <1>2 DEF ProgramsAreListed, Range
<1> QED
  BY <1>1, <1>3, <1>4 DEF MirrorInv, SteadyProgress, TopologyOf

LEMMA ProgramProgress ==
    ASSUME MirrorInv, steady', ProgramStep \/ GetProgramDetails PROVE SteadyProgress'
<1>1. ~TryAgain
  BY DEF TryAgain, EndPass
<1>2. ASSUME NEW p \in Program, DeleteProgram(p) PROVE SteadyProgress'
  <2>1. /\ pc = "deletePrograms" /\ p \in todo
        /\ Write("programs", api.programs \ {p}, p) /\ Done(p)
    BY <1>1, <1>2 DEF DeleteProgram
  <2>2. /\ UNCHANGED <<net, wanted, details, listedPrograms, pc, steady>> /\ todo' = todo \ {p}
        /\ api'.topology = api.topology /\ api'.switches = api.switches
        /\ api'.programs = api.programs \ {p}
    BY <2>1 DEF Done, Write, Outside, netVars, listedVars, MirrorInv, TypeInv, TypeOK, Store
  <2>3. SwitchesAreDone /\ ProgramsAreListed
    BY <2>1, <2>2 DEF MirrorInv, SteadyProgress
  <2>4. SwitchesAreDone' /\ ProgramsAreListed'
    BY <2>1, <2>2, <2>3 DEF SwitchesAreDone, ProgramsAreListed, Range
  <2> QED
    BY <2>1, <2>2, <2>4 DEF MirrorInv, SteadyProgress, TopologyOf
<1>3. ASSUME NEW p \in Program, CreateProgram(p) PROVE SteadyProgress'
  <2>1. /\ pc = "createPrograms" /\ p \in todo
        /\ Write("programs", api.programs \cup {p}, p) /\ Done(p)
    BY <1>1, <1>3 DEF CreateProgram
  <2>2. /\ UNCHANGED <<net, wanted, details, pc, steady>> /\ todo' = todo \ {p}
        /\ api'.topology = api.topology /\ api'.switches = api.switches
        /\ api'.programs = api.programs \cup {p}
    BY <2>1 DEF Done, Write, Outside, netVars, MirrorInv, TypeInv, TypeOK, Store
  <2>3. SwitchesAreDone /\ ProgramsAreLeftToCreate
    BY <2>1, <2>2 DEF MirrorInv, SteadyProgress
  <2>4. SwitchesAreDone' /\ ProgramsAreLeftToCreate'
    BY <2>1, <2>2, <2>3 DEF SwitchesAreDone, ProgramsAreLeftToCreate, Range
  <2> QED
    BY <2>1, <2>2, <2>4 DEF MirrorInv, SteadyProgress, TopologyOf
<1>4. CASE GetProgramDetails
  <2>1. /\ pc = "deletePrograms" /\ todo = {}
        /\ UNCHANGED <<net, wanted, details, api, behind, steady>> /\ pc' = "createPrograms"
        /\ todo' = Range(details) \ listedPrograms
    BY <1>1, <1>4 DEF GetProgramDetails, GoOn, Outside, netVars, storeVars
  <2>2. SwitchesAreDone /\ ProgramsAreListed
    BY <2>1 DEF MirrorInv, SteadyProgress
  <2>3. SwitchesAreDone' /\ ProgramsAreLeftToCreate'
    BY <2>1, <2>2 DEF SwitchesAreDone, ProgramsAreListed, ProgramsAreLeftToCreate, Range
  <2> QED
    BY <2>1, <2>3 DEF MirrorInv, SteadyProgress, TopologyOf
<1> QED
  BY <1>2, <1>3, <1>4 DEF ProgramStep

\* A step that leaves the pass and the stored objects alone.
LEMMA OthersProgress ==
    ASSUME MirrorInv, steady, SteadyProgress,
           UNCHANGED <<net, api, pc, wanted, details, listedSwitches, listedPrograms, todo>>,
           behind' \subseteq behind
    PROVE  SteadyProgress'
BY DEF SteadyProgress, SwitchesAreListed, SwitchesAreLeftToWrite, SwitchesAreDone,
       ProgramsAreListed, ProgramsAreLeftToCreate, TopologyOf, Range

LEMMA ProgressStep ==
    ASSUME MirrorAssumption, MirrorInv, [Next]_vars, steady' PROVE SteadyProgress'
<1>1. ~(\E again : EndPass(again))
  BY DEF EndPass
<1>2. ~NetworkChange /\ ~SdnRestart
  BY DEF NetworkChange, AddDevices, RemoveDevices, ChangeProgram, ChangeTo, SdnRestart
<1>3. /\ ~Connect /\ ~CallFails /\ ~CreateTopology /\ ~Finish /\ ~CallIsLost /\ ~ShimRestart
  BY <1>1 DEF Connect, CallFails, CreateTopology, Finish, CallIsLost, ShimRestart, TryAgain
<1>4. ~Begin
  BY DEF Begin, MirrorInv, SteadyProgress
<1>5. ASSUME Resync \/ Break \/ UNCHANGED vars \/ \E kind \in DOMAIN Kinds : CatchUp(kind)
      PROVE  SteadyProgress'
  <2>1. /\ UNCHANGED <<net, api, pc, wanted, details, listedSwitches, listedPrograms, todo, steady>>
        /\ behind' \subseteq behind
    BY <1>5 DEF Resync, Break, CatchUp, vars, Outside, netVars, passVars, storeVars, listedVars
  <2> QED
    BY <2>1, OthersProgress DEF MirrorInv
<1>6. CASE PassStep
  BY <1>3, <1>4, <1>6, TopologyProgress, SwitchesListedProgress, DeleteSwitchProgress,
     DetailsProgress, WriteSwitchProgress, ProgramsListedProgress, ProgramProgress
  DEF PassStep, SwitchStep
<1> QED
  BY <1>2, <1>3, <1>5, <1>6 DEF Next

(***************************************************************************)
(* A pass that reports success (sdnshim_controller.go:320) has made the    *)
(* topology, the switches and the programs those of KindaSdn, whatever     *)
(* earlier passes, restarts and lost calls have left behind, if the        *)
(* network has not changed and the cache was not behind when it began.     *)
(***************************************************************************)
THEOREM FinishedPassTheorem == Spec => []FinishedPassIsExact
<1>1. Init => MirrorInv
  BY TypeInit, MirrorAssumption DEF Init, MirrorInv, CacheIsCoherent
<1>2. MirrorInv /\ [Next]_vars => MirrorInv'
  BY TypeStep, CoherentStep, ProgressStep, MirrorAssumption DEF MirrorInv
<1>3. MirrorInv => FinishedPassIsExact
  <2> SUFFICES ASSUME MirrorInv, pc = "createPrograms", todo = {}, steady PROVE MirrorIsExact
    BY DEF FinishedPassIsExact
  <2>1. SwitchesAreDone /\ ProgramsAreLeftToCreate /\ wanted = TopologyOf(net) /\ api.topology = wanted
    BY DEF MirrorInv, SteadyProgress
  <2>2. api.programs = Range(details)
    BY <2>1 DEF ProgramsAreLeftToCreate
  <2> QED
    BY <2>1, <2>2 DEF MirrorIsExact, TopologyIsExact, SwitchesAreExact, ProgramsAreExact, SwitchesAreDone
<1> QED
  BY <1>1, <1>2, <1>3, PTL DEF Spec
=============================================================================
