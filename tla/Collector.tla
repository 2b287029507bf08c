------------------------------- MODULE Collector -------------------------------
(***************************************************************************)
(* The controller of Collector resources: it sees to the DaemonSet that    *)
(* runs the collector's pods and to its two services, and publishes in     *)
(* the status where telemetry reports are to be sent to                    *)
(* (inc-operator/controllers/collector_controller.go).                     *)
(*                                                                         *)
(* A pass creates at most one object and is then repeated; once all are    *)
(* there it looks at the pods (Observe) and writes the status              *)
(* (WriteStatus), while pods come and go.  Pods are not watched: passes    *)
(* are started by the DaemonSet, whose status follows the pods.  That the  *)
(* cache has seen a pod change when it sees the DaemonSet change, and that *)
(* it has what the pass itself wrote, is assumed.  A NodePort is allocated *)
(* when its service is created, so the port never is what is missing.      *)
(*                                                                         *)
(* External: Kubernetes, which runs the DaemonSet's pods and collects the  *)
(* objects of a deleted collector, and users.                              *)
(***************************************************************************)
EXTENDS Naturals

CONSTANTS
    Node,           \* where the DaemonSet's pods run
    NoNode,         \* no NodeRef
    MaxPodChanges,  \* bound on pods that start or fail
    MaxDisruptions  \* bound on deletions, failed writes and restarts

ASSUME CollectorAssumption ==
    /\ NoNode \notin Node
    /\ {MaxPodChanges, MaxDisruptions} \subseteq Nat

VARIABLES
    collector,      \* its status: available, node; or Gone
    daemonSet,      \* none, created, scheduled
    running,        \* the nodes with a running pod of it
    nodePort,       \* does the service for reports exist
    api,            \* its service for metrics: number (address) and whether it exists
    queued,         \* is a pass due
    observed,       \* the status the pass is to write, or NoStatus
    podChanges, disruptions

objectVars == <<daemonSet, running, nodePort, api>>
passVars == <<queued, observed>>
collectorVars == <<collector, objectVars, passVars, podChanges, disruptions>>

Status == [available : {"", "Unknown", "True", "False"}, node : Node \cup {NoNode}]
NoStatus == [available |-> "", node |-> NoNode]
Gone == [available |-> "gone", node |-> NoNode]

CollectorInit ==
    /\ collector = NoStatus
    /\ daemonSet = "none" /\ running = {} /\ nodePort = FALSE
    /\ api = [number |-> 0, exists |-> FALSE]
    /\ queued = TRUE /\ observed = NoStatus
    /\ podChanges = 0 /\ disruptions = 0

CollectorExists == collector # Gone
IsAvailable == CollectorExists /\ collector.available = "True"

Disruption == disruptions < MaxDisruptions /\ disruptions' = disruptions + 1
Undisturbed == UNCHANGED disruptions
-----------------------------------------------------------------------------
(* The pass *)

PassReads == queued /\ observed = NoStatus

ReturnIfGone ==
    /\ PassReads /\ ~CollectorExists
    /\ queued' = FALSE
    /\ UNCHANGED <<collector, objectVars, observed, podChanges, disruptions>>

InitStatus ==
    /\ PassReads /\ CollectorExists /\ collector.available = ""
    /\ collector' = [collector EXCEPT !.available = "Unknown"]
    /\ UNCHANGED <<objectVars, passVars, podChanges, disruptions>>

PassGoesOn == PassReads /\ CollectorExists /\ collector.available # ""

createDaemonSetForCollector == daemonSet' = "created"
createNodePortServiceForCollector == nodePort' = TRUE
createClusterIpServiceForCollectorAPI == api' = [number |-> api.number + 1, exists |-> TRUE]

CreateDaemonSet ==
    /\ PassGoesOn /\ daemonSet = "none"
    /\ createDaemonSetForCollector
    /\ UNCHANGED <<collector, running, nodePort, api, passVars, podChanges, disruptions>>

CreateNodePort ==
    /\ PassGoesOn /\ daemonSet # "none" /\ ~nodePort
    /\ createNodePortServiceForCollector
    /\ UNCHANGED <<collector, daemonSet, running, api, passVars, podChanges, disruptions>>

CreateApi ==
    /\ PassGoesOn /\ daemonSet # "none" /\ nodePort /\ ~api.exists
    /\ createClusterIpServiceForCollectorAPI
    /\ UNCHANGED <<collector, daemonSet, running, nodePort, passVars, podChanges, disruptions>>

StatusFor(n) == [available |-> IF n = NoNode THEN "False" ELSE "True", node |-> n]

\* Mutant: the NodeRef of an earlier pass is kept.
Observe_KeepsNode ==
    /\ PassGoesOn /\ daemonSet # "none" /\ nodePort /\ api.exists
    /\ \E n \in Node \cup {NoNode} :
        /\ IF collector.node # NoNode THEN n = collector.node
           ELSE IF daemonSet = "scheduled" /\ running # {} THEN n \in running ELSE n = NoNode
        /\ observed' = StatusFor(n)
    /\ queued' = FALSE
    /\ UNCHANGED <<collector, objectVars, podChanges, disruptions>>

\* The first running pod of the list, which has no order.
Observe ==
    /\ PassGoesOn /\ daemonSet # "none" /\ nodePort /\ api.exists
    /\ \E n \in Node \cup {NoNode} :
        /\ IF daemonSet = "scheduled" /\ running # {} THEN n \in running ELSE n = NoNode
        /\ observed' = StatusFor(n)
    /\ queued' = FALSE
    /\ UNCHANGED <<collector, objectVars, podChanges, disruptions>>

\* Nothing is written to a collector that has gone meanwhile.  A write that
\* fails repeats the pass; one that changes the status starts another.
WriteStatus ==
    /\ observed # NoStatus
    /\ observed' = NoStatus
    /\ \/ /\ CollectorExists /\ collector' = observed
          /\ queued' = (queued \/ collector # observed)
          /\ Undisturbed
       \/ /\ UNCHANGED collector /\ queued' = TRUE
          /\ IF CollectorExists THEN Disruption ELSE Undisturbed
    /\ UNCHANGED <<objectVars, podChanges>>
-----------------------------------------------------------------------------
(* Kubernetes and users *)

\* The DaemonSet controller fills in DesiredNumberScheduled.
Scheduled ==
    /\ daemonSet = "created"
    /\ daemonSet' = "scheduled"
    /\ queued' = TRUE
    /\ UNCHANGED <<collector, running, nodePort, api, observed, podChanges, disruptions>>

PodChanges(n) ==
    /\ daemonSet # "none"
    /\ podChanges < MaxPodChanges /\ podChanges' = podChanges + 1
    /\ running' = IF n \in running THEN running \ {n} ELSE running \cup {n}
    /\ queued' = TRUE
    /\ UNCHANGED <<collector, daemonSet, nodePort, api, observed, disruptions>>

\* An owned object is deleted by somebody else; the pods go with their DaemonSet.
OwnedIsDeleted ==
    /\ CollectorExists
    /\ \/ daemonSet # "none" /\ daemonSet' = "none" /\ running' = {} /\ UNCHANGED <<nodePort, api>>
       \/ nodePort /\ nodePort' = FALSE /\ UNCHANGED <<daemonSet, running, api>>
       \/ api.exists /\ api' = [api EXCEPT !.exists = FALSE] /\ UNCHANGED <<daemonSet, running, nodePort>>
    /\ queued' = TRUE
    /\ Disruption
    /\ UNCHANGED <<collector, observed, podChanges>>

\* The collector is deleted, with all it owns.
CollectorIsDeleted ==
    /\ CollectorExists
    /\ collector' = Gone
    /\ daemonSet' = "none" /\ running' = {} /\ nodePort' = FALSE
    /\ api' = [api EXCEPT !.exists = FALSE]
    /\ queued' = TRUE
    /\ Disruption
    /\ UNCHANGED <<observed, podChanges>>

CollectorPass ==
    \/ ReturnIfGone \/ InitStatus \/ CreateDaemonSet \/ CreateNodePort \/ CreateApi
    \/ Observe \/ WriteStatus

Kubernetes == Scheduled \/ \E n \in Node : PodChanges(n)

Interference == OwnedIsDeleted \/ CollectorIsDeleted
-----------------------------------------------------------------------------
\* Once pods and objects are left alone, an existing collector is available just
\* if one of its pods runs, and its NodeRef is the node of one that does: pods
\* change between the look at them and the write, several times during one
\* pass, and writes fail.
StatusSettles ==
    <>[](CollectorExists =>
            \/ collector.available = "True" /\ collector.node \in running
            \/ collector.available = "False" /\ collector.node = NoNode /\ running = {})
=============================================================================
