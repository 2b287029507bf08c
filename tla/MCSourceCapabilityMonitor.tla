---------------------- MODULE MCSourceCapabilityMonitor ----------------------
(***************************************************************************)
(* Instances of SourceCapabilityMonitor for TLC.                           *)
(***************************************************************************)
EXTENDS SourceCapabilityMonitor

CONSTANTS n1, n2, o1, o2

MCNotifier == {n1, n2}
MCObserver == {o1, o2}
=============================================================================
