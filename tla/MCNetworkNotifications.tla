----------------------- MODULE MCNetworkNotifications -----------------------
(***************************************************************************)
(* Instances of NetworkNotifications for TLC.                              *)
(***************************************************************************)
EXTENDS NetworkNotifications

CONSTANTS c1, c2, c3

MCConnection == {c1, c2, c3}
=============================================================================
