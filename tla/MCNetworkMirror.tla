--------------------------- MODULE MCNetworkMirror ---------------------------
(***************************************************************************)
(* Instances of NetworkMirror for TLC.                                     *)
(***************************************************************************)
EXTENDS NetworkMirror

CONSTANTS s1, s2, p1, p2, p3

MCDevice == {s1, s2}
MCProgram == {p1, p2, p3}
MCRegistered == {p1, p2}

\* Two switches with the same program.
MCInitialNet == [d \in MCDevice |-> p1]
=============================================================================
