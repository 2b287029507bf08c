--------------------------- MODULE MCCollectionStats ---------------------------
(* Instances of CollectionStats for TLC. *)
EXTENDS CollectionStats

CONSTANTS a, b, i, j

\* The two resources share a collection id or have one each.
MCSpecs == {[s \in Stats |-> i], [s \in Stats |-> IF s = a THEN i ELSE j]}
=============================================================================
