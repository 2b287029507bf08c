------------------------- MODULE MCCollectionIdPool -------------------------
(***************************************************************************)
(* Instances of CollectionIdPool for TLC: three intents and fewer slots    *)
(* than they could occupy, so that the pool fills up; two of the intents   *)
(* share collection ids, the third one has its own.                        *)
(***************************************************************************)
EXTENDS CollectionIdPool, TLC

CONSTANTS i1, i2, i3, c1, c2, c3

MCIntent == {i1, i2, i3}

\* Two intents may be configured with either of two collection ids, the third has
\* one of its own.
MCCollectionId == {c1, c2, c3}
MCUses == {i1, i2} \X {c1, c2} \cup {<<i3, c3>>}

\* All intents share all collection ids, and nothing tells one from another.
SharedCollectionId == {c1, c2}
SharedUses == MCIntent \X SharedCollectionId
SharedSymmetry == Permutations(MCIntent) \cup Permutations(SharedCollectionId)
=============================================================================
