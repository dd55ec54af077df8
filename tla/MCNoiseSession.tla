---------------------------- MODULE MCNoiseSession ----------------------------
(* Model-checking instance of NoiseSession: two keys, so that the ends'       *)
(* identities differ or agree and a supplied key may be out of date; three    *)
(* sends, so that a late packet has one before and one after it.  The seed    *)
(* of a key store wraps after two identities.                                 *)
EXTENDS NoiseSession

CONSTANTS k1, k2, m1, m2

MCKeys == {k1, k2}
MCDerived == [s \in 0..1 |-> IF s = 1 THEN k1 ELSE k2]
MCImported == {k2}
MCPayloads == {m1, m2}

=============================================================================
