-------------------------- MODULE MCBuildableSpace --------------------------
(* Two requests at two servers, so that their reservations interleave.      *)
EXTENDS BuildableSpace

CONSTANTS r1, r2, s1, s2

MCServerOf == [r \in {r1, r2} |-> IF r = r1 THEN s1 ELSE s2]
=============================================================================
