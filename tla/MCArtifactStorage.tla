------------------------- MODULE MCArtifactStorage -------------------------
(* Three calls, two of them threads of one process.  The event log and the  *)
(* artifact are different files: calls that meet use the same one.          *)
EXTENDS ArtifactStorage

CONSTANTS w1, w2, w3, p1, p2

MCProcessOf == [w \in {w1, w2, w3} |-> IF w = w3 THEN p2 ELSE p1]

MCWorkloads == {[w \in {w1, w2, w3} |-> "append"]}
                 \cup [{w1, w2, w3} -> {"create", "replace"}]
=============================================================================
