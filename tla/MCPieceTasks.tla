---------------------------- MODULE MCPieceTasks ----------------------------
(* Instances of PieceTasks for TLC.                                        *)
EXTENDS PieceTasks

CONSTANTS p1, p2, p3, s1, s2, a, b, c

\* p1 and p2 are run by the thread of s1, p3 by that of s2.
MCSessionOf == [p \in Peers |-> IF p = p3 THEN s2 ELSE s1]

\* Only complete peers.
SeedSets == {Pieces}

\* Any bitfield with at least one piece.
AllSets == (SUBSET Pieces) \ {{}}
=============================================================================
