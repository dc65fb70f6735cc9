---------------------------- MODULE MCPeerLinks -----------------------------
(* Instances of PeerLinks for TLC.                                         *)
EXTENDS PeerLinks, TLC

CONSTANTS s1, s2

MCSessionList == IF s2 \in Sessions THEN <<s1, s2>> ELSE <<s1>>

\* Peers are alike, and so are addresses; sessions are not (MCSessionList).
PeerSymmetry == Permutations(Links) \cup Permutations(Addrs)
=============================================================================
