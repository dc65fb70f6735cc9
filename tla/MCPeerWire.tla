----------------------------- MODULE MCPeerWire -----------------------------
(* Instances of PeerWire: the peer "in" links to us, "out" is linked to, from *)
(* one address, in two sessions.                                              *)
EXTENDS PeerWire, TLC

CONSTANTS in, out, s1, s2, a1, x, spare

TwoSessions == (in :> s1) @@ (out :> s2)
OneAddr == (in :> a1) @@ (out :> a1)
SomeSets == {{x}, {x, spare}}
SomeWishes == {Pieces, {}}
=============================================================================
