-------------------------- MODULE MCBlockRequests ---------------------------
(* Small instances of BlockRequests. *)
EXTENDS BlockRequests
CONSTANTS p1, p2

TwoPeers == {p1, p2}
OneFast == {p2}
LastBlock == {3}
=============================================================================
