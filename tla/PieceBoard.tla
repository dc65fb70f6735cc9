----------------------------- MODULE PieceBoard -----------------------------
(***************************************************************************)
(* What the sharing of the pieces among the peers promises, without        *)
(* threads, counts and notices: a piece is stored once, by a peer that is  *)
(* asked for it; a peer is told only of stored pieces, and is never asked  *)
(* for a piece it was told we have.  PieceTasks implements it.             *)
(***************************************************************************)
CONSTANTS Peers, Pieces, NoPiece

VARIABLES
    stored,   \* the pieces we have
    asked,    \* the piece each peer is asked for, or NoPiece
    known     \* what each peer was told we have

vars == <<stored, asked, known>>

Init ==
    /\ stored = {}
    /\ asked = [p \in Peers |-> NoPiece]
    /\ known = [p \in Peers |-> {}]

\* Ask p for a piece it was not told we have (it may just have been stored).
Take(p, i) ==
    /\ asked[p] = NoPiece
    /\ i \notin known[p]
    /\ asked' = [asked EXCEPT ![p] = i]
    /\ UNCHANGED <<stored, known>>

\* p is not asked any more.
Drop(p) ==
    /\ asked' = [asked EXCEPT ![p] = NoPiece]
    /\ UNCHANGED <<stored, known>>

\* The piece p is asked for is complete and gets stored.
Keep(p) ==
    /\ asked[p] \in Pieces \ stored
    /\ stored' = stored \cup {asked[p]}
    /\ UNCHANGED <<asked, known>>

\* Tell p of stored pieces; it is not asked for one of them any more.
Tell(p) ==
    /\ \E new \in SUBSET stored :
         /\ known' = [known EXCEPT ![p] = @ \cup new]
         /\ asked' = [asked EXCEPT ![p] = IF @ \in new THEN NoPiece ELSE @]
    /\ UNCHANGED stored

\* The first message to p lists all that is stored.
Greet(p) ==
    /\ asked[p] = NoPiece
    /\ known' = [known EXCEPT ![p] = stored]
    /\ UNCHANGED <<stored, asked>>

\* p is gone.
Forget(p) ==
    /\ asked' = [asked EXCEPT ![p] = NoPiece]
    /\ known' = [known EXCEPT ![p] = {}]
    /\ UNCHANGED stored

Next == \E p \in Peers :
    \/ \E i \in Pieces : Take(p, i)
    \/ Drop(p) \/ Keep(p) \/ Tell(p) \/ Greet(p) \/ Forget(p)

Spec == Init /\ [][Next]_vars

TypeOK ==
    /\ stored \subseteq Pieces
    /\ asked \in [Peers -> Pieces \cup {NoPiece}]
    /\ known \in [Peers -> SUBSET Pieces]

\* NotAskedOnceTold: no peer is asked for a piece it was told we have, and
\* nothing is announced that is not stored.
NotAskedOnceTold ==
    \A p \in Peers : asked[p] \notin known[p] /\ known[p] \subseteq stored
=============================================================================
