----------------------------- MODULE MCServices -----------------------------
(* The smaller parts of the program for TLC, one at a time: `service` says   *)
(* which one runs, and the others stand still where they begin.  It extends  *)
(* the modules whose theorems are about every instance, so that the          *)
(* properties of the run are theirs; the formats are instances.              *)
EXTENDS Completion, Serving, KBucket, DhtServer, DhtQueries, Dealer,
        Application, Mse, FiniteSets, TLC

CONSTANTS
    Services,                   \* the services of a run
    a, b,                       \* nodes of the DHT
    f, n,                       \* peers with and without the fast extension
    s1, s2,                     \* sockets, sessions
    p1, p2,                     \* peers of the one and of the other
    h1                          \* an infohash

VARIABLES
    service,    \* the one that runs
    mine, theirs,
    nodes, opened, read, result,
    ben, step, announces, files, tfTotal, real

----------------------------------------------------------------------------
(* Instances.                                                              *)

\* Completion: a peer for each session, and a piece nobody wants.
TwoSessions == [p \in Contacts |-> IF p = p2 THEN s2 ELSE s1]
SessionOrder == <<s1, s2>>

\* Mse: our own initiator, a plain link, and clients with other habits.
Offer(crypt, drop, provide, ia) ==
    [crypt |-> crypt, drop |-> drop, provide |-> provide, ia |-> ia]
Ours == Offer(TRUE, FALSE, 3, TRUE)
SomeOffers == {Ours, Offer(FALSE, FALSE, 3, TRUE),
               Offer(TRUE, TRUE, 2, TRUE), Offer(TRUE, FALSE, 1, TRUE),
               Offer(TRUE, FALSE, 2, FALSE), Offer(TRUE, FALSE, 1, FALSE)}

\* DhtQueries: two nodes behind one router, the fixed one farther off.
OneRouter == (a :> 1) @@ (b :> 1)
TwoDistances == [h \in Hashes |-> (a :> 2) @@ (b :> 1)]

\* Serving: one place among the unchoked for two peers.
LinksInOrder == <<n, f>>
OnePieceFast == (f :> {1}) @@ (n :> {})

\* PieceSet: less than a byte, a byte, and a byte and more.
Sizes == {2, 3, 5}
W == 3

\* BenNode: one string is another with a NUL and more behind it.
Ints == {"1"}
Strings == {"a", "a0"}
CutKey == [s \in Strings |-> "a"]
MaxTokens == 6

\* Torrent.
Urls == {"x", "y"}
Files == [path : {"real", "padding"}, size : {0, 1}]
            \cup {[path |-> "wrong", size |-> 1]}
MaxFiles == 3
MaxUrls == 2
NoTorrent == [announce |-> <<>>, list |-> <<>>, many |-> FALSE, size |-> 0,
              files |-> <<>>]

PS == INSTANCE PieceSet
BN == INSTANCE BenNode
TF == INSTANCE Torrent WITH total <- tfTotal

\* What the theorems assume holds of these instances.
ASSUME ServicesAssumption ==
    /\ MseAssumption /\ DhtAssumption /\ BucketAssumption /\ ServerAssumption
    /\ ServingAssumption /\ ApplicationAssumption /\ DealerAssumption
    /\ PS!PieceSetAssumption /\ BN!BenAssumption /\ TF!TorrentAssumption

----------------------------------------------------------------------------
(* One service runs.                                                       *)

psVars == <<mine, theirs>>
bnVars == <<nodes, opened, read, result>>
tfVars == <<ben, step, announces, files, tfTotal, real>>

\* A service that does not run begins in one way only.
ServicesInit ==
    /\ service \in Services
    /\ IF service = "handshake" THEN TRUE ELSE offer = Ours /\ nineteen = FALSE
    /\ IF service = "bucket" THEN TRUE ELSE slot = 1
    /\ IF service = "serving" THEN TRUE ELSE uploadMode = FALSE
    /\ IF service = "pieces" THEN TRUE ELSE mine = PS!Empty(2)
    /\ IF service = "torrent" THEN TRUE ELSE ben = NoTorrent
    /\ Init /\ MseInit /\ QueriesInit /\ BucketInit /\ ServerInit /\ ServingInit
    /\ AppInit /\ DealerInit /\ PS!Init /\ BN!Init /\ TF!Init

Rest ==
    /\ UNCHANGED service
    /\ IF service = "completion" THEN TRUE ELSE UNCHANGED vars
    /\ IF service = "handshake" THEN TRUE ELSE UNCHANGED mseVars
    /\ IF service = "queries" THEN TRUE ELSE UNCHANGED queriesVars
    /\ IF service = "bucket" THEN TRUE ELSE UNCHANGED bucketVars
    /\ IF service = "server" THEN TRUE ELSE UNCHANGED serverVars
    /\ IF service = "serving" THEN TRUE ELSE UNCHANGED servingVars
    /\ IF service = "application" THEN TRUE ELSE UNCHANGED appVars
    /\ IF service = "sockets" THEN TRUE ELSE UNCHANGED dealerVars
    /\ IF service = "pieces" THEN TRUE ELSE UNCHANGED psVars
    /\ IF service = "bencode" THEN TRUE ELSE UNCHANGED bnVars
    /\ IF service = "torrent" THEN TRUE ELSE UNCHANGED tfVars

ServicesNext ==
    \/ service = "completion" /\ Next /\ Rest
    \/ service = "handshake" /\ MseNext /\ Rest
    \/ service = "queries" /\ QueriesNext /\ Rest
    \/ service = "bucket" /\ BucketNext /\ Rest
    \/ service = "server" /\ ServerNext /\ Rest
    \/ service = "serving" /\ ServingNext /\ Rest
    \/ service = "application" /\ AppNext /\ Rest
    \/ service = "sockets" /\ DealerNext /\ Rest
    \/ service = "pieces" /\ PS!Next /\ Rest
    \/ service = "bencode" /\ BN!Next /\ Rest
    \/ service = "torrent" /\ TF!Next /\ Rest

servicesVars ==
    <<service, vars, mseVars, queriesVars, bucketVars, serverVars, servingVars,
      appVars, dealerVars, psVars, bnVars, tfVars>>

ServicesSpec == ServicesInit /\ [][ServicesNext]_servicesVars

----------------------------------------------------------------------------
(* Properties; the others are those of the modules.                        *)

\* The formats: a set of pieces is its string, a tree of bencoded data is written
\* as it was read, and the files of a torrent tile its pieces.
FormatInv ==
    /\ service = "pieces" => PS!TypeOK /\ PS!SetRight
    /\ service = "bencode" => BN!TypeOK /\ BN!RoundTrip /\ BN!LevelsClosed
    /\ service = "torrent" => TF!TypeOK /\ TF!FilesTile /\ TF!TrackersOnce
=============================================================================
