------------------------------ MODULE Serving ------------------------------
(***************************************************************************)
(* The upload side of one session: what its peers ask for and when it is   *)
(* sent (BTPeer.cpp, PeerAdmin.cpp AdjustChoke, SpeedControl.cpp).  The    *)
(* session's thread reads the peers' messages, adjusts the choking every   *)
(* few seconds, and in each round lets the peers write in turn while the   *)
(* upload budget lasts; the storage thread refills the budget.             *)
(*                                                                         *)
(* A piece stands for a block of it: a link holds one request for a block. *)
(* Budget is counted in blocks; what is overdrawn counts as nothing left.  *)
(* Links that are past their handshake, with peers that are no seeds.      *)
(***************************************************************************)
EXTENDS Naturals, FiniteSets, Sequences, SequencesExt

CONSTANTS
    Peers,
    Order,          \* the order in which their links came up
    Pieces,
    Fast,           \* peers with the fast extension
    Brothers,       \* peers that run the same program (m_bBrother)
    AllowedFast,    \* peer -> m_MeAllowFastList, what GenAllowFastPieceList drew
    UploadLinkMax,  \* peers AdjustChoke unchokes
    RequestSize,    \* PEER_REQUEST_SIZE, 24
    Limit,          \* blocks the budget is filled up to
    Room            \* bound: messages a peer has not read; a full link blocks

ServingAssumption ==
    /\ IsFiniteSet(Peers) /\ IsFiniteSet(Pieces)
    /\ Order \in Seq(Peers) /\ IsInjective(Order) /\ ToSet(Order) = Peers
    /\ Fast \subseteq Peers /\ Brothers \subseteq Fast
    /\ AllowedFast \in [Peers -> SUBSET Pieces]
    /\ \A p \in Peers \ Fast : AllowedFast[p] = {}
    /\ UploadLinkMax \in Nat \ {0} /\ RequestSize \in Nat \ {0}
    /\ Limit \in Nat \ {0} /\ Room \in Nat \ {0}

VARIABLES
    uploadMode,     \* the task is finished: m_bUploadMode of the links
    peerList,           \* m_ConnectedPeerList
    clients,        \* m_ClientList of the speed control
    have,       \* pieces we have
    choking,        \* m_bMeChokePeer
    interested,     \* m_bPeerInterestMe
    requests,       \* m_PeerRequestList
    out,            \* messages written that the peer has not read
    heard,           \* the last of choke and unchoke the peer has read
    owed,           \* requests taken that nothing was said or done about
    budget,         \* m_UpByteCount
    pass,           \* what Upload does
    turn,           \* where its loop stands
    behind          \* in the data pass of a download, peers that gave less than they
                    \* got: with the credit of the address, m_nDownloadSum is below
                    \* m_nUploadSum

links == <<peerList, choking, interested, requests, out, heard>>
rounds == <<clients, budget, pass, turn, behind>>
servingVars == <<uploadMode, have, links, owed, rounds>>

Up(p) == p \in ToSet(peerList)
Idle == pass = "idle"

\* SendData: behind what is in the buffer already.
Send(p, kind, i) == out' = [out EXCEPT ![p] = Append(@, [kind |-> kind, index |-> i])]
NoIndex == CHOOSE i \in Pieces : TRUE          \* the index of a message without one

Answered(p, i) == owed' = [owed EXCEPT ![p][i] = @ - 1]

---------------------------------------------------------------------------
(* The messages of a peer.  The thread that reads them is idle meanwhile.  *)

Asks(p, i) ==
    /\ Idle /\ Up(p) /\ Len(out[p]) < Room
    /\ UNCHANGED <<uploadMode, have, peerList, choking, interested, heard, rounds>>

\* A piece the peer may have at any time is put into the buffer at once: what that
\* costs is charged with the commands.  When it cannot be read nothing is said.
RequestFast(p, i) ==
    /\ i \in AllowedFast[p]
    /\ Asks(p, i)
    /\ \/ Send(p, "piece", i) /\ UNCHANGED owed
       \/ UNCHANGED <<out, owed>>
    /\ UNCHANGED requests

Full(p) == Len(requests[p]) >= RequestSize
Queued(p, i) == i \in ToSet(requests[p])

\* A choked peer without the fast extension, and a block that is queued already.
Ignored(p, i) ==
    \/ p \notin Fast /\ choking[p]
    \/ ~choking[p] /\ Queued(p, i)

RequestDropped(p, i) ==
    /\ i \notin AllowedFast[p] /\ Ignored(p, i)
    /\ Asks(p, i)
    /\ UNCHANGED <<requests, out, owed>>

\* Only a peer with the extension is told.
RequestRejected(p, i) ==
    /\ i \notin AllowedFast[p] /\ ~Ignored(p, i)
    /\ choking[p] \/ Full(p) \/ i \notin have
    /\ Asks(p, i)
    /\ IF p \in Fast THEN Send(p, "reject", i) ELSE UNCHANGED out
    /\ UNCHANGED <<requests, owed>>

RequestQueued(p, i) ==
    /\ i \notin AllowedFast[p] /\ ~Ignored(p, i)
    /\ ~choking[p] /\ ~Full(p) /\ i \in have
    /\ Asks(p, i)
    /\ requests' = [requests EXCEPT ![p] = Append(@, i)]
    /\ owed' = [owed EXCEPT ![p][i] = @ + 1]
    /\ UNCHANGED out

DoCmdRequest(p, i) ==
    \/ RequestFast(p, i) \/ RequestDropped(p, i)
    \/ RequestRejected(p, i) \/ RequestQueued(p, i)

DoCmdCancel(p, i) ==
    /\ Idle /\ Up(p) /\ Queued(p, i)
    /\ requests' = [requests EXCEPT ![p] = RemoveFirst(@, i)]
    /\ Answered(p, i)
    /\ UNCHANGED <<uploadMode, have, peerList, choking, interested, out, heard, rounds>>

DoCmdInterested(p) ==
    /\ Idle /\ Up(p)
    /\ interested' = [interested EXCEPT ![p] = TRUE]
    /\ UNCHANGED <<uploadMode, have, peerList, choking, requests, out, heard, owed, rounds>>

Zero == [i \in Pieces |-> 0]

\* The list is cleared; a link of a finished task is closed.
DoCmdNotInterested(p) ==
    /\ Idle /\ Up(p)
    /\ interested' = [interested EXCEPT ![p] = FALSE]
    /\ requests' = [requests EXCEPT ![p] = <<>>]
    /\ owed' = [owed EXCEPT ![p] = Zero]
    /\ IF uploadMode
       THEN /\ peerList' = RemoveFirst(peerList, p) /\ clients' = RemoveFirst(clients, p)
            /\ out' = [out EXCEPT ![p] = <<>>]
       ELSE UNCHANGED <<peerList, clients, out>>
    /\ UNCHANGED <<uploadMode, have, choking, heard, budget, pass, turn, behind>>

---------------------------------------------------------------------------
(* Choking.                                                                *)

\* The first UploadLinkMax interested peers of the list: no priority is ever
\* computed, so that no later one takes the place of one in the queue.
Chosen ==
    {peerList[j] : j \in {k \in DOMAIN peerList :
        /\ interested[peerList[k]]
        /\ Cardinality({l \in 1..(k - 1) : interested[peerList[l]]}) < UploadLinkMax}}

\* SendChoke and SendUnChoke; the list of a peer with the extension is kept.
AdjustChoke ==
    /\ Idle /\ \A p \in ToSet(peerList) : Len(out[p]) < Room
    /\ LET choke == {p \in ToSet(peerList) : ~interested[p] /\ ~choking[p]}
           unchoke == {p \in Chosen : choking[p]}
       IN /\ choke \cup unchoke # {}
          /\ choking' = [p \in Peers |->
                IF p \in choke THEN TRUE ELSE IF p \in unchoke THEN FALSE ELSE choking[p]]
          /\ out' = [p \in Peers |->
                IF p \in choke THEN Append(out[p], [kind |-> "choke", index |-> NoIndex])
                ELSE IF p \in unchoke THEN Append(out[p], [kind |-> "unchoke", index |-> NoIndex])
                ELSE out[p]]
          /\ requests' = [p \in Peers |-> IF p \in choke \ Fast THEN <<>> ELSE requests[p]]
          /\ owed' = [p \in Peers |-> IF p \in choke \ Fast THEN Zero ELSE owed[p]]
    /\ UNCHANGED <<uploadMode, have, peerList, interested, heard, rounds>>

---------------------------------------------------------------------------
(* A round of the speed control.                                           *)

StartUpload ==
    /\ Idle /\ budget > 0 /\ clients # <<>>
    /\ pass' = "commands" /\ turn' = 1
    /\ UNCHANGED <<uploadMode, have, links, owed, clients, budget, behind>>

\* Mutant: the list keeps its order.
RotatedNever == clients

\* Update moves the client at the front to the end.
Rotated == Append(Tail(clients), Head(clients))

EndRound == pass' = "idle" /\ turn' = 1 /\ clients' = Rotated /\ behind' = {}

\* A round without budget rotates too.
UpdateClient ==
    /\ Idle /\ budget = 0 /\ clients # <<>>
    /\ EndRound
    /\ UNCHANGED <<uploadMode, have, links, owed, budget>>

Client == clients[turn]

\* Mutant: the choking is not looked at.
MayServeChoked(p) == requests[p] # <<>> /\ p \notin behind

\* CheckPeerRequest, with its tit for tat.
MayServe(p) == ~choking[p] /\ requests[p] # <<>> /\ p \notin behind

\* Who writes blocks in this pass: all, then in a download our own kind once more,
\* or all of them when little was uploaded so far.
Writes(p) == pass \in {"data", "forced"} \/ (pass = "extra" /\ p \in Brothers)

NextPass ==
    CASE pass = "commands" ->
            /\ pass' = "data" /\ turn' = 1 /\ UNCHANGED clients
            /\ behind' \in IF uploadMode THEN {{}} ELSE SUBSET Peers
      [] pass = "data" /\ ~uploadMode ->
            pass' \in {"extra", "forced"} /\ turn' = 1 /\ behind' = {} /\ UNCHANGED clients
      [] OTHER -> EndRound

NextTurn(again) ==
    IF again THEN UNCHANGED <<turn, pass, clients, behind>>
    ELSE IF turn < Len(clients) THEN turn' = turn + 1 /\ UNCHANGED <<pass, clients, behind>>
    ELSE NextPass

\* One peer after the other has all of its buffer written (DoCmdWrite), while there
\* is a budget but whatever it is: our requests and notices, the rest of a block,
\* pieces the peer may have at any time.
Commands ==
    /\ pass = "commands" /\ budget > 0
    /\ \E left \in 0..budget :
        /\ budget' = left
        /\ IF left = 0 THEN UNCHANGED <<turn, pass, clients, behind>> ELSE NextPass
    /\ UNCHANGED <<uploadMode, have, links, owed>>

\* One block.  In a download a peer goes on until its list is empty, it has got more
\* than it gave or the socket is full (DoBalenceWrite); in the upload mode and in
\* the last pass it gets one block a round (DoEqualWrite).
Serve ==
    /\ Writes(Client) /\ budget > 0 /\ Len(out[Client]) < Room
    /\ MayServe(Client)
    /\ requests' = [requests EXCEPT ![Client] = Tail(@)]
    /\ Send(Client, "piece", Head(requests[Client]))
    /\ Answered(Client, Head(requests[Client]))
    /\ budget' = budget - 1
    /\ \E more \in BOOLEAN : NextTurn(more /\ pass = "data" /\ ~uploadMode)
    /\ UNCHANGED <<uploadMode, have, peerList, choking, interested, heard>>

\* The block could not be read: the request is gone.
ReadFails ==
    /\ Writes(Client) /\ budget > 0 /\ Len(out[Client]) < Room
    /\ MayServe(Client)
    /\ requests' = [requests EXCEPT ![Client] = Tail(@)]
    /\ Answered(Client, Head(requests[Client]))
    /\ NextTurn(FALSE)
    /\ UNCHANGED <<uploadMode, have, peerList, choking, interested, out, heard, budget>>

\* Nothing to send, no room, or not a peer of this pass.
SkipClient ==
    /\ ~Idle /\ pass # "commands" /\ budget > 0
    /\ ~Writes(Client) \/ ~MayServe(Client) \/ Len(out[Client]) >= Room
    /\ NextTurn(FALSE)
    /\ UNCHANGED <<uploadMode, have, links, owed, budget>>

\* left <= 0 ends the round.
RunOff ==
    /\ ~Idle /\ budget = 0
    /\ EndRound
    /\ UNCHANGED <<uploadMode, have, links, owed, budget>>

\* The storage thread; after an overdraft it is the refill that makes up for it.
Refill ==
    /\ budget < Limit
    /\ budget' = Limit
    /\ UNCHANGED <<uploadMode, have, links, owed, clients, pass, turn, behind>>

---------------------------------------------------------------------------
(* The other side, and the download.                                       *)

PeerReads(p) ==
    /\ out[p] # <<>>
    /\ out' = [out EXCEPT ![p] = Tail(@)]
    /\ heard' = [heard EXCEPT ![p] =
            IF Head(out[p]).kind \in {"choke", "unchoke"} THEN Head(out[p]).kind ELSE @]
    /\ UNCHANGED <<uploadMode, have, peerList, choking, interested, requests, owed, rounds>>

GetsPiece(i) ==
    /\ have' = have \cup {i}
    /\ UNCHANGED <<uploadMode, links, owed, rounds>>

---------------------------------------------------------------------------
ServingInit ==
    /\ uploadMode \in BOOLEAN
    /\ have = IF uploadMode THEN Pieces ELSE UNION {AllowedFast[p] : p \in Peers}
    /\ peerList = Order /\ clients = Order
    /\ choking = [p \in Peers |-> TRUE]
    /\ interested = [p \in Peers |-> FALSE]
    /\ requests = [p \in Peers |-> <<>>]
    /\ out = [p \in Peers |-> <<>>]
    /\ heard = [p \in Peers |-> "choke"]
    /\ owed = [p \in Peers |-> Zero]
    /\ budget = Limit /\ pass = "idle" /\ turn = 1 /\ behind = {}

PeerMessages(p) ==
    \/ \E i \in Pieces : DoCmdRequest(p, i) \/ DoCmdCancel(p, i)
    \/ DoCmdInterested(p) \/ DoCmdNotInterested(p)

SpeedControl ==
    \/ StartUpload \/ UpdateClient \/ Commands
    \/ Serve \/ ReadFails \/ SkipClient \/ RunOff

ServingNext ==
    \/ \E p \in Peers : PeerMessages(p) \/ PeerReads(p)
    \/ AdjustChoke \/ SpeedControl \/ Refill
    \/ \E i \in Pieces : GetsPiece(i)

\* The refills, every 500 ms, fall into rounds with any client at the front.
ServingFairness ==
    /\ WF_servingVars(SpeedControl) /\ WF_servingVars(Refill)
    /\ \A p \in Peers :
        /\ WF_servingVars(PeerReads(p))
        /\ SF_servingVars(Refill /\ Idle /\ clients # <<>> /\ Head(clients) = p)

ServingSpec == ServingInit /\ [][ServingNext]_servingVars
ServingFairSpec == ServingSpec /\ ServingFairness

---------------------------------------------------------------------------
Written == [kind : {"choke", "unchoke", "piece", "reject"},
            index : Pieces \cup {NoIndex}]

ServingTypeOK ==
    /\ uploadMode \in BOOLEAN /\ have \subseteq Pieces
    /\ peerList \in Seq(Peers) /\ IsInjective(peerList)
    /\ clients \in Seq(Peers) /\ IsInjective(clients) /\ ToSet(clients) = ToSet(peerList)
    /\ choking \in [Peers -> BOOLEAN] /\ interested \in [Peers -> BOOLEAN]
    /\ heard \in [Peers -> {"choke", "unchoke"}]
    /\ requests \in [Peers -> Seq(Pieces)] /\ out \in [Peers -> Seq(Written)]
    /\ owed \in [Peers -> [Pieces -> Nat]]
    /\ budget \in 0..Limit
    /\ pass \in {"idle", "commands", "data", "extra", "forced"}
    /\ pass # "idle" => turn \in DOMAIN clients
    /\ behind \subseteq Peers /\ (uploadMode \/ pass # "data" => behind = {})

\* What is said about requests pairs off with them, whatever is cancelled, choked
\* or queued twice: every queued block is owed once, and nothing else is, so no
\* request is answered twice (BTPeer.cpp:1572, 2792).
OwedOnce ==
    \A p \in Peers :
        /\ IsInjective(requests[p])
        /\ \A i \in Pieces : owed[p][i] = IF Queued(p, i) THEN 1 ELSE 0

\* The last of choke and unchoke before message j of the link to p is `what`:
\* what the peer has read, or what is on its way.
ChokeTalk(p, k) == out[p][k].kind \in {"choke", "unchoke"}
ToldBefore(p, j, what) ==
    \/ heard[p] = what /\ \A k \in 1..(j - 1) : ~ChokeTalk(p, k)
    \/ \E k \in 1..(j - 1) :
        out[p][k].kind = what /\ \A l \in (k + 1)..(j - 1) : ~ChokeTalk(p, l)

\* On the wire no piece follows a choke before the next unchoke, unless the peer
\* may have it at any time: also when the list of a choked peer with the extension
\* is kept, and when the peer is choked while its pieces are on their way
\* (BTPeer.cpp:2772, 2886).
NoPieceAfterChoke ==
    \A p \in Peers : \A j \in DOMAIN out[p] :
        out[p][j].kind = "piece" /\ out[p][j].index \notin AllowedFast[p]
            => ToldBefore(p, j, "unchoke")

\* The links that are up know, or will have read, whether they are choked.
ChokeTold ==
    \A p \in ToSet(peerList) :
        ToldBefore(p, Len(out[p]) + 1, IF choking[p] THEN "choke" ELSE "unchoke")

\* Every request taken is answered for once, and no piece follows a choke.
UploadInv == ServingTypeOK /\ OwedOnce /\ NoPieceAfterChoke /\ ChokeTold

\* A queued request is served unless the peer is choked, takes it back, does not
\* read what it was sent, or in a download gave less than it got, and unless the
\* commands of a round use up the budget: nobody is passed over because the others
\* ask for much, the list of clients is rotated (SpeedControl.cpp:220).  Commands
\* have no limit (SpeedControl.cpp:103), nor have pieces a peer may have at any
\* time, so both of the last two may keep a request waiting for ever.
Served ==
    \A p \in Peers, i \in Pieces :
        []<>(\/ ~Queued(p, i) \/ choking[p] \/ Len(out[p]) >= Room
             \/ p \in behind
             \/ pass = "commands" /\ budget = 0)
=============================================================================
