------------------------------ MODULE PeerWire ------------------------------
(***************************************************************************)
(* What a peer has, whether we are interested in it, and how long we wait  *)
(* for it to tell: the message handlers of CBTPeer (BTPeer.cpp) that deal  *)
(* with bitfields and HAVEs, its two timers, and the state of the download *)
(* they share.                                                             *)
(*                                                                         *)
(* ProcessData goes through the messages of the receive buffer one after   *)
(* the other and does not stop when a handler closes the link: the link is *)
(* then "draining".  Each session has a thread that runs the handlers of   *)
(* its peers; WritePiece, AdjustFilePriority, DownloadFinish and SwitchMode *)
(* are split where other threads can come in between.                      *)
(*                                                                         *)
(* A bitfield is the set of bits that are set in it, the spare bits behind *)
(* the last piece among them: DoCmdBitfield checks only its length.        *)
(*                                                                         *)
(* Left open: when each session is told that the download is finished or   *)
(* goes on again, by whatever the unlocked scans for missing pieces found  *)
(* (Completion); what the remote peer sends, when the network breaks a link *)
(* or the administrator closes one, whether the peer is interested in us   *)
(* (Serving), when GetPieceTask finds nothing (PieceTasks).  SendBitfield  *)
(* is one step here (its race with BroadcastNewPiece is in PieceTasks),    *)
(* and notices are kept for open links only.                               *)
(***************************************************************************)
EXTENDS Integers, FiniteSets

CONSTANTS
    Peers,              \* one link at a time with each of them
    Pieces,
    Spares,             \* the bits of the last byte that stand for no piece
    Sessions, SessionOf,
    Addrs, AddrOf,      \* a TPeerDetail per address
    Accepted,           \* the peers that connect to us: m_bAccepted
    Encrypted,          \* the peers linked with m_bEncryption
    Fast,               \* those whose handshake says so: m_bFastExtension
    PeerSets,           \* the bitfields a peer shows
    Wishes,             \* the sets of pieces the user can want
    NoPiece,
    MaxEvents           \* bound on links made (each counts for two), changes of
                        \* the priorities and calls of DownloadFinish

ASSUME PeersAssumption ==
    /\ IsFiniteSet(Peers)
    /\ Accepted \subseteq Peers
    /\ Encrypted \subseteq Peers
    /\ Fast \subseteq Peers
    /\ SessionOf \in [Peers -> Sessions]
    /\ AddrOf \in [Peers -> Addrs]
ASSUME PiecesAssumption ==
    /\ IsFiniteSet(Pieces) /\ NoPiece \notin Pieces
    /\ IsFiniteSet(Spares) /\ Spares \cap Pieces = {}

Bits == Pieces \cup Spares

ASSUME SetsAssumption ==
    /\ PeerSets \subseteq SUBSET Bits
    /\ Wishes \subseteq SUBSET Pieces
ASSUME BoundsAssumption == MaxEvents \in Nat

VARIABLES
    \* CBTStorage and CPeerCenter
    finished,       \* m_FinishedBitSet
    wanted,         \* the pieces with a priority, m_PriorityBitSet
    avail,          \* m_bitPieceSum
    noted,          \* addresses with m_pBitSet # NULL
    claims,         \* TPeerDetail::m_pBitSet
    \* CPeerAdmin of each session
    mode,           \* m_bDownloadFinish
    switch,         \* m_bSwitchMode
    raised,         \* those whose m_bSwitchMode is set, and the new mode not yet
    \* the threads
    writing,        \* the piece WritePiece has marked and not yet broadcast
    filling,        \* the pieces GenPriorityBitSet has still to give a priority
    switching,      \* sessions inside SwitchMode, after its loop
    \* CBTPeer
    link, reason,   \* m_LinkStatus, m_CloseReason
    shaked,         \* IsShaked()
    gotBits, bits,  \* m_bGotBitSet, m_PeerBitSet
    sentBits,       \* m_bSendBitSet
    notices,        \* m_NewPieceNoticeList
    meInt,          \* m_bMeInterestPeer
    upload,         \* m_bUploadMode
    ticks,          \* m_ActiveTimerCounter, as far as OnTimer looks at it
    events,         \* for the bound
    \* history
    skew,           \* pieces whose sum a late message or close has falsified
    gaveUp,         \* peers we left because there was no task
    repriced,       \* peers open when the user changed the priorities
    needless,       \* peers whose HAVE ALL came when we missed nothing
    shown           \* all a peer has ever claimed to have

storage == <<finished, wanted>>
center == <<avail, noted, claims>>
admins == <<mode, switch, raised>>
threads == <<writing, filling, switching>>
flags == <<shaked, sentBits, upload, ticks>>
has == <<gotBits, bits>>
history == <<skew, gaveUp, repriced, needless, shown>>
vars == <<storage, center, admins, threads, link, reason, flags, has, notices,
          meInt, events, history>>

TypeOK ==
    /\ finished \subseteq Pieces
    /\ wanted \subseteq Pieces
    /\ avail \in [Pieces -> Nat]
    /\ noted \subseteq Addrs
    /\ claims \in [Addrs -> SUBSET Bits]
    /\ mode \in [Sessions -> BOOLEAN]
    /\ switch \in [Sessions -> BOOLEAN]
    /\ raised \subseteq Sessions
    /\ writing \in [Sessions -> Pieces \cup {NoPiece}]
    /\ filling \subseteq Pieces
    /\ switching \subseteq Sessions
    /\ link \in [Peers -> {"none", "open", "draining", "closed"}]
    /\ reason \in [Peers -> {"none", "honest", "other"}]
    /\ shaked \in [Peers -> BOOLEAN]
    /\ gotBits \in [Peers -> BOOLEAN]
    /\ bits \in [Peers -> SUBSET Bits]
    /\ sentBits \in [Peers -> BOOLEAN]
    /\ notices \in [Peers -> SUBSET Pieces]
    /\ meInt \in [Peers -> BOOLEAN]
    /\ upload \in [Peers -> BOOLEAN]
    /\ ticks \in [Peers -> 0 .. 3]
    /\ events \in 0 .. MaxEvents
    /\ skew \subseteq Bits
    /\ gaveUp \subseteq Peers
    /\ repriced \subseteq Peers
    /\ needless \subseteq Peers
    /\ shown \in [Peers -> SUBSET Bits]

Init ==
    /\ finished = {}
    /\ wanted \in Wishes
    /\ avail = [i \in Pieces |-> 0]
    /\ noted = {}
    /\ claims = [a \in Addrs |-> {}]
    /\ mode = [s \in Sessions |-> wanted = {}]
    /\ switch = [s \in Sessions |-> FALSE]
    /\ raised = {}
    /\ writing = [s \in Sessions |-> NoPiece]
    /\ filling = {}
    /\ switching = {}
    /\ link = [p \in Peers |-> "none"]
    /\ reason = [p \in Peers |-> "none"]
    /\ shaked = [p \in Peers |-> FALSE]
    /\ gotBits = [p \in Peers |-> FALSE]
    /\ bits = [p \in Peers |-> {}]
    /\ sentBits = [p \in Peers |-> FALSE]
    /\ notices = [p \in Peers |-> {}]
    /\ meInt = [p \in Peers |-> FALSE]
    /\ upload = [p \in Peers |-> FALSE]
    /\ ticks = [p \in Peers |-> 0]
    /\ events = 0
    /\ skew = {}
    /\ gaveUp = {}
    /\ repriced = {}
    /\ needless = {}
    /\ shown = [p \in Peers |-> {}]

----------------------------------------------------------------------------
(* CBTPieceSum, which never goes below 0, and what the handlers ask the    *)
(* storage.                                                                *)

SumPlus(S) == [i \in Pieces |-> IF i \in S THEN avail[i] + 1 ELSE avail[i]]

Minus(sum, S) ==
    [i \in Pieces |-> IF i \in S /\ sum[i] > 0 THEN sum[i] - 1 ELSE sum[i]]

\* -= for every peer of Q in turn.
MinusAll(Q) ==
    [i \in Pieces |->
        LET n == Cardinality({q \in Q : i \in bits[q]})
        IN  IF avail[i] > n THEN avail[i] - n ELSE 0]

\* Mutant: a repeated bitfield is counted again.
WithoutNothing(p) == avail

\* The sum after the old bitfield of p, if there is one, was taken out.
SumWithout(p) == IF gotBits[p] THEN Minus(avail, bits[p]) ELSE avail

IsPieceInterest(S) == (S \cap wanted) \ finished # {}

IsPeerNeedMyPiece(S) == finished \ S # {}

\* The thread of p is in none of the loops that are split.
Free(s) == writing[s] = NoPiece /\ s \notin switching

\* ProcessData runs the next message of p.
Loop(p) ==
    /\ link[p] \in {"open", "draining"}
    /\ shaked[p]
    /\ Free(SessionOf[p])

Draining(p) == link[p] = "draining"

\* OnClose, when it leaves the sum at s.  A later one only changes the reason.
Leave(p, to, why, s) ==
    /\ link' = [link EXCEPT ![p] = IF @ = "open" THEN to ELSE @]
    /\ reason' = [reason EXCEPT ![p] = why]
    /\ avail' = s
    /\ meInt' = [meInt EXCEPT ![p] = FALSE]
    /\ notices' = [notices EXCEPT ![p] = {}]
    /\ gaveUp' = gaveUp \ {p}
    /\ repriced' = repriced \ {p}
    /\ needless' = needless \ {p}

\* OnClose from a handler that has not touched the sum.
OnClose(p, to, why) ==
    Leave(p, to, why, IF link[p] = "open" THEN SumWithout(p) ELSE avail)

\* sendInterested, which is silent when nothing changes.
SendInterested(p, interest) == meInt' = [meInt EXCEPT ![p] = interest]

\* SendBitfield: the list of notices starts empty.
SendBitfield(p) == sentBits' = [sentBits EXCEPT ![p] = TRUE]

----------------------------------------------------------------------------
(* The life of a link.                                                     *)

\* Attach and TransferPeer, or OnConnectOk and MoveToConnectedList: the peer
\* enters the list of its session, in the mode of its session.
Open(p) ==
    /\ link[p] = "none"
    /\ events + 2 <= MaxEvents
    /\ p \notin Accepted => Free(SessionOf[p])
    /\ link' = [link EXCEPT ![p] = "open"]
    /\ upload' = [upload EXCEPT ![p] = mode[SessionOf[p]]]
    /\ events' = events + 2
    /\ UNCHANGED <<storage, center, admins, threads, reason, shaked, sentBits,
                   ticks, has, notices, meInt, history>>

\* CheckHandshake accepts the handshake.  To a peer we linked to our bitfield
\* goes out at once, to one that linked to us when its own has come.
Handshake(p) ==
    /\ link[p] = "open"
    /\ ~shaked[p]
    /\ Free(SessionOf[p])
    /\ shaked' = [shaked EXCEPT ![p] = TRUE]
    /\ IF p \in Accepted THEN sentBits' = sentBits ELSE SendBitfield(p)
    /\ UNCHANGED <<storage, center, admins, threads, link, reason, upload,
                   ticks, has, notices, meInt, events, history>>

\* A link that ends outside the message loop.
End(p) ==
    /\ link[p] = "open"
    /\ Free(SessionOf[p])
    /\ OnClose(p, "closed", "other")
    /\ UNCHANGED <<storage, noted, claims, admins, threads, flags, has,
                   events, skew, shown>>

\* DoRead finds that the remote peer or the network closed the link,
DoRead(p) == End(p)

\* or DoCmdWrite does,
DoCmdWrite(p) == End(p)

\* or the handshake is wrong, of another torrent or our own.
BadHandshake(p) == ~shaked[p] /\ End(p)

\* The administrator makes room: CloseInterestedPeer, CloseNotInterestPeer.
CloseInterestedPeer(p) == gotBits[p] /\ meInt[p] /\ End(p)

CloseNotInterestPeer(p) == gotBits[p] /\ ~meInt[p] /\ End(p)

\* CloseTimeoutConnection: no data since the bitfield came.
CloseTimeoutConnection(p) == gotBits[p] /\ ~mode[SessionOf[p]] /\ End(p)

\* A message with a bad length or index closes the link; what was received
\* behind it is still handled.
BadMessage(p) ==
    /\ Loop(p)
    /\ OnClose(p, "draining", "other")
    /\ UNCHANGED <<storage, noted, claims, admins, threads, flags, has,
                   events, skew, shown>>

\* ProcessData reaches the end of the buffer of a closed link.
Drained(p) ==
    /\ Draining(p)
    /\ link' = [link EXCEPT ![p] = "closed"]
    /\ UNCHANGED <<storage, center, admins, threads, reason, flags, has,
                   notices, meInt, events, history>>

\* CheckClosedConnection reports the bitfield of a closed peer (RecordClose)
\* and deletes it.
CheckClosedConnection(p) ==
    /\ link[p] = "closed"
    /\ Free(SessionOf[p])
    /\ link' = [link EXCEPT ![p] = "none"]
    /\ reason' = [reason EXCEPT ![p] = "none"]
    /\ noted' = IF gotBits[p] THEN noted \cup {AddrOf[p]} ELSE noted
    /\ claims' = IF gotBits[p] THEN [claims EXCEPT ![AddrOf[p]] = bits[p]]
                 ELSE claims
    /\ shaked' = [shaked EXCEPT ![p] = FALSE]
    /\ sentBits' = [sentBits EXCEPT ![p] = FALSE]
    /\ upload' = [upload EXCEPT ![p] = FALSE]
    /\ ticks' = [ticks EXCEPT ![p] = 0]
    /\ gotBits' = [gotBits EXCEPT ![p] = FALSE]
    /\ bits' = [bits EXCEPT ![p] = {}]
    /\ meInt' = [meInt EXCEPT ![p] = FALSE]
    /\ UNCHANGED <<storage, avail, admins, threads, notices, events, history>>

----------------------------------------------------------------------------
(* What the peer tells us it has.                                          *)

\* Mutant: the same number of bits is taken for a lie.
GainMore(p, S) ==
    IF AddrOf[p] \in noted
    THEN Cardinality(S) - Cardinality(claims[AddrOf[p]]) - 1 ELSE 0

\* CheckBitSet of the address: how many more bits than it claimed before, by
\* GetSetedCount, which counts the spare ones with the pieces.
Gain(p, S) ==
    IF AddrOf[p] \in noted
    THEN Cardinality(S) - Cardinality(claims[AddrOf[p]]) ELSE 0

\* The handler has put S in the place of the old bitfield.
GotBits(p, S) ==
    /\ gotBits' = [gotBits EXCEPT ![p] = TRUE]
    /\ bits' = [bits EXCEPT ![p] = S]
    /\ noted' = noted \cup {AddrOf[p]}
    /\ claims' = [claims EXCEPT ![AddrOf[p]] = S]
    /\ shown' = [shown EXCEPT ![p] = @ \cup S]

\* A bitfield that is handled to its end.
Counted(p, S, interest) ==
    /\ IF p \in Accepted THEN SendBitfield(p) ELSE sentBits' = sentBits
    /\ avail' = [i \in Pieces |->
                    SumWithout(p)[i] + (IF i \in S THEN 1 ELSE 0)]
    /\ SendInterested(p, interest)
    /\ skew' = IF Draining(p) THEN skew \cup bits[p] \cup S ELSE skew
    /\ gaveUp' = gaveUp \ {p}
    /\ repriced' = repriced \ {p}
    /\ UNCHANGED <<link, reason, notices>>

\* A bitfield after which the link is closed: OnConnectionClose takes S out
\* of the sum, which never had it.
Refused(p, S, why) ==
    /\ Leave(p, "draining", why,
             IF Draining(p) THEN SumWithout(p)
             ELSE Minus(SumWithout(p), S))
    /\ skew' = IF Draining(p) THEN skew \cup bits[p] ELSE skew \cup S

DoCmdBitfield(p, S) ==
    /\ Loop(p)
    /\ GotBits(p, S)
    /\ IF upload[p] /\ Gain(p, S) < 0
       THEN Refused(p, S, "honest") /\ sentBits' = sentBits
       ELSE IF upload[p] /\ ~IsPeerNeedMyPiece(S)
       THEN /\ Refused(p, S, "other")
            /\ IF p \in Accepted THEN SendBitfield(p) ELSE sentBits' = sentBits
       ELSE Counted(p, S, ~upload[p] /\ IsPieceInterest(S)) /\ needless' = needless \ {p}
    /\ UNCHANGED <<storage, admins, threads, shaked, upload, ticks, events>>

\* DoCmdHaveAll: without the fast extension, or when we only upload, the link
\* is closed; otherwise we are interested, whether we miss a piece or not.
DoCmdHaveAll(p) ==
    /\ Loop(p)
    /\ IF p \notin Fast \/ upload[p]
       THEN /\ OnClose(p, "draining", "other")
            /\ UNCHANGED <<noted, claims, has, sentBits, skew, shown>>
       ELSE /\ GotBits(p, Pieces) /\ Counted(p, Pieces, TRUE)
            /\ needless' = IF IsPieceInterest(Pieces) THEN needless \ {p}
                           ELSE needless \cup {p}
    /\ UNCHANGED <<storage, admins, threads, shaked, upload, ticks, events>>

DoCmdHaveNone(p) ==
    /\ Loop(p)
    /\ IF p \notin Fast
       THEN /\ OnClose(p, "draining", "other")
            /\ UNCHANGED <<noted, claims, has, sentBits, skew, shown>>
       ELSE /\ GotBits(p, {})
            /\ IF upload[p] /\ Gain(p, {}) < 0
               THEN Refused(p, {}, "honest") /\ sentBits' = sentBits
               ELSE Counted(p, {}, FALSE) /\ needless' = needless \ {p}
    /\ UNCHANGED <<storage, admins, threads, shaked, upload, ticks, events>>

\* PeerHaveNewPiece notes the piece at the address too, if it has a bitfield.
HaveNew(p, i) ==
    /\ bits' = [bits EXCEPT ![p] = @ \cup {i}]
    /\ avail' = SumPlus({i})
    /\ skew' = IF Draining(p) THEN skew \cup {i} ELSE skew
    /\ shown' = [shown EXCEPT ![p] = @ \cup {i}]

\* Mutant: a HAVE wins no interest.
HaveUnmoved(p, i) ==
    /\ Loop(p)
    /\ gotBits[p] => i \notin bits[p]
    /\ HaveNew(p, i)
    /\ gotBits' = [gotBits EXCEPT ![p] = TRUE]
    /\ SendBitfield(p)
    /\ UNCHANGED <<storage, noted, claims, admins, threads, link, reason,
                   shaked, upload, ticks, notices, meInt, events, gaveUp,
                   repriced, needless>>

\* DoCmdHave: the first HAVE may stand for a bitfield.  One of a piece the
\* peer has already ends the handler before the interest is looked at.
DoCmdHave(p, i) ==
    /\ Loop(p)
    /\ gotBits[p] => i \notin bits[p]
    /\ HaveNew(p, i)
    /\ gotBits' = [gotBits EXCEPT ![p] = TRUE]
    /\ IF gotBits[p]
       THEN /\ claims' = [claims EXCEPT ![AddrOf[p]] =
                    IF AddrOf[p] \in noted THEN @ \cup {i} ELSE @]
            /\ sentBits' = sentBits
       ELSE SendBitfield(p) /\ claims' = claims
    /\ SendInterested(p, meInt[p] \/ IsPieceInterest({i}))
    /\ gaveUp' = IF meInt'[p] THEN gaveUp \ {p} ELSE gaveUp
    /\ UNCHANGED <<storage, noted, admins, threads, link, reason, shaked,
                   upload, ticks, notices, events, repriced, needless>>

\* DoCmdNotInterested matters here only when we upload.
DoCmdNotInterested(p) ==
    /\ Loop(p)
    /\ upload[p]
    /\ OnClose(p, "draining", "other")
    /\ UNCHANGED <<storage, noted, claims, admins, threads, flags, has,
                   events, skew, shown>>

----------------------------------------------------------------------------
(* The timers of a peer, and its turn to ask for a piece.                  *)

\* Mutant: the notices go out and the interest stays.
NoticeOnly(p) ==
    /\ link[p] = "open"
    /\ Free(SessionOf[p])
    /\ notices[p] # {}
    /\ notices' = [notices EXCEPT ![p] = {}]
    /\ UNCHANGED <<storage, center, admins, threads, link, reason, flags, has,
                   meInt, events, history>>

\* NoticeNewHavePiece, every three seconds: the HAVEs go out, and perhaps
\* there is nothing left that we want from the peer.
NoticeNewHavePiece(p) ==
    /\ link[p] = "open"
    /\ Free(SessionOf[p])
    /\ notices[p] # {}
    /\ notices' = [notices EXCEPT ![p] = {}]
    /\ SendInterested(p, meInt[p] /\ IsPieceInterest(bits[p]))
    /\ needless' = needless \ {p}
    /\ UNCHANGED <<storage, center, admins, threads, link, reason, flags, has,
                   events, skew, gaveUp, repriced, shown>>

\* Mutant: nobody minds the bitfield of an encrypted link.
OverduePlain(p, n) ==
    \/ n = 1 /\ p \notin Encrypted /\ ~shaked[p]
    \/ n = 2 /\ p \notin Encrypted /\ ~gotBits[p]
    \/ n = 2 /\ p \in Encrypted /\ ~shaked[p]

\* What the n-th minute finds missing: a plain link has one minute for the
\* handshake and two for the bitfield, an encrypted one a minute more.
Overdue(p, n) ==
    \/ n = 1 /\ p \notin Encrypted /\ ~shaked[p]
    \/ n = 2 /\ p \notin Encrypted /\ ~gotBits[p]
    \/ n = 2 /\ p \in Encrypted /\ ~shaked[p]
    \/ n = 3 /\ p \in Encrypted /\ ~gotBits[p]

\* The timer of a minute.  A link silent for two minutes is closed as well.
NotActive(p) == ticks[p] >= 1 /\ End(p)

OnTimer(p) ==
    /\ link[p] = "open"
    /\ Free(SessionOf[p])
    /\ ticks[p] < IF p \in Encrypted THEN 3 ELSE 2
    /\ ticks' = [ticks EXCEPT ![p] = @ + 1]
    /\ IF Overdue(p, ticks[p] + 1) THEN OnClose(p, "closed", "other")
       ELSE UNCHANGED <<link, reason, avail, meInt, notices, gaveUp, repriced, needless>>
    /\ UNCHANGED <<storage, noted, claims, admins, threads, shaked,
                   sentBits, upload, has, events, skew, shown>>

\* CheckMyRequest gets no task: we take our interest back.
CheckMyRequest(p) ==
    /\ link[p] = "open"
    /\ shaked[p]
    /\ meInt[p]
    /\ Free(SessionOf[p])
    /\ SendInterested(p, FALSE)
    /\ gaveUp' = gaveUp \cup {p}
    /\ needless' = needless \ {p}
    /\ UNCHANGED <<storage, center, admins, threads, link, reason, flags, has,
                   notices, events, skew, repriced, shown>>

----------------------------------------------------------------------------
(* The download changes, a step wherever another thread can come between.  *)

\* WritePiece marks the piece that a peer of the session completed.
WritePiece(s, i) ==
    /\ Free(s)
    /\ i \in wanted \ finished
    /\ \E p \in Peers : SessionOf[p] = s /\ Loop(p)
    /\ finished' = finished \cup {i}
    /\ writing' = [writing EXCEPT ![s] = i]
    /\ UNCHANGED <<wanted, center, admins, filling, switching, link, reason, flags,
                   has, notices, meInt, events, history>>

\* The rest of it: BroadcastHavePiece to every peer that has our bitfield.
BroadcastHavePiece(s) ==
    /\ writing[s] # NoPiece
    /\ writing' = [writing EXCEPT ![s] = NoPiece]
    /\ notices' = [p \in Peers |->
            IF link[p] = "open" /\ sentBits[p]
            THEN notices[p] \cup {writing[s]} ELSE notices[p]]
    /\ UNCHANGED <<storage, center, admins, filling, switching, link, reason, flags,
                   has, meInt, events, history>>

OpenPeers == {p \in Peers : link[p] = "open"}

\* AdjustFilePriority, by the user: GenPriorityBitSet clears m_PriorityBitSet ...
AdjustFilePriority(w) ==
    /\ filling = {}
    /\ events < MaxEvents
    /\ events' = events + 1
    /\ w # wanted
    /\ wanted' = {} /\ filling' = w
    /\ repriced' = OpenPeers
    /\ UNCHANGED <<finished, center, admins, writing, switching, link, reason, flags,
                   has, notices, meInt, skew, gaveUp, needless, shown>>

\* ... and fills it again, without a lock.
FillPriority(i) ==
    /\ i \in filling
    /\ wanted' = wanted \cup {i} /\ filling' = filling \ {i}
    /\ repriced' = OpenPeers
    /\ UNCHANGED <<finished, center, admins, writing, switching, link, reason, flags,
                   has, notices, meInt, events, skew, gaveUp, needless, shown>>

\* CPeerAdmin::DownloadFinish with another mode than the session has, by some
\* thread at any time: m_bSwitchMode is raised first ...
DownloadFinish(s) ==
    /\ s \notin raised
    /\ events < MaxEvents
    /\ events' = events + 1
    /\ switch' = [switch EXCEPT ![s] = TRUE]
    /\ raised' = raised \cup {s}
    /\ UNCHANGED <<storage, center, mode, threads, link, reason, flags, has, notices,
                   meInt, history>>

\* ... and then m_bDownloadFinish is set.
SetMode(s) ==
    /\ s \in raised
    /\ raised' = raised \ {s}
    /\ mode' = [mode EXCEPT ![s] = ~@]
    /\ UNCHANGED <<storage, center, switch, threads, link, reason, flags, has, notices,
                   meInt, events, history>>

\* SwitchMode: DownloadFinish of every peer in the list.  When we have all we
\* want, a peer that is not interested in us is closed: the set C.
SwitchMode(s) ==
    LET members == {p \in Peers : SessionOf[p] = s /\ link[p] = "open"}
        told == {p \in members : gotBits[p]}
    IN  /\ Free(s)
        /\ \A p \in Peers : SessionOf[p] = s => ~Draining(p)
        /\ switch[s]
        /\ switching' = switching \cup {s}
        /\ upload' = [p \in Peers |->
                IF p \in members THEN mode[s] ELSE upload[p]]
        /\ meInt' = [p \in Peers |->
                IF p \in told THEN ~mode[s] /\ IsPieceInterest(bits[p])
                ELSE meInt[p]]
        /\ \E C \in SUBSET told :
              /\ ~mode[s] => C = {}
              /\ link' = [p \in Peers |-> IF p \in C THEN "closed" ELSE link[p]]
              /\ reason' = [p \in Peers |->
                                IF p \in C THEN "other" ELSE reason[p]]
              /\ notices' = [p \in Peers |-> IF p \in C THEN {} ELSE notices[p]]
              /\ avail' = MinusAll(C)
              /\ gaveUp' = gaveUp \ told
              /\ repriced' = repriced \ told
              /\ needless' = needless \ told
        /\ UNCHANGED <<storage, noted, claims, admins, writing, filling, shaked,
                       sentBits, ticks, has, events, skew, shown>>

\* Its end: a switch asked for meanwhile is forgotten (see Completion).
EndSwitch(s) ==
    /\ s \in switching
    /\ switching' = switching \ {s}
    /\ switch' = [switch EXCEPT ![s] = FALSE]
    /\ UNCHANGED <<storage, center, mode, raised, writing, filling, link, reason, flags,
                   has, notices, meInt, events, history>>

----------------------------------------------------------------------------
PeerStep(p) ==
    \/ Open(p)
    \/ Handshake(p)
    \/ DoRead(p)
    \/ DoCmdWrite(p)
    \/ BadHandshake(p)
    \/ CloseInterestedPeer(p)
    \/ CloseNotInterestPeer(p)
    \/ CloseTimeoutConnection(p)
    \/ BadMessage(p)
    \/ Drained(p)
    \/ CheckClosedConnection(p)
    \/ \E S \in PeerSets : DoCmdBitfield(p, S)
    \/ DoCmdHaveAll(p)
    \/ DoCmdHaveNone(p)
    \/ \E i \in Pieces : DoCmdHave(p, i)
    \/ DoCmdNotInterested(p)
    \/ NoticeNewHavePiece(p)
    \/ OnTimer(p)
    \/ NotActive(p)
    \/ CheckMyRequest(p)

SessionStep(s) ==
    \/ \E i \in Pieces : WritePiece(s, i)
    \/ BroadcastHavePiece(s)
    \/ DownloadFinish(s)
    \/ SetMode(s)
    \/ SwitchMode(s)
    \/ EndSwitch(s)

Next ==
    \/ \E p \in Peers : PeerStep(p)
    \/ \E s \in Sessions : SessionStep(s)
    \/ \E w \in Wishes : AdjustFilePriority(w)
    \/ \E i \in Pieces : FillPriority(i)

Spec == Init /\ [][Next]_vars

\* The threads run, and the minute timer of a peer strikes.
Fairness ==
    /\ \A s \in Sessions : WF_vars(BroadcastHavePiece(s)) /\ WF_vars(EndSwitch(s))
    /\ \A p \in Peers : WF_vars(Drained(p)) /\ SF_vars(OnTimer(p))

FairSpec == Spec /\ Fairness

----------------------------------------------------------------------------
\* The sum over the bitfields, by which the rarest piece is chosen
\* (PieceChangeNotice, PeerHaveNewPieceNotice), counts a piece once for every
\* open link whose peer has it, unless a message was handled after its link
\* had been closed, or a link was closed before its bitfield was counted.
AvailExact ==
    \A i \in Pieces \ skew :
        avail[i] = Cardinality({p \in Peers :
            link[p] = "open" /\ gotBits[p] /\ i \in bits[p]})

\* When we tell a peer that we are interested (sendInterested), it has a
\* piece that we want, or a notice or a broadcast under way makes us look
\* again, unless the priorities were changed, or a HAVE ALL came when nothing
\* was missing any more and the peer was not in upload mode yet.
Founded(p) ==
    /\ link[p] = "open"
    /\ meInt[p]
    /\ p \notin repriced \cup needless
    => \/ IsPieceInterest(bits[p])
       \/ notices[p] # {}
       \/ \E s \in Sessions : writing[s] # NoPiece

InterestFounded == \A p \in Peers : Founded(p)

\* While we download, we stay interested in a peer that has a piece we want,
\* except when there was no task for it (CheckMyRequest) or the priorities
\* were changed: then only a new message of the peer wins us back.
Kept(p) ==
    /\ link[p] = "open"
    /\ gotBits[p]
    /\ ~upload[p]
    /\ IsPieceInterest(bits[p])
    => meInt[p] \/ p \in gaveUp \/ p \in repriced

InterestKept == \A p \in Peers : Kept(p)

\* A peer that has told us what it has knows what we have, so that the notices
\* of BroadcastHavePiece reach it; interest comes after its bitfield.
Told(p) ==
    /\ ~gotBits[p] => bits[p] = {}
    /\ link[p] = "none" => ~shaked[p] /\ ~gotBits[p] /\ ~meInt[p]
    /\ link[p] = "open" =>
          /\ meInt[p] => gotBits[p]
          /\ gotBits[p] => sentBits[p]
          /\ shaked[p] /\ p \notin Accepted => sentBits[p]

AllTold == \A p \in Peers : Told(p)

\* What we tell a peer of our interest is what its bitfield and ours give,
\* whoever changes them, the peer, another session or the user, and whenever the
\* sessions are told of another mode.
WireInv == TypeOK /\ AllTold /\ InterestKept /\ InterestFounded

\* A link is only closed as dishonest (CR_HONEST) when a peer of its address
\* once showed a bit that it does not show now; it may be one of the spare bits
\* behind the last piece, which say nothing of what the peer has (BTPiece.cpp:218).
HonestKept ==
    [][\A p \in Peers :
          reason'[p] = "honest" /\ reason[p] # "honest" =>
              \E q \in Peers : /\ AddrOf[q] = AddrOf[p]
                               /\ ~(shown'[q] \subseteq bits'[p])]_vars

\* A link whose peer sends no bitfield does not stay: the minute timer closes
\* it, whatever else keeps the link active.
SilentClosed ==
    \A p \in Peers :
        (link[p] = "open" /\ ~gotBits[p]) ~> (link[p] # "open" \/ gotBits[p])
=============================================================================
