-------------------------- MODULE PeerWire_proofs --------------------------
(* Our interest in a peer is what its bitfield and ours give.              *)
(*                                                                         *)
(* The argument: a step of a peer's handlers or timers touches nobody      *)
(* else's part (Alone), so each of them is looked at for its own peer only; *)
(* the steps of a session or of the user change what we want, and then     *)
(* either every open peer gets a notice, which AllTold makes sure of, or    *)
(* the interest is taken anew.  Nothing rests on what mode a session is in. *)
EXTENDS PeerWire, FiniteSetTheorems, TLAPS

USE PeersAssumption, PiecesAssumption, SetsAssumption, BoundsAssumption

LEMMA InitInv == Init => WireInv
<1> SUFFICES ASSUME Init PROVE WireInv
  OBVIOUS
<1>1. TypeOK
  BY DEF Init, TypeOK
<1>3. AllTold
  BY DEF Init, AllTold, Told
<1>4. InterestKept /\ InterestFounded
  BY DEF Init, InterestKept, Kept, InterestFounded, Founded
<1> QED
  BY <1>1, <1>3, <1>4 DEF WireInv

----------------------------------------------------------------------------
(* The sum of the bitfields stays a sum.                                   *)

LEMMA MinusType ==
  ASSUME NEW sum \in [Pieces -> Nat], NEW S
  PROVE Minus(sum, S) \in [Pieces -> Nat]
BY DEF Minus

LEMMA SumTypes ==
  ASSUME TypeOK, NEW p \in Peers
  PROVE /\ SumWithout(p) \in [Pieces -> Nat]
        /\ \A S : SumPlus(S) \in [Pieces -> Nat]
        /\ \A S : Minus(SumWithout(p), S) \in [Pieces -> Nat]
        /\ \A S : [i \in Pieces |-> SumWithout(p)[i] + (IF i \in S THEN 1 ELSE 0)]
                      \in [Pieces -> Nat]
<1>1. avail \in [Pieces -> Nat]
  BY DEF TypeOK
<1>2. SumWithout(p) \in [Pieces -> Nat]
  BY <1>1, MinusType DEF SumWithout
<1>3. \A S : SumPlus(S) \in [Pieces -> Nat]
  BY <1>1 DEF SumPlus
<1>4. \A S : Minus(SumWithout(p), S) \in [Pieces -> Nat]
  BY <1>2, MinusType
<1>5. \A S : [i \in Pieces |-> SumWithout(p)[i] + (IF i \in S THEN 1 ELSE 0)]
                 \in [Pieces -> Nat]
  BY <1>2
<1> QED
  BY <1>2, <1>3, <1>4, <1>5

LEMMA MinusAllType ==
  ASSUME TypeOK, NEW Q \in SUBSET Peers
  PROVE MinusAll(Q) \in [Pieces -> Nat]
<1>1. ASSUME NEW i \in Pieces
      PROVE Cardinality({q \in Q : i \in bits[q]}) \in Nat
  <2>1. IsFiniteSet({q \in Q : i \in bits[q]})
    BY FS_Subset
  <2> QED
    BY <2>1, FS_CardinalityType
<1> QED
  BY <1>1 DEF MinusAll, TypeOK

\* What a step of p leaves behind when it closes the link.
LEMMA LeaveTypes ==
  ASSUME TypeOK, NEW p \in Peers, NEW to \in {"draining", "closed"},
         NEW why \in {"honest", "other"}, NEW sum \in [Pieces -> Nat],
         Leave(p, to, why, sum)
  PROVE /\ link' \in [Peers -> {"none", "open", "draining", "closed"}]
        /\ reason' \in [Peers -> {"none", "honest", "other"}]
        /\ avail' \in [Pieces -> Nat]
        /\ meInt' \in [Peers -> BOOLEAN]
        /\ notices' \in [Peers -> SUBSET Pieces]
        /\ gaveUp' \subseteq Peers
        /\ repriced' \subseteq Peers
        /\ needless' \subseteq Peers
BY DEF TypeOK, Leave

LEMMA OnCloseTypes ==
  ASSUME TypeOK, NEW p \in Peers, NEW to \in {"draining", "closed"},
         NEW why \in {"honest", "other"}, OnClose(p, to, why)
  PROVE /\ link' \in [Peers -> {"none", "open", "draining", "closed"}]
        /\ reason' \in [Peers -> {"none", "honest", "other"}]
        /\ avail' \in [Pieces -> Nat]
        /\ meInt' \in [Peers -> BOOLEAN]
        /\ notices' \in [Peers -> SUBSET Pieces]
        /\ gaveUp' \subseteq Peers
        /\ repriced' \subseteq Peers
        /\ needless' \subseteq Peers
<1>1. (IF link[p] = "open" THEN SumWithout(p) ELSE avail) \in [Pieces -> Nat]
  BY SumTypes DEF TypeOK
<1> QED
  BY <1>1, LeaveTypes DEF OnClose

----------------------------------------------------------------------------
(* A step of a peer, and the part of the state it leaves alone.            *)

\* What only the sessions and the user change, and the part of every peer but p.
Alone(p) ==
  /\ finished' = finished /\ wanted' = wanted /\ writing' = writing
  /\ \A q \in Peers \ {p} :
        /\ link'[q] = link[q] /\ shaked'[q] = shaked[q]
        /\ gotBits'[q] = gotBits[q] /\ bits'[q] = bits[q]
        /\ sentBits'[q] = sentBits[q] /\ notices'[q] = notices[q]
        /\ meInt'[q] = meInt[q] /\ upload'[q] = upload[q]
        /\ (q \in gaveUp' <=> q \in gaveUp)
        /\ (q \in repriced' <=> q \in repriced)
        /\ (q \in needless' <=> q \in needless)

\* What a step of p must see to for p itself.
Own(p) == Told(p)' /\ Kept(p)' /\ Founded(p)'

\* The two together keep the invariant.
LEMMA PeerKeeps ==
  ASSUME WireInv, NEW p \in Peers, TypeOK', Alone(p), Own(p)
  PROVE WireInv'
<1>2. ASSUME NEW q \in Peers, q # p
      PROVE Told(q)' /\ Kept(q)' /\ Founded(q)'
  <2>1. Told(q) /\ Kept(q) /\ Founded(q)
    BY DEF WireInv, AllTold, InterestKept, InterestFounded
  <2>2. Told(q)'
    BY <1>2, <2>1 DEF Told, Alone
  <2>3. Kept(q)'
    BY <1>2, <2>1 DEF Kept, Alone, IsPieceInterest
  <2>4. Founded(q)'
    BY <1>2, <2>1 DEF Founded, Alone, IsPieceInterest
  <2> QED
    BY <2>2, <2>3, <2>4
<1> QED
  BY <1>2 DEF WireInv, Own, AllTold, InterestKept, InterestFounded

\* A link that has just been left: nothing is promised of it.
LEMMA LeftOwn ==
  ASSUME WireInv, NEW p \in Peers, link[p] \in {"open", "draining"},
         NEW to \in {"draining", "closed"}, NEW why, NEW sum,
         Leave(p, to, why, sum),
         gotBits'[p] \/ (gotBits'[p] = gotBits[p] /\ bits'[p] = bits[p])
  PROVE Own(p)
<1>1. link'[p] \in {"draining", "closed"}
  BY DEF Leave, WireInv, TypeOK
<1>2. Told(p)
  BY DEF WireInv, AllTold
<1> QED
  BY <1>1, <1>2 DEF Own, Told, Kept, Founded

LEMMA EndStep ==
  ASSUME WireInv, NEW p \in Peers, End(p)
  PROVE WireInv'
<1>1. TypeOK'
  BY OnCloseTypes DEF WireInv, End, TypeOK, storage, admins, threads, flags, has
<1>2. Alone(p)
  BY DEF WireInv, TypeOK, End, OnClose, Leave, Alone, storage, admins, threads, flags, has
<1>3. Own(p)
  BY LeftOwn DEF End, OnClose, has
<1> QED
  BY <1>1, <1>2, <1>3, PeerKeeps

----------------------------------------------------------------------------
(* The life of a link.                                                     *)

LEMMA OpenStep ==
  ASSUME WireInv, NEW p \in Peers, Open(p)
  PROVE WireInv'
<1>1. TypeOK'
  BY DEF WireInv, TypeOK, Open, storage, center, admins, threads, has, history
<1>2. Alone(p)
  BY DEF WireInv, TypeOK, Open, Alone, storage, center, admins, threads, has, history
<1>3. Own(p)
  BY DEF WireInv, TypeOK, AllTold, Own, Told, Kept, Founded, Open, has, history
<1> QED
  BY <1>1, <1>2, <1>3, PeerKeeps

LEMMA HandshakeStep ==
  ASSUME WireInv, NEW p \in Peers, Handshake(p)
  PROVE WireInv'
<1>1. TypeOK'
  <2>1. shaked' \in [Peers -> BOOLEAN]
    BY DEF WireInv, TypeOK, Handshake
  <2>2. sentBits' \in [Peers -> BOOLEAN]
    <3>1. sentBits' = sentBits \/ SendBitfield(p)
      BY DEF Handshake
    <3> QED
      BY <3>1 DEF WireInv, TypeOK, SendBitfield
  <2> QED
    BY <2>1, <2>2 DEF WireInv, TypeOK, Handshake, storage, center, admins, threads, has, history
<1>2. Alone(p)
  BY DEF WireInv, TypeOK, Handshake, SendBitfield, Alone, storage, center, admins, threads, has, history
<1>3. Told(p) /\ Kept(p) /\ Founded(p)
  BY DEF WireInv, AllTold, InterestKept, InterestFounded
<1>4. Told(p)'
  BY <1>3 DEF WireInv, TypeOK, Told, Handshake, SendBitfield, has
<1>5. Kept(p)' /\ Founded(p)'
  BY <1>3 DEF Kept, Founded, IsPieceInterest, Handshake, storage, admins, threads, has, history
<1> QED
  BY <1>1, <1>2, <1>4, <1>5, PeerKeeps DEF Own

\* A handler that closes the link and looks at nothing else.
LEMMA BadMessageStep ==
  ASSUME WireInv, NEW p \in Peers,
         BadMessage(p) \/ DoCmdNotInterested(p)
  PROVE WireInv'
<1>1. Loop(p) /\ OnClose(p, "draining", "other")
      /\ UNCHANGED <<storage, noted, claims, admins, threads, flags, has, events, skew, shown>>
  BY DEF BadMessage, DoCmdNotInterested
<1>2. TypeOK'
  BY <1>1, OnCloseTypes DEF WireInv, TypeOK, storage, admins, threads, flags, has
<1>3. Alone(p)
  BY <1>1 DEF WireInv, TypeOK, OnClose, Leave, Alone, storage, admins, threads, flags, has
<1>4. Own(p)
  BY <1>1, LeftOwn DEF Loop, OnClose, has
<1> QED
  BY <1>2, <1>3, <1>4, PeerKeeps

LEMMA DrainedStep ==
  ASSUME WireInv, NEW p \in Peers, Drained(p)
  PROVE WireInv'
<1>1. TypeOK'
  BY DEF WireInv, TypeOK, Drained, storage, center, admins, threads, flags, has, history
<1>2. Alone(p)
  BY DEF WireInv, TypeOK, Drained, Alone, storage, center, admins, threads, flags, has, history
<1>3. Own(p)
  BY DEF WireInv, TypeOK, AllTold, Own, Told, Kept, Founded, Drained, has
<1> QED
  BY <1>1, <1>2, <1>3, PeerKeeps

LEMMA CheckClosedStep ==
  ASSUME WireInv, NEW p \in Peers, CheckClosedConnection(p)
  PROVE WireInv'
<1>1. TypeOK'
  BY DEF WireInv, TypeOK, CheckClosedConnection, storage, admins, threads, history
<1>2. Alone(p)
  BY DEF WireInv, TypeOK, CheckClosedConnection, Alone, storage, admins, threads, history
<1>3. Own(p)
  BY DEF WireInv, TypeOK, Own, Told, Kept, Founded, CheckClosedConnection
<1> QED
  BY <1>1, <1>2, <1>3, PeerKeeps

----------------------------------------------------------------------------
(* What the peer tells us it has.                                          *)

LEMMA GotBitsTypes ==
  ASSUME TypeOK, NEW p \in Peers, NEW S \in SUBSET Bits, GotBits(p, S)
  PROVE /\ gotBits' \in [Peers -> BOOLEAN] /\ gotBits'[p]
        /\ bits' \in [Peers -> SUBSET Bits] /\ bits'[p] = S
        /\ noted' \subseteq Addrs
        /\ claims' \in [Addrs -> SUBSET Bits]
        /\ shown' \in [Peers -> SUBSET Bits]
        /\ \A q \in Peers \ {p} : gotBits'[q] = gotBits[q] /\ bits'[q] = bits[q]
BY DEF TypeOK, GotBits

\* What the handlers of bitfields leave as it is.
Handling == UNCHANGED <<storage, admins, threads, shaked, upload, ticks, events>>

\* A bitfield that closes the link.
LEMMA RefusedStep ==
  ASSUME WireInv, NEW p \in Peers, NEW S \in SUBSET Bits,
         NEW why \in {"honest", "other"},
         Loop(p), GotBits(p, S), Refused(p, S, why), Handling,
         sentBits' = sentBits \/ SendBitfield(p)
  PROVE WireInv'
<1> DEFINE sum == IF Draining(p) THEN SumWithout(p) ELSE Minus(SumWithout(p), S)
<1>1. sum \in [Pieces -> Nat]
  BY SumTypes DEF WireInv
<1>2. Leave(p, "draining", why, sum)
  BY DEF Refused
<1> HIDE DEF sum
<1>3. TypeOK'
  <2>1. sentBits' \in [Peers -> BOOLEAN]
    BY DEF WireInv, TypeOK, SendBitfield
  <2>2. skew' \subseteq Bits
    BY DEF WireInv, TypeOK, Refused
  <2>3. /\ link' \in [Peers -> {"none", "open", "draining", "closed"}]
        /\ reason' \in [Peers -> {"none", "honest", "other"}]
        /\ avail' \in [Pieces -> Nat]
        /\ meInt' \in [Peers -> BOOLEAN]
        /\ notices' \in [Peers -> SUBSET Pieces]
        /\ gaveUp' \subseteq Peers
        /\ repriced' \subseteq Peers
        /\ needless' \subseteq Peers
    BY <1>1, <1>2, LeaveTypes DEF WireInv
  <2> QED
    BY <2>1, <2>2, <2>3, GotBitsTypes DEF WireInv, TypeOK, Handling, storage, admins, threads
<1>4. Alone(p)
  BY <1>2, GotBitsTypes
  DEF WireInv, TypeOK, Leave, SendBitfield, Handling, Alone, storage, admins, threads
<1>5. Own(p)
  BY <1>2, GotBitsTypes, LeftOwn DEF WireInv, Loop
<1> QED
  BY <1>3, <1>4, <1>5, PeerKeeps

\* A bitfield that is handled to its end, with the interest it wins.
LEMMA CountedStep ==
  ASSUME WireInv, NEW p \in Peers, NEW S \in SUBSET Bits, NEW interest \in BOOLEAN,
         Loop(p), GotBits(p, S), Counted(p, S, interest), Handling,
         ~upload[p] /\ IsPieceInterest(S) => interest,
         needless' \in {needless \ {p}, needless \cup {p}},
         interest => IsPieceInterest(S) \/ p \in needless'
  PROVE WireInv'
<1>1. TypeOK'
  <2>1. sentBits' \in [Peers -> BOOLEAN]
    <3>1. sentBits' = sentBits \/ SendBitfield(p)
      BY DEF Counted
    <3> QED
      BY <3>1 DEF WireInv, TypeOK, SendBitfield
  <2>2. meInt' \in [Peers -> BOOLEAN]
    BY DEF WireInv, TypeOK, Counted, SendInterested
  <2>3. avail' \in [Pieces -> Nat]
    BY SumTypes DEF WireInv, Counted
  <2>4. skew' \subseteq Bits /\ gaveUp' \subseteq Peers /\ repriced' \subseteq Peers
        /\ needless' \subseteq Peers
    BY DEF WireInv, TypeOK, Counted
  <2> QED
    BY <2>1, <2>2, <2>3, <2>4, GotBitsTypes
    DEF WireInv, TypeOK, Counted, Handling, storage, admins, threads
<1>2. Alone(p)
  BY GotBitsTypes
  DEF WireInv, TypeOK, Counted, SendBitfield, SendInterested, Handling, Alone, storage, admins, threads
<1>3. link'[p] = link[p] /\ meInt'[p] = interest /\ gotBits'[p] /\ bits'[p] = S
      /\ upload' = upload /\ writing' = writing
      /\ finished' = finished /\ wanted' = wanted
  BY GotBitsTypes
  DEF WireInv, TypeOK, Counted, SendInterested, Handling, storage, admins, threads
<1>4. Told(p)'
  <2>1. Told(p) /\ shaked[p] /\ link[p] \in {"open", "draining"}
    BY DEF WireInv, AllTold, Loop
  <2>2. link[p] = "open" => sentBits'[p]
    BY <2>1 DEF WireInv, TypeOK, Told, Counted, SendBitfield
  <2>3. link'[p] # "none"
    BY <1>3, <2>1
  <2> QED
    BY <1>3, <2>2, <2>3 DEF Told
<1>5. Kept(p)'
  BY <1>3 DEF Kept, IsPieceInterest
<1>6. Founded(p)'
  BY <1>3 DEF Founded, IsPieceInterest
<1> QED
  BY <1>1, <1>2, <1>4, <1>5, <1>6, PeerKeeps DEF Own

LEMMA DoCmdBitfieldStep ==
  ASSUME WireInv, NEW p \in Peers, NEW S \in PeerSets, DoCmdBitfield(p, S)
  PROVE WireInv'
<1>1. S \in SUBSET Bits /\ Loop(p) /\ GotBits(p, S) /\ Handling
  BY DEF DoCmdBitfield, Handling
<1>2. CASE upload[p] /\ Gain(p, S) < 0
  BY <1>1, <1>2, RefusedStep DEF DoCmdBitfield
<1>3. CASE ~(upload[p] /\ Gain(p, S) < 0) /\ upload[p] /\ ~IsPeerNeedMyPiece(S)
  BY <1>1, <1>3, RefusedStep DEF DoCmdBitfield
<1>4. CASE ~(upload[p] /\ Gain(p, S) < 0) /\ ~(upload[p] /\ ~IsPeerNeedMyPiece(S))
  <2>1. Counted(p, S, ~upload[p] /\ IsPieceInterest(S)) /\ needless' = needless \ {p}
    BY <1>4 DEF DoCmdBitfield
  <2> QED
    BY <1>1, <2>1, CountedStep
<1> QED
  BY <1>2, <1>3, <1>4

\* HAVE ALL or HAVE NONE that the link does not survive.
LEMMA HaveCloses ==
  ASSUME WireInv, NEW p \in Peers, Loop(p), OnClose(p, "draining", "other"),
         UNCHANGED <<noted, claims, has, sentBits, skew, shown>>, Handling
  PROVE WireInv'
<1>1. TypeOK'
  BY OnCloseTypes DEF WireInv, TypeOK, Handling, storage, admins, threads, has
<1>2. Alone(p)
  BY DEF WireInv, TypeOK, OnClose, Leave, Handling, Alone, storage, admins, threads, has
<1>3. Own(p)
  BY LeftOwn DEF Loop, OnClose, has
<1> QED
  BY <1>1, <1>2, <1>3, PeerKeeps

LEMMA DoCmdHaveAllStep ==
  ASSUME WireInv, NEW p \in Peers, DoCmdHaveAll(p)
  PROVE WireInv'
<1>1. Loop(p) /\ Handling
  BY DEF DoCmdHaveAll, Handling
<1>2. CASE p \notin Fast \/ upload[p]
  BY <1>1, <1>2, HaveCloses DEF DoCmdHaveAll
<1>3. CASE ~(p \notin Fast \/ upload[p])
  <2>1. GotBits(p, Pieces) /\ Counted(p, Pieces, TRUE)
    BY <1>3 DEF DoCmdHaveAll
  <2>2. /\ needless' \in {needless \ {p}, needless \cup {p}}
        /\ IsPieceInterest(Pieces) \/ p \in needless'
    BY <1>3 DEF DoCmdHaveAll
  <2>3. Pieces \in SUBSET Bits
    BY DEF Bits
  <2> QED
    BY <1>1, <2>1, <2>2, <2>3, CountedStep
<1> QED
  BY <1>2, <1>3

LEMMA DoCmdHaveNoneStep ==
  ASSUME WireInv, NEW p \in Peers, DoCmdHaveNone(p)
  PROVE WireInv'
<1>1. Loop(p) /\ Handling
  BY DEF DoCmdHaveNone, Handling
<1>2. CASE p \notin Fast
  BY <1>1, <1>2, HaveCloses DEF DoCmdHaveNone
<1>3. CASE p \in Fast /\ upload[p] /\ Gain(p, {}) < 0
  BY <1>1, <1>3, RefusedStep DEF DoCmdHaveNone
<1>4. CASE p \in Fast /\ ~(upload[p] /\ Gain(p, {}) < 0)
  <2>1. GotBits(p, {}) /\ Counted(p, {}, FALSE) /\ needless' = needless \ {p}
    BY <1>4 DEF DoCmdHaveNone
  <2>2. ~IsPieceInterest({})
    BY DEF IsPieceInterest
  <2> QED
    BY <1>1, <2>1, <2>2, CountedStep
<1> QED
  BY <1>2, <1>3, <1>4

LEMMA DoCmdHaveStep ==
  ASSUME WireInv, NEW p \in Peers, NEW i \in Pieces, DoCmdHave(p, i)
  PROVE WireInv'
<1>1. TypeOK'
  <2>1. avail' \in [Pieces -> Nat]
    BY SumTypes DEF WireInv, DoCmdHave, HaveNew
  <2>2. /\ gotBits' \in [Peers -> BOOLEAN] /\ bits' \in [Peers -> SUBSET Bits]
        /\ shown' \in [Peers -> SUBSET Bits] /\ skew' \subseteq Bits
    BY DEF WireInv, TypeOK, DoCmdHave, HaveNew, Bits
  <2>3. sentBits' \in [Peers -> BOOLEAN] /\ claims' \in [Addrs -> SUBSET Bits]
    <3>1. sentBits' = sentBits \/ SendBitfield(p)
      BY DEF DoCmdHave
    <3>2. claims' \in [Addrs -> SUBSET Bits]
      BY DEF WireInv, TypeOK, DoCmdHave, Bits
    <3> QED
      BY <3>1, <3>2 DEF WireInv, TypeOK, SendBitfield
  <2>4. meInt' \in [Peers -> BOOLEAN]
    BY DEF WireInv, TypeOK, DoCmdHave, SendInterested, IsPieceInterest
  <2>5. gaveUp' \subseteq Peers
    BY DEF WireInv, TypeOK, DoCmdHave
  <2> QED
    BY <2>1, <2>2, <2>3, <2>4, <2>5 DEF WireInv, TypeOK, DoCmdHave, storage, admins, threads
<1>2. Alone(p)
  BY DEF WireInv, TypeOK, DoCmdHave, HaveNew, SendBitfield, SendInterested, Alone,
         storage, admins, threads
<1>3. Told(p) /\ Kept(p) /\ Founded(p)
  BY DEF WireInv, AllTold, InterestKept, InterestFounded
<1>4. /\ link' = link /\ shaked' = shaked /\ upload' = upload /\ needless' = needless
      /\ writing' = writing /\ notices' = notices /\ repriced' = repriced
      /\ finished' = finished /\ wanted' = wanted
      /\ gotBits'[p] /\ bits'[p] = bits[p] \cup {i}
      /\ meInt'[p] = (meInt[p] \/ IsPieceInterest({i}))
  BY DEF WireInv, TypeOK, DoCmdHave, HaveNew, SendInterested, storage, admins, threads
<1>5. link[p] # "none"
  BY DEF DoCmdHave, Loop
<1>6. Told(p)'
  <2>1. sentBits'[p] \/ (gotBits[p] /\ sentBits' = sentBits)
    BY DEF WireInv, TypeOK, DoCmdHave, SendBitfield
  <2> QED
    BY <1>3, <1>4, <1>5, <2>1 DEF Told
<1>7. Kept(p)'
  <2> SUFFICES ASSUME link[p] = "open", ~upload[p], IsPieceInterest(bits[p] \cup {i}),
                      ~meInt'[p], p \notin repriced
               PROVE  p \in gaveUp'
    BY <1>4 DEF Kept, IsPieceInterest
  <2>1. ~meInt[p] /\ ~IsPieceInterest({i})
    BY <1>4
  <2>2. IsPieceInterest(bits[p])
    BY <2>1 DEF IsPieceInterest
  <2>3. gotBits[p]
    BY <1>3, <2>2 DEF Told, IsPieceInterest
  <2>4. p \in gaveUp
    BY <1>3, <2>1, <2>2, <2>3 DEF Kept
  <2> QED
    BY <2>4 DEF DoCmdHave
<1>8. Founded(p)'
  BY <1>3, <1>4 DEF Founded, IsPieceInterest
<1> QED
  BY <1>1, <1>2, <1>6, <1>7, <1>8, PeerKeeps DEF Own

----------------------------------------------------------------------------
(* The timers of a peer, and its turn to ask for a piece.                  *)

LEMMA NoticeStep ==
  ASSUME WireInv, NEW p \in Peers, NoticeNewHavePiece(p)
  PROVE WireInv'
<1>1. TypeOK'
  BY DEF WireInv, TypeOK, NoticeNewHavePiece, SendInterested, IsPieceInterest,
         storage, center, admins, threads, flags, has, history
<1>2. Alone(p)
  BY DEF WireInv, TypeOK, NoticeNewHavePiece, SendInterested, Alone,
         storage, center, admins, threads, flags, has, history
<1>3. Told(p) /\ Kept(p)
  BY DEF WireInv, AllTold, InterestKept
<1>4. meInt'[p] = (meInt[p] /\ IsPieceInterest(bits[p]))
  BY DEF WireInv, TypeOK, NoticeNewHavePiece, SendInterested
<1>5. Own(p)
  BY <1>3, <1>4 DEF Own, Told, Kept, Founded, IsPieceInterest, NoticeNewHavePiece,
                    storage, admins, threads, flags, has, history
<1> QED
  BY <1>1, <1>2, <1>5, PeerKeeps

LEMMA OnTimerStep ==
  ASSUME WireInv, NEW p \in Peers, OnTimer(p)
  PROVE WireInv'
<1> DEFINE rest == UNCHANGED <<link, reason, avail, meInt, notices, gaveUp, repriced, needless>>
<1>1. OnClose(p, "closed", "other") \/ rest
  BY DEF OnTimer
<1>2. TypeOK'
  <2>1. ticks' \in [Peers -> 0 .. 3]
    BY DEF WireInv, TypeOK, OnTimer
  <2>2. CASE OnClose(p, "closed", "other")
    BY <2>1, <2>2, OnCloseTypes DEF WireInv, TypeOK, OnTimer, storage, admins, threads, has
  <2>3. CASE rest
    BY <2>1, <2>3 DEF WireInv, TypeOK, OnTimer, storage, admins, threads, has
  <2> QED
    BY <1>1, <2>2, <2>3
<1>3. Alone(p)
  <2>1. CASE OnClose(p, "closed", "other")
    BY <2>1 DEF WireInv, TypeOK, OnClose, Leave, OnTimer, Alone, storage, admins, threads, has
  <2>2. CASE rest
    BY <2>2 DEF OnTimer, Alone, storage, admins, threads, has
  <2> QED
    BY <1>1, <2>1, <2>2
<1>4. Own(p)
  <2>1. CASE OnClose(p, "closed", "other")
    BY <2>1, LeftOwn DEF OnTimer, OnClose, has
  <2>2. CASE rest
    <3>1. Told(p) /\ Kept(p) /\ Founded(p)
      BY DEF WireInv, AllTold, InterestKept, InterestFounded
    <3> QED
      BY <2>2, <3>1 DEF Own, Told, Kept, Founded, IsPieceInterest, OnTimer, storage, admins, threads, has
  <2> QED
    BY <1>1, <2>1, <2>2
<1> QED
  BY <1>2, <1>3, <1>4, PeerKeeps

LEMMA CheckMyRequestStep ==
  ASSUME WireInv, NEW p \in Peers, CheckMyRequest(p)
  PROVE WireInv'
<1>1. TypeOK'
  BY DEF WireInv, TypeOK, CheckMyRequest, SendInterested,
         storage, center, admins, threads, flags, has
<1>2. Alone(p)
  BY DEF WireInv, TypeOK, CheckMyRequest, SendInterested, Alone,
         storage, center, admins, threads, flags, has
<1>3. Told(p)
  BY DEF WireInv, AllTold
<1>4. meInt'[p] = FALSE /\ p \in gaveUp'
  BY DEF WireInv, TypeOK, CheckMyRequest, SendInterested
<1>5. Own(p)
  BY <1>3, <1>4 DEF Own, Told, Kept, Founded, CheckMyRequest, flags, has
<1> QED
  BY <1>1, <1>2, <1>5, PeerKeeps

\* Every step of a peer.
LEMMA PeerStepKeeps ==
  ASSUME WireInv, NEW p \in Peers, PeerStep(p)
  PROVE WireInv'
<1>1. CASE Open(p)
  BY <1>1, OpenStep
<1>2. CASE Handshake(p)
  BY <1>2, HandshakeStep
<1>3. CASE \/ DoRead(p) \/ DoCmdWrite(p) \/ BadHandshake(p) \/ CloseInterestedPeer(p)
           \/ CloseNotInterestPeer(p) \/ CloseTimeoutConnection(p) \/ NotActive(p)
  <2>1. End(p)
    BY <1>3 DEF DoRead, DoCmdWrite, BadHandshake, CloseInterestedPeer, CloseNotInterestPeer,
                CloseTimeoutConnection, NotActive
  <2> QED
    BY <2>1, EndStep
<1>4. CASE BadMessage(p) \/ DoCmdNotInterested(p)
  BY <1>4, BadMessageStep
<1>5. CASE Drained(p)
  BY <1>5, DrainedStep
<1>6. CASE CheckClosedConnection(p)
  BY <1>6, CheckClosedStep
<1>7. CASE \E S \in PeerSets : DoCmdBitfield(p, S)
  BY <1>7, DoCmdBitfieldStep
<1>8. CASE DoCmdHaveAll(p)
  BY <1>8, DoCmdHaveAllStep
<1>9. CASE DoCmdHaveNone(p)
  BY <1>9, DoCmdHaveNoneStep
<1>10. CASE \E i \in Pieces : DoCmdHave(p, i)
  BY <1>10, DoCmdHaveStep
<1>11. CASE NoticeNewHavePiece(p)
  BY <1>11, NoticeStep
<1>12. CASE OnTimer(p)
  BY <1>12, OnTimerStep
<1>13. CASE CheckMyRequest(p)
  BY <1>13, CheckMyRequestStep
<1> QED
  BY <1>1, <1>2, <1>3, <1>4, <1>5, <1>6, <1>7, <1>8, <1>9, <1>10, <1>11, <1>12, <1>13 DEF PeerStep

----------------------------------------------------------------------------
(* The download changes.                                                   *)

LEMMA WritePieceStep ==
  ASSUME WireInv, NEW s \in Sessions, NEW i \in Pieces, WritePiece(s, i)
  PROVE WireInv'
<1>1. TypeOK'
  BY DEF WireInv, TypeOK, WritePiece, center, admins, flags, has, history
<1>2. writing'[s] # NoPiece
  BY DEF WireInv, TypeOK, WritePiece
<1>3. AllTold'
  BY DEF WireInv, AllTold, Told, WritePiece, flags, has
<1>4. InterestKept'
  BY DEF WireInv, InterestKept, Kept, IsPieceInterest, WritePiece, flags, has, history
<1>5. InterestFounded'
  BY <1>2 DEF InterestFounded, Founded
<1> QED
  BY <1>1, <1>3, <1>4, <1>5 DEF WireInv

LEMMA BroadcastStep ==
  ASSUME WireInv, NEW s \in Sessions, BroadcastHavePiece(s)
  PROVE WireInv'
<1>1. writing[s] \in Pieces
  BY DEF WireInv, TypeOK, BroadcastHavePiece
<1>2. TypeOK'
  <2>1. notices' \in [Peers -> SUBSET Pieces]
    BY <1>1 DEF WireInv, TypeOK, BroadcastHavePiece
  <2>2. writing' \in [Sessions -> Pieces \cup {NoPiece}]
    BY DEF WireInv, TypeOK, BroadcastHavePiece
  <2> QED
    BY <2>1, <2>2
    DEF WireInv, TypeOK, BroadcastHavePiece, storage, center, admins, flags, has, history
<1>3. AllTold'
  BY DEF WireInv, AllTold, Told, BroadcastHavePiece, flags, has
<1>4. InterestKept'
  BY DEF WireInv, InterestKept, Kept, IsPieceInterest, BroadcastHavePiece, storage, flags,
         has, history
\* We told nobody of our interest who has not our bitfield: each gets the notice.
<1>5. InterestFounded'
  <2> SUFFICES ASSUME NEW p \in Peers, link[p] = "open", meInt[p]
               PROVE  notices'[p] # {}
    BY DEF InterestFounded, Founded, BroadcastHavePiece
  <2>1. sentBits[p]
    BY DEF WireInv, AllTold, Told
  <2> QED
    BY <2>1 DEF BroadcastHavePiece
<1> QED
  BY <1>2, <1>3, <1>4, <1>5 DEF WireInv

\* The priorities are cleared, or one of them is set.
LEMMA AdjustStep ==
  ASSUME WireInv, \/ \E w \in Wishes : AdjustFilePriority(w)
                  \/ \E i \in Pieces : FillPriority(i)
  PROVE WireInv'
<1>1. /\ wanted' \subseteq Pieces /\ filling' \subseteq Pieces /\ events' \in 0 .. MaxEvents
      /\ repriced' = OpenPeers
      /\ UNCHANGED <<finished, center, admins, writing, switching, link, reason, flags,
                     has, notices, meInt, skew, gaveUp, needless, shown>>
  <2>1. CASE \E w \in Wishes : AdjustFilePriority(w)
    BY <2>1 DEF WireInv, TypeOK, AdjustFilePriority
  <2>2. CASE \E i \in Pieces : FillPriority(i)
    BY <2>2 DEF WireInv, TypeOK, FillPriority
  <2> QED
    BY <2>1, <2>2
<1>2. TypeOK'
  BY <1>1 DEF WireInv, TypeOK, OpenPeers, center, admins, flags, has
<1>3. AllTold'
  BY <1>1 DEF WireInv, AllTold, Told, flags, has
<1>4. InterestKept' /\ InterestFounded'
  BY <1>1 DEF InterestKept, Kept, InterestFounded, Founded, OpenPeers
<1> QED
  BY <1>2, <1>3, <1>4 DEF WireInv

\* What a session is told of its mode, and the end of SwitchMode, matter to no peer.
LEMMA ModeStep ==
  ASSUME WireInv, NEW s \in Sessions, DownloadFinish(s) \/ SetMode(s) \/ EndSwitch(s)
  PROVE WireInv'
<1>1. UNCHANGED <<storage, center, writing, filling, link, reason, flags, has, notices,
                 meInt, history>>
  BY DEF DownloadFinish, SetMode, EndSwitch, threads
<1>2. /\ mode' \in [Sessions -> BOOLEAN] /\ switch' \in [Sessions -> BOOLEAN]
      /\ raised' \subseteq Sessions /\ switching' \subseteq Sessions
      /\ events' \in 0 .. MaxEvents
  <2>1. CASE DownloadFinish(s)
    BY <2>1 DEF WireInv, TypeOK, DownloadFinish, threads
  <2>2. CASE SetMode(s)
    <3>1. mode' = [mode EXCEPT ![s] = TRUE] \/ mode' = [mode EXCEPT ![s] = FALSE]
      BY <2>2, Zenon DEF WireInv, TypeOK, SetMode
    <3>2. mode' \in [Sessions -> BOOLEAN]
      BY <3>1 DEF WireInv, TypeOK
    <3> QED
      BY <2>2, <3>2 DEF WireInv, TypeOK, SetMode, threads
  <2>3. CASE EndSwitch(s)
    BY <2>3 DEF WireInv, TypeOK, EndSwitch
  <2> QED
    BY <2>1, <2>2, <2>3
<1>3. TypeOK'
  BY <1>1, <1>2 DEF WireInv, TypeOK, storage, center, flags, has, history
<1>4. AllTold'
  BY <1>1 DEF WireInv, AllTold, Told, flags, has
<1>5. InterestKept' /\ InterestFounded'
  BY <1>1 DEF WireInv, InterestKept, Kept, InterestFounded, Founded, IsPieceInterest,
              storage, flags, has, history
<1> QED
  BY <1>3, <1>4, <1>5 DEF WireInv

LEMMA SwitchModeStep ==
  ASSUME WireInv, NEW s \in Sessions, SwitchMode(s)
  PROVE WireInv'
<1> DEFINE members == {p \in Peers : SessionOf[p] = s /\ link[p] = "open"}
           told == {p \in members : gotBits[p]}
<1>1. PICK C \in SUBSET told :
        /\ link' = [p \in Peers |-> IF p \in C THEN "closed" ELSE link[p]]
        /\ reason' = [p \in Peers |-> IF p \in C THEN "other" ELSE reason[p]]
        /\ notices' = [p \in Peers |-> IF p \in C THEN {} ELSE notices[p]]
        /\ avail' = MinusAll(C)
        /\ gaveUp' = gaveUp \ told
        /\ repriced' = repriced \ told
        /\ needless' = needless \ told
  BY DEF SwitchMode
<1>2. /\ upload' = [p \in Peers |-> IF p \in members THEN mode[s] ELSE upload[p]]
      /\ meInt' = [p \in Peers |-> IF p \in told THEN ~mode[s] /\ IsPieceInterest(bits[p])
                                    ELSE meInt[p]]
      /\ switching' = switching \cup {s}
      /\ UNCHANGED <<storage, noted, claims, admins, writing, filling, shaked,
                      sentBits, ticks, has, events, skew, shown>>
  BY DEF SwitchMode
<1>3. TypeOK'
  <2>1. avail' \in [Pieces -> Nat]
    BY <1>1, MinusAllType DEF WireInv
  <2>2. /\ link' \in [Peers -> {"none", "open", "draining", "closed"}]
        /\ reason' \in [Peers -> {"none", "honest", "other"}]
        /\ notices' \in [Peers -> SUBSET Pieces]
        /\ gaveUp' \subseteq Peers /\ repriced' \subseteq Peers /\ needless' \subseteq Peers
    BY <1>1 DEF WireInv, TypeOK
  <2>3. upload' \in [Peers -> BOOLEAN] /\ meInt' \in [Peers -> BOOLEAN]
    BY <1>2 DEF WireInv, TypeOK, IsPieceInterest
  <2> QED
    BY <1>2, <2>1, <2>2, <2>3 DEF WireInv, TypeOK, storage, admins, has
<1>4. ASSUME NEW p \in Peers
      PROVE  Told(p)' /\ Kept(p)' /\ Founded(p)'
  <2>1. Told(p) /\ Kept(p) /\ Founded(p)
    BY DEF WireInv, AllTold, InterestKept, InterestFounded
  <2>2. CASE p \in C
    <3>1. link'[p] = "closed"
      BY <1>1, <2>2
    <3> QED
      BY <1>2, <2>1, <2>2, <3>1 DEF Told, Kept, Founded, has
  <2>3. CASE p \in told \ C
    <3>1. link'[p] = "open" /\ upload'[p] = mode[s] /\ SessionOf[p] = s /\ gotBits[p]
          /\ meInt'[p] = (~mode[s] /\ IsPieceInterest(bits[p]))
      BY <1>1, <1>2, <2>3
    <3> QED
      BY <1>2, <2>1, <2>3, <3>1 DEF Told, Kept, Founded, IsPieceInterest, storage, has
  <2>4. CASE p \in members \ told
    <3>1. link[p] = "open" /\ ~gotBits[p] /\ ~meInt[p] /\ link'[p] = "open" /\ meInt'[p] = meInt[p]
      BY <1>1, <1>2, <2>1, <2>4 DEF Told
    <3> QED
      BY <1>2, <2>1, <3>1 DEF Told, Kept, Founded, has
  <2>5. CASE p \notin members
    <3>1. /\ link'[p] = link[p] /\ upload'[p] = upload[p] /\ meInt'[p] = meInt[p]
          /\ notices'[p] = notices[p]
          /\ p \in gaveUp' <=> p \in gaveUp
          /\ p \in repriced' <=> p \in repriced
          /\ p \in needless' <=> p \in needless
      BY <1>1, <1>2, <2>5
    <3> QED
      BY <1>2, <2>1, <3>1 DEF Told, Kept, Founded, IsPieceInterest, storage, has
  <2> QED
    BY <2>2, <2>3, <2>4, <2>5
<1> QED
  BY <1>3, <1>4 DEF WireInv, AllTold, InterestKept, InterestFounded

LEMMA StepInv == WireInv /\ [Next]_vars => WireInv'
<1> SUFFICES ASSUME WireInv, [Next]_vars PROVE WireInv'
  OBVIOUS
<1>1. ASSUME NEW p \in Peers, PeerStep(p) PROVE WireInv'
  BY <1>1, PeerStepKeeps
<1>2. ASSUME NEW s \in Sessions, SessionStep(s) PROVE WireInv'
  BY <1>2, WritePieceStep, BroadcastStep, SwitchModeStep, ModeStep DEF SessionStep
<1>3. ASSUME \/ \E w \in Wishes : AdjustFilePriority(w)
             \/ \E i \in Pieces : FillPriority(i)
      PROVE WireInv'
  BY <1>3, AdjustStep
<1>4. CASE UNCHANGED vars
  <2>1. TypeOK'
    BY <1>4 DEF WireInv, TypeOK, vars, storage, center, admins, threads, flags, has, history
  <2>2. AllTold'
    BY <1>4 DEF WireInv, AllTold, Told, vars, storage, admins, threads, flags, has
  <2>3. InterestKept' /\ InterestFounded'
    BY <1>4 DEF WireInv, InterestKept, Kept, InterestFounded, Founded, IsPieceInterest, vars,
                storage, admins, threads, flags, has, history
  <2> QED
    BY <2>1, <2>2, <2>3 DEF WireInv
<1> QED
  BY <1>1, <1>2, <1>3, <1>4 DEF Next

\* Whoever changes the bitfields and the priorities, and in whatever order the
\* handlers, the timers, WritePiece and SwitchMode run: the interest we show a
\* peer (m_bMeInterestPeer) rests on a piece it has and we want, or will be
\* looked at again, and a peer that has one keeps our interest.
THEOREM WireHolds == Spec => []WireInv
<1>1. Init => WireInv
  BY InitInv
<1>2. WireInv /\ [Next]_vars => WireInv'
  BY StepInv
<1> QED
  BY <1>1, <1>2, PTL DEF Spec
----------------------------------------------------------------------------
(* The sum of the bitfields: a step of p changes it by what p has, before  *)
(* and after.                                                              *)

Has(p, i) == link[p] = "open" /\ gotBits[p] /\ i \in bits[p]
Havers(i) == {p \in Peers : Has(p, i)}
Others(i, p) == Havers(i) \ {p}

\* The sums of the pieces no late message has touched, which AvailExact is about.
LEMMA AvailHavers == AvailExact <=> \A i \in Pieces \ skew : avail[i] = Cardinality(Havers(i))
BY DEF AvailExact, Havers, Has

LEMMA HaversFinite == \A i : IsFiniteSet(Havers(i)) /\ Cardinality(Havers(i)) \in Nat
<1> TAKE i
<1>1. Havers(i) \in SUBSET Peers
  BY DEF Havers
<1> QED
  BY <1>1, FS_Subset, FS_CardinalityType

LEMMA CountWithout ==
  ASSUME NEW p \in Peers, NEW i
  PROVE  /\ Cardinality(Others(i, p)) \in Nat
         /\ Cardinality(Havers(i)) =
                Cardinality(Others(i, p)) + (IF Has(p, i) THEN 1 ELSE 0)
<1>1. IsFiniteSet(Havers(i)) /\ Cardinality(Havers(i)) \in Nat
  BY HaversFinite
<1>2. IsFiniteSet(Others(i, p)) /\ Cardinality(Others(i, p)) \in Nat
  BY <1>1, FS_RemoveElement, FS_CardinalityType DEF Others
<1>3. p \in Havers(i) <=> Has(p, i)
  BY DEF Havers
<1>4. Cardinality(Others(i, p)) =
        IF p \in Havers(i) THEN Cardinality(Havers(i)) - 1 ELSE Cardinality(Havers(i))
  BY <1>1, FS_RemoveElement DEF Others
<1> QED
  BY <1>1, <1>2, <1>3, <1>4

\* A piece of p is in the sum.
LEMMA InSum ==
  ASSUME WireInv, AvailExact, NEW p \in Peers, NEW i \in Pieces \ skew, Has(p, i)
  PROVE  avail[i] > 0
BY AvailHavers, CountWithout

\* The part of the other peers that the sum depends on.
Elsewhere(p) == \A q \in Peers \ {p} :
                    link'[q] = link[q] /\ gotBits'[q] = gotBits[q] /\ bits'[q] = bits[q]

LEMMA OthersStay ==
  ASSUME NEW p \in Peers, Elsewhere(p), NEW i
  PROVE  Others(i, p)' = Others(i, p)
BY DEF Others, Havers, Has, Elsewhere

LEMMA SumMoves ==
  ASSUME WireInv, AvailExact, NEW p \in Peers, Elsewhere(p), skew \subseteq skew',
         \A i \in Pieces \ skew' :
            avail'[i] = avail[i] - (IF Has(p, i) THEN 1 ELSE 0)
                                 + (IF Has(p, i)' THEN 1 ELSE 0)
  PROVE  AvailExact'
<1> SUFFICES ASSUME NEW i \in Pieces \ skew' PROVE avail'[i] = Cardinality(Havers(i)')
  BY DEF AvailExact, Havers, Has
<1>1. avail[i] = Cardinality(Havers(i))
  BY AvailHavers
<1>2. /\ Cardinality(Others(i, p)) \in Nat
      /\ Cardinality(Havers(i)) = Cardinality(Others(i, p)) + (IF Has(p, i) THEN 1 ELSE 0)
  BY CountWithout
<1>3. Cardinality(Havers(i)') = Cardinality(Others(i, p)') + (IF Has(p, i)' THEN 1 ELSE 0)
  <2>1. Havers(i)' = IF Has(p, i)' THEN Others(i, p)' \cup {p} ELSE Others(i, p)'
    BY DEF Havers, Others
  <2>2. IsFiniteSet(Others(i, p)') /\ p \notin Others(i, p)'
    <3>1. IsFiniteSet(Others(i, p))
      BY HaversFinite, FS_RemoveElement DEF Others
    <3> QED
      BY <3>1, OthersStay DEF Others
  <2>3. Cardinality(Others(i, p)') \in Nat
    BY <2>2, FS_CardinalityType
  <2>4. Cardinality(Others(i, p)' \cup {p}) = Cardinality(Others(i, p)') + 1
    BY <2>2, FS_AddElement
  <2> QED
    BY <2>1, <2>3, <2>4
<1>4. Others(i, p)' = Others(i, p)
  BY OthersStay
<1> QED
  BY <1>1, <1>2, <1>3, <1>4

\* A step that moves nothing the sum depends on.
LEMMA SumStays ==
  ASSUME AvailExact, UNCHANGED <<avail, link, has, skew>>
  PROVE  AvailExact'
<1> SUFFICES ASSUME NEW i \in Pieces \ skew PROVE avail'[i] = Cardinality(Havers(i)')
  BY DEF AvailExact, Havers, Has
<1>1. Havers(i)' = Havers(i)
  BY DEF Havers, Has, has
<1>2. avail[i] = Cardinality(Havers(i))
  BY AvailHavers
<1> QED
  BY <1>1, <1>2

\* SumWithout takes out what p has.
LEMMA WithoutRight ==
  ASSUME WireInv, AvailExact, NEW p \in Peers, NEW i \in Pieces
  PROVE  /\ SumWithout(p)[i] \in Nat
         /\ link[p] = "open" /\ i \notin skew =>
                SumWithout(p)[i] = avail[i] - (IF Has(p, i) THEN 1 ELSE 0)
         /\ i \notin bits[p] => SumWithout(p)[i] = avail[i]
<1>1. avail \in [Pieces -> Nat] /\ SumWithout(p) \in [Pieces -> Nat]
  BY SumTypes DEF WireInv, TypeOK
<1>2. i \notin bits[p] => SumWithout(p)[i] = avail[i]
  BY <1>1 DEF SumWithout, Minus
<1>3. ASSUME link[p] = "open", i \notin skew
      PROVE  SumWithout(p)[i] = avail[i] - (IF Has(p, i) THEN 1 ELSE 0)
  <2>1. Has(p, i) => avail[i] > 0
    BY <1>3, InSum
  <2> QED
    BY <1>1, <1>3, <2>1 DEF SumWithout, Minus, Has
<1> QED
  BY <1>1, <1>2, <1>3

\* A handler that closes the link takes the bitfield out, once.
LEMMA OnCloseSum ==
  ASSUME WireInv, AvailExact, NEW p \in Peers, link[p] \in {"open", "draining"},
         NEW to \in {"draining", "closed"}, NEW why, OnClose(p, to, why),
         UNCHANGED <<has, skew>>
  PROVE  AvailExact'
<1>1. Elsewhere(p) /\ link'[p] \in {"draining", "closed"}
  BY DEF WireInv, TypeOK, OnClose, Leave, Elsewhere, has
<1>2. avail' = IF link[p] = "open" THEN SumWithout(p) ELSE avail
  BY DEF OnClose, Leave
<1>3. ASSUME NEW i \in Pieces \ skew'
      PROVE  avail'[i] = avail[i] - (IF Has(p, i) THEN 1 ELSE 0)
                                  + (IF Has(p, i)' THEN 1 ELSE 0)
  <2>1. ~Has(p, i)'
    BY <1>1 DEF Has
  <2>2. avail[i] \in Nat
    BY DEF WireInv, TypeOK
  <2>3. CASE link[p] = "open"
    BY <1>2, <2>1, <2>2, <2>3, WithoutRight
  <2>4. CASE link[p] # "open"
    BY <1>2, <2>1, <2>2, <2>4 DEF Has
  <2> QED
    BY <2>3, <2>4
<1> QED
  BY <1>1, <1>3, SumMoves

\* A link that is not open before nor after, or opens without a bitfield.
LEMMA UncountedSum ==
  ASSUME WireInv, AvailExact, NEW p \in Peers, Elsewhere(p), UNCHANGED <<avail, skew>>,
         \A i \in Pieces : ~Has(p, i) /\ ~Has(p, i)'
  PROVE  AvailExact'
<1>1. ASSUME NEW i \in Pieces \ skew'
      PROVE  avail'[i] = avail[i] - (IF Has(p, i) THEN 1 ELSE 0)
                                  + (IF Has(p, i)' THEN 1 ELSE 0)
  BY DEF WireInv, TypeOK
<1> QED
  BY <1>1, SumMoves

LEMMA RefusedSum ==
  ASSUME WireInv, AvailExact, NEW p \in Peers, NEW S \in SUBSET Bits, NEW why,
         Loop(p), GotBits(p, S), Refused(p, S, why)
  PROVE  AvailExact'
<1>1. Elsewhere(p) /\ link'[p] = "draining"
  BY GotBitsTypes DEF WireInv, TypeOK, Loop, Refused, Leave, Elsewhere
<1>2. avail' = IF Draining(p) THEN SumWithout(p) ELSE Minus(SumWithout(p), S)
  BY DEF Refused, Leave
<1>3. ASSUME NEW i \in Pieces \ skew'
      PROVE  avail'[i] = avail[i] - (IF Has(p, i) THEN 1 ELSE 0)
                                  + (IF Has(p, i)' THEN 1 ELSE 0)
  <2>1. ~Has(p, i)' /\ avail[i] \in Nat /\ i \notin skew
    BY <1>1 DEF WireInv, TypeOK, Has, Refused
  <2>2. CASE Draining(p)
    <3>1. i \notin bits[p] /\ ~Has(p, i)
      BY <2>2 DEF Refused, Has, Draining
    <3> QED
      BY <1>2, <2>1, <2>2, <3>1, WithoutRight
  <2>3. CASE ~Draining(p)
    <3>1. i \notin S /\ link[p] = "open"
      BY <2>3 DEF Refused, Draining, Loop
    <3>2. avail'[i] = SumWithout(p)[i]
      BY <1>2, <2>3, <3>1 DEF Minus
    <3> QED
      BY <2>1, <3>1, <3>2, WithoutRight
  <2> QED
    BY <2>2, <2>3
<1>4. skew \subseteq skew'
  BY DEF Refused
<1> QED
  BY <1>1, <1>3, <1>4, SumMoves

LEMMA CountedSum ==
  ASSUME WireInv, AvailExact, NEW p \in Peers, NEW S \in SUBSET Bits, NEW interest,
         Loop(p), GotBits(p, S), Counted(p, S, interest)
  PROVE  AvailExact'
<1>1. Elsewhere(p) /\ link' = link /\ gotBits'[p] /\ bits'[p] = S
  BY GotBitsTypes DEF WireInv, Counted, Elsewhere
<1>2. ASSUME NEW i \in Pieces \ skew'
      PROVE  avail'[i] = avail[i] - (IF Has(p, i) THEN 1 ELSE 0)
                                  + (IF Has(p, i)' THEN 1 ELSE 0)
  <2>1. avail'[i] = SumWithout(p)[i] + (IF i \in S THEN 1 ELSE 0)
    BY DEF Counted
  <2>2. avail[i] \in Nat /\ i \notin skew /\ SumWithout(p)[i] \in Nat
    BY WithoutRight DEF WireInv, TypeOK, Counted
  <2>3. CASE Draining(p)
    <3>1. i \notin bits[p] /\ i \notin S /\ ~Has(p, i) /\ ~Has(p, i)'
      BY <1>1, <2>3 DEF Counted, Has, Draining
    <3> QED
      BY <2>1, <2>2, <3>1, WithoutRight
  <2>4. CASE ~Draining(p)
    <3>1. link[p] = "open"
      BY <2>4 DEF Draining, Loop
    <3>2. Has(p, i)' <=> i \in S
      BY <1>1, <3>1 DEF Has
    <3> QED
      BY <2>1, <2>2, <3>1, <3>2, WithoutRight
  <2> QED
    BY <2>3, <2>4
<1>3. skew \subseteq skew'
  BY DEF Counted
<1> QED
  BY <1>1, <1>2, <1>3, SumMoves

LEMMA DoCmdBitfieldSum ==
  ASSUME WireInv, AvailExact, NEW p \in Peers, NEW S \in PeerSets, DoCmdBitfield(p, S)
  PROVE  AvailExact'
<1>1. S \in SUBSET Bits /\ Loop(p) /\ GotBits(p, S)
  BY DEF DoCmdBitfield
<1>2. CASE \E why \in {"honest", "other"} : Refused(p, S, why)
  BY <1>1, <1>2, RefusedSum
<1>3. CASE Counted(p, S, ~upload[p] /\ IsPieceInterest(S))
  BY <1>1, <1>3, CountedSum
<1> QED
  BY <1>2, <1>3 DEF DoCmdBitfield

\* HAVE ALL and HAVE NONE, with what they stand for.
LEMMA DoCmdHaveAllSum ==
  ASSUME WireInv, AvailExact, NEW p \in Peers, DoCmdHaveAll(p) \/ DoCmdHaveNone(p)
  PROVE  AvailExact'
<1>1. Loop(p)
  BY DEF DoCmdHaveAll, DoCmdHaveNone
<1>2. CASE OnClose(p, "draining", "other") /\ UNCHANGED <<has, skew>>
  BY <1>1, <1>2, OnCloseSum DEF Loop
<1>3. CASE GotBits(p, Pieces) /\ Counted(p, Pieces, TRUE)
  <2>1. Pieces \in SUBSET Bits
    BY DEF Bits
  <2> QED
    BY <1>1, <1>3, <2>1, CountedSum
<1>4. CASE GotBits(p, {}) /\ Refused(p, {}, "honest")
  BY <1>1, <1>4, RefusedSum
<1>5. CASE GotBits(p, {}) /\ Counted(p, {}, FALSE)
  BY <1>1, <1>5, CountedSum
<1> QED
  BY <1>2, <1>3, <1>4, <1>5 DEF DoCmdHaveAll, DoCmdHaveNone

LEMMA DoCmdHaveSum ==
  ASSUME WireInv, AvailExact, NEW p \in Peers, NEW j \in Pieces, DoCmdHave(p, j)
  PROVE  AvailExact'
<1>1. /\ Elsewhere(p) /\ link' = link /\ gotBits'[p] /\ bits'[p] = bits[p] \cup {j}
      /\ avail' = SumPlus({j}) /\ skew \subseteq skew'
  BY DEF WireInv, TypeOK, DoCmdHave, HaveNew, Elsewhere
<1>2. j \notin bits[p]
  BY DEF WireInv, AllTold, Told, DoCmdHave
<1>3. ASSUME NEW i \in Pieces \ skew'
      PROVE  avail'[i] = avail[i] - (IF Has(p, i) THEN 1 ELSE 0)
                                  + (IF Has(p, i)' THEN 1 ELSE 0)
  <2>1. avail[i] \in Nat /\ avail'[i] = IF i = j THEN avail[i] + 1 ELSE avail[i]
    BY <1>1 DEF WireInv, TypeOK, SumPlus
  <2>2. CASE Draining(p)
    <3>1. i # j /\ ~Has(p, i) /\ ~Has(p, i)'
      BY <1>1, <2>2 DEF DoCmdHave, HaveNew, Draining, Has
    <3> QED
      BY <2>1, <3>1
  <2>3. CASE ~Draining(p)
    <3>1. link[p] = "open" /\ (~gotBits[p] => bits[p] = {})
      BY <2>3 DEF WireInv, AllTold, Told, DoCmdHave, Loop, Draining
    <3>2. Has(p, i)' <=> i = j \/ Has(p, i)
      BY <1>1, <3>1 DEF Has
    <3>3. ~Has(p, j)
      BY <1>2 DEF Has
    <3> QED
      BY <2>1, <3>2, <3>3
  <2> QED
    BY <2>2, <2>3
<1> QED
  BY <1>1, <1>3, SumMoves

\* Every step of a peer.
LEMMA PeerStepSum ==
  ASSUME WireInv, AvailExact, NEW p \in Peers, PeerStep(p)
  PROVE  AvailExact'
<1>1. CASE Open(p)
  <2>1. Elsewhere(p) /\ UNCHANGED <<avail, skew>>
    BY <1>1 DEF WireInv, TypeOK, Open, Elsewhere, center, has, history
  <2>2. ~gotBits[p] /\ ~gotBits'[p]
    BY <1>1 DEF WireInv, AllTold, Told, Open, has
  <2> QED
    BY <2>1, <2>2, UncountedSum DEF Has
<1>2. CASE End(p) \/ BadMessage(p) \/ DoCmdNotInterested(p)
  BY <1>2, OnCloseSum DEF End, BadMessage, DoCmdNotInterested, Loop
<1>3. CASE Drained(p)
  BY <1>3, UncountedSum DEF WireInv, TypeOK, Drained, Draining, Elsewhere, Has, center, has, history
<1>4. CASE CheckClosedConnection(p)
  BY <1>4, UncountedSum DEF WireInv, TypeOK, CheckClosedConnection, Elsewhere, Has, history
<1>5. CASE \E S \in PeerSets : DoCmdBitfield(p, S)
  BY <1>5, DoCmdBitfieldSum
<1>6. CASE DoCmdHaveAll(p) \/ DoCmdHaveNone(p)
  BY <1>6, DoCmdHaveAllSum
<1>7. CASE \E i \in Pieces : DoCmdHave(p, i)
  BY <1>7, DoCmdHaveSum
<1>8. CASE OnTimer(p)
  <2>1. CASE OnClose(p, "closed", "other")
    BY <1>8, <2>1, OnCloseSum DEF OnTimer
  <2>2. CASE UNCHANGED <<link, avail>>
    BY <1>8, <2>2, SumStays DEF OnTimer
  <2> QED
    BY <1>8, <2>1, <2>2 DEF OnTimer
<1>9. CASE Handshake(p) \/ NoticeNewHavePiece(p) \/ CheckMyRequest(p)
  BY <1>9, SumStays DEF Handshake, NoticeNewHavePiece, CheckMyRequest, center, history
<1> QED
  BY <1>1, <1>2, <1>3, <1>4, <1>5, <1>6, <1>7, <1>8, <1>9
  DEF PeerStep, DoRead, DoCmdWrite, BadHandshake, CloseInterestedPeer, CloseNotInterestPeer,
      CloseTimeoutConnection, NotActive

\* SwitchMode closes several peers at once.
LEMMA SwitchModeSum ==
  ASSUME WireInv, AvailExact, NEW s \in Sessions, SwitchMode(s)
  PROVE  AvailExact'
<1> DEFINE told == {p \in {q \in Peers : SessionOf[q] = s /\ link[q] = "open"} : gotBits[p]}
<1>1. PICK C \in SUBSET told :
        /\ link' = [p \in Peers |-> IF p \in C THEN "closed" ELSE link[p]]
        /\ avail' = MinusAll(C)
  BY DEF SwitchMode
<1>2. UNCHANGED <<has, skew>>
  BY DEF SwitchMode
<1> SUFFICES ASSUME NEW i \in Pieces \ skew
             PROVE  avail'[i] = Cardinality(Havers(i)')
  BY <1>2 DEF AvailExact, Havers, Has
<1> DEFINE gone == {q \in C : i \in bits[q]}
<1>3. Havers(i)' = Havers(i) \ gone
  BY <1>1, <1>2 DEF Havers, Has, has
<1>4. Havers(i) \cap gone = gone
  BY <1>1 DEF Havers, Has
<1>5. IsFiniteSet(Havers(i)) /\ Cardinality(Havers(i)) \in Nat
  BY HaversFinite
<1>6. Cardinality(Havers(i) \ gone) = Cardinality(Havers(i)) - Cardinality(gone)
  BY <1>4, <1>5, FS_Difference
<1>7. Cardinality(gone) \in Nat /\ Cardinality(gone) <= Cardinality(Havers(i))
  BY <1>4, <1>5, FS_Subset, FS_CardinalityType
<1>8. avail'[i] = IF avail[i] > Cardinality(gone) THEN avail[i] - Cardinality(gone) ELSE 0
  BY <1>1 DEF MinusAll
<1>9. avail[i] = Cardinality(Havers(i))
  BY AvailHavers
<1> QED
  BY <1>3, <1>5, <1>6, <1>7, <1>8, <1>9

LEMMA SumStep ==
  ASSUME WireInv, AvailExact, [Next]_vars
  PROVE  AvailExact'
<1>1. ASSUME NEW p \in Peers, PeerStep(p) PROVE AvailExact'
  BY <1>1, PeerStepSum
<1>2. ASSUME NEW s \in Sessions, SessionStep(s) PROVE AvailExact'
  <2>1. CASE SwitchMode(s)
    BY <2>1, SwitchModeSum
  <2>2. CASE \/ \E i \in Pieces : WritePiece(s, i)
             \/ BroadcastHavePiece(s) \/ DownloadFinish(s) \/ SetMode(s) \/ EndSwitch(s)
    BY <2>2, SumStays DEF WritePiece, BroadcastHavePiece, DownloadFinish, SetMode, EndSwitch,
                          center, history
  <2> QED
    BY <1>2, <2>1, <2>2 DEF SessionStep
<1>3. ASSUME \/ \E w \in Wishes : AdjustFilePriority(w)
             \/ \E i \in Pieces : FillPriority(i)
      PROVE AvailExact'
  BY <1>3, SumStays DEF AdjustFilePriority, FillPriority, center
<1>4. CASE UNCHANGED vars
  BY <1>4, SumStays DEF vars, center, history
<1> QED
  BY <1>1, <1>2, <1>3, <1>4 DEF Next

\* m_bitPieceSum counts each piece once for every open link whose peer has it,
\* however bitfields, HAVEs, closes and switches of mode follow each other: no
\* decrement is lost or made twice, except for pieces a message behind the close
\* of its link was about.
THEOREM SumExact == Spec => []AvailExact
<1>1. Init => AvailExact
  <2> SUFFICES ASSUME Init, NEW i \in Pieces PROVE avail[i] = Cardinality(Havers(i))
    BY AvailHavers
  <2>1. Havers(i) = {}
    BY DEF Init, Havers, Has
  <2> QED
    BY <2>1, FS_EmptySet DEF Init
<1>2. WireInv /\ AvailExact /\ [Next]_vars => AvailExact'
  BY SumStep
<1> QED
  BY <1>1, <1>2, WireHolds, PTL DEF Spec
----------------------------------------------------------------------------
(* Who is closed as dishonest: what an address claimed was shown by one of *)
(* its peers.                                                              *)

ShownAt(a) == UNION {shown[q] : q \in {r \in Peers : AddrOf[r] = a}}

ClaimsShown ==
    /\ \A a \in Addrs : claims[a] \subseteq ShownAt(a)
    /\ \A p \in Peers : bits[p] \subseteq shown[p]

LEMMA ShownAtPeer ==
  ASSUME NEW p \in Peers
  PROVE  shown[p] \subseteq ShownAt(AddrOf[p])
BY DEF ShownAt

\* Nothing is ever taken out of what was shown.
LEMMA ShownGrows ==
  ASSUME \A q \in Peers : shown[q] \subseteq shown'[q]
  PROVE  \A a \in Addrs : ShownAt(a) \subseteq ShownAt(a)'
BY DEF ShownAt

\* The peer shows S, and its address is noted with it, or with more of S.
LEMMA ShowsMore ==
  ASSUME WireInv, ClaimsShown, NEW p \in Peers, NEW S \in SUBSET Bits,
         S \subseteq shown'[p], \A q \in Peers : shown[q] \subseteq shown'[q],
         \A a \in Addrs : claims'[a] \subseteq claims[a] \cup
                              (IF a = AddrOf[p] THEN S ELSE {}),
         \A q \in Peers : bits'[q] \subseteq bits[q] \cup (IF q = p THEN S ELSE {})
  PROVE  ClaimsShown'
<1>1. \A a \in Addrs : ShownAt(a) \subseteq ShownAt(a)'
  BY ShownGrows
<1>2. S \subseteq ShownAt(AddrOf[p])'
  BY DEF ShownAt
<1>3. \A a \in Addrs : claims'[a] \subseteq ShownAt(a)'
  <2> SUFFICES ASSUME NEW a \in Addrs PROVE claims'[a] \subseteq ShownAt(a)'
    OBVIOUS
  <2>1. claims[a] \subseteq ShownAt(a)'
    BY <1>1 DEF ClaimsShown
  <2> QED
    BY <1>2, <2>1
<1>4. \A q \in Peers : bits'[q] \subseteq shown'[q]
  BY DEF ClaimsShown
<1> QED
  BY <1>3, <1>4 DEF ClaimsShown

LEMMA ClaimsStay ==
  ASSUME ClaimsShown, UNCHANGED <<claims, has, shown>>
  PROVE  ClaimsShown'
BY DEF ClaimsShown, ShownAt, has

LEMMA GotBitsShown ==
  ASSUME WireInv, ClaimsShown, NEW p \in Peers, NEW S \in SUBSET Bits, GotBits(p, S)
  PROVE  ClaimsShown'
<1>1. S \subseteq shown'[p] /\ \A q \in Peers : shown[q] \subseteq shown'[q]
  BY DEF WireInv, TypeOK, GotBits
<1>2. \A a \in Addrs : claims'[a] \subseteq claims[a] \cup
                           (IF a = AddrOf[p] THEN S ELSE {})
  BY DEF WireInv, TypeOK, GotBits
<1>3. \A q \in Peers : bits'[q] \subseteq bits[q] \cup (IF q = p THEN S ELSE {})
  BY DEF WireInv, TypeOK, GotBits
<1> QED
  BY <1>1, <1>2, <1>3, ShowsMore

LEMMA CheckClosedShown ==
  ASSUME WireInv, ClaimsShown, NEW p \in Peers, CheckClosedConnection(p)
  PROVE  ClaimsShown'
<1>1. shown' = shown
  BY DEF CheckClosedConnection, history
<1>2. \A a \in Addrs : ShownAt(a)' = ShownAt(a)
  BY <1>1 DEF ShownAt
<1>3. bits[p] \subseteq ShownAt(AddrOf[p])
  BY ShownAtPeer DEF ClaimsShown
<1>4. \A a \in Addrs : claims'[a] \subseteq ShownAt(a)
  BY <1>3 DEF WireInv, TypeOK, ClaimsShown, CheckClosedConnection
<1>5. \A q \in Peers : bits'[q] \subseteq bits[q]
  BY DEF WireInv, TypeOK, CheckClosedConnection
<1> QED
  BY <1>1, <1>2, <1>4, <1>5 DEF ClaimsShown

LEMMA PeerStepShown ==
  ASSUME WireInv, ClaimsShown, NEW p \in Peers, PeerStep(p)
  PROVE  ClaimsShown'
<1>1. CASE CheckClosedConnection(p)
  BY <1>1, CheckClosedShown
<1>2. CASE \E S \in SUBSET Bits : GotBits(p, S)
  BY <1>2, GotBitsShown
<1>3. CASE \E i \in Pieces : DoCmdHave(p, i)
  <2>1. PICK i \in Pieces : DoCmdHave(p, i)
    BY <1>3
  <2>2. /\ shown' = [shown EXCEPT ![p] = @ \cup {i}]
        /\ bits' = [bits EXCEPT ![p] = @ \cup {i}]
    BY <2>1 DEF DoCmdHave, HaveNew
  <2>3. \A a \in Addrs : claims'[a] \subseteq claims[a] \cup
                             (IF a = AddrOf[p] THEN {i} ELSE {})
    BY <2>1 DEF WireInv, TypeOK, DoCmdHave
  <2>4. \A q \in Peers : bits'[q] \subseteq bits[q] \cup (IF q = p THEN {i} ELSE {})
    BY <2>2 DEF WireInv, TypeOK
  <2>5. PICK S \in SUBSET Bits : S = {i}
    BY DEF Bits
  <2>6. S \subseteq shown'[p] /\ \A q \in Peers : shown[q] \subseteq shown'[q]
    BY <2>2, <2>5 DEF WireInv, TypeOK
  <2>7. \A a \in Addrs : claims'[a] \subseteq claims[a] \cup
                             (IF a = AddrOf[p] THEN S ELSE {})
    BY <2>3, <2>5
  <2>8. \A q \in Peers : bits'[q] \subseteq bits[q] \cup (IF q = p THEN S ELSE {})
    BY <2>4, <2>5
  <2> QED
    BY <2>6, <2>7, <2>8, ShowsMore
<1>4. CASE UNCHANGED <<claims, has, shown>>
  BY <1>4, ClaimsStay
<1>5. ASSUME DoCmdHaveAll(p) \/ DoCmdHaveNone(p) \/ \E S \in PeerSets : DoCmdBitfield(p, S)
      PROVE  (\E S \in SUBSET Bits : GotBits(p, S)) \/ UNCHANGED <<claims, has, shown>>
  <2>1. Pieces \in SUBSET Bits /\ {} \in SUBSET Bits
    BY DEF Bits
  <2> QED
    BY <1>5, <2>1 DEF DoCmdHaveAll, DoCmdHaveNone, DoCmdBitfield
<1>6. ASSUME \/ Open(p) \/ Handshake(p) \/ End(p) \/ BadMessage(p) \/ Drained(p)
             \/ DoCmdNotInterested(p) \/ NoticeNewHavePiece(p) \/ OnTimer(p)
             \/ CheckMyRequest(p)
      PROVE  UNCHANGED <<claims, has, shown>>
  BY <1>6 DEF Open, Handshake, End, BadMessage, Drained, DoCmdNotInterested,
              NoticeNewHavePiece, OnTimer, CheckMyRequest, center, history
<1> QED
  BY <1>1, <1>2, <1>3, <1>4, <1>5, <1>6
  DEF PeerStep, DoRead, DoCmdWrite, BadHandshake, CloseInterestedPeer, CloseNotInterestPeer,
      CloseTimeoutConnection, NotActive

LEMMA ShownStep ==
  ASSUME WireInv, ClaimsShown, [Next]_vars
  PROVE  ClaimsShown'
<1>1. ASSUME NEW p \in Peers, PeerStep(p) PROVE ClaimsShown'
  BY <1>1, PeerStepShown
<1>2. ASSUME NEW s \in Sessions, SessionStep(s) PROVE UNCHANGED <<claims, has, shown>>
  BY <1>2 DEF SessionStep, WritePiece, BroadcastHavePiece, DownloadFinish, SetMode, SwitchMode,
              EndSwitch, center, history
<1>3. ASSUME \/ \E w \in Wishes : AdjustFilePriority(w)
             \/ \E i \in Pieces : FillPriority(i)
      PROVE UNCHANGED <<claims, has, shown>>
  BY <1>3 DEF AdjustFilePriority, FillPriority, center
<1>4. ASSUME UNCHANGED vars PROVE UNCHANGED <<claims, has, shown>>
  BY <1>4 DEF vars, center, history
<1> QED
  BY <1>1, <1>2, <1>3, <1>4, ClaimsStay DEF Next

THEOREM ClaimsHold == Spec => []ClaimsShown
<1>1. Init => ClaimsShown
  BY DEF Init, ClaimsShown
<1>2. WireInv /\ ClaimsShown /\ [Next]_vars => ClaimsShown'
  BY ShownStep
<1> QED
  BY <1>1, <1>2, WireHolds, PTL DEF Spec

\* Fewer bits than the address claimed: one of those is missing, and a peer of
\* the address has shown it.
LEMMA GainShown ==
  ASSUME WireInv, ClaimsShown, NEW p \in Peers, NEW S \in SUBSET Bits,
         Gain(p, S) < 0, GotBits(p, S)
  PROVE  \E q \in Peers : AddrOf[q] = AddrOf[p] /\ ~(shown'[q] \subseteq bits'[p])
<1> DEFINE C == claims[AddrOf[p]]
<1>1. C \in SUBSET Bits /\ IsFiniteSet(S) /\ IsFiniteSet(C)
  <2>1. IsFiniteSet(Bits)
    BY FS_Union DEF Bits
  <2>2. C \in SUBSET Bits
    BY DEF WireInv, TypeOK
  <2> QED
    BY <2>1, <2>2, FS_Subset
<1>2. Cardinality(S) < Cardinality(C)
  BY <1>1, FS_CardinalityType DEF Gain
<1>3. ~(C \subseteq S)
  BY <1>1, <1>2, FS_Subset, FS_CardinalityType
<1>4. PICK i \in C : i \notin S
  BY <1>3
<1>5. PICK q \in Peers : AddrOf[q] = AddrOf[p] /\ i \in shown[q]
  BY <1>4 DEF ClaimsShown, ShownAt
<1>6. i \in shown'[q] /\ i \notin bits'[p]
  BY <1>4, <1>5 DEF WireInv, TypeOK, GotBits
<1> QED
  BY <1>5, <1>6

\* The body of HonestKept, for one peer.
Honest(p) ==
    reason'[p] = "honest" /\ reason[p] # "honest" =>
        \E q \in Peers : /\ AddrOf[q] = AddrOf[p]
                         /\ ~(shown'[q] \subseteq bits'[p])

\* Only a bitfield that claims less gives that reason.
LEMMA ReasonStep ==
  ASSUME WireInv, ClaimsShown, NEW r \in Peers, PeerStep(r), NEW p \in Peers
  PROVE  Honest(p)
<1>1. CASE \E to, s : Leave(r, to, "other", s)
  BY <1>1 DEF WireInv, TypeOK, Leave, Honest
<1>2. CASE \E S \in SUBSET Bits : \E to, s :
              Leave(r, to, "honest", s) /\ Gain(r, S) < 0 /\ GotBits(r, S)
  <2>1. CASE p = r
    BY <1>2, <2>1, GainShown DEF Honest
  <2>2. CASE p # r
    BY <1>2, <2>2 DEF WireInv, TypeOK, Leave, Honest
  <2> QED
    BY <2>1, <2>2
<1>3. CASE reason' = reason
  BY <1>3 DEF Honest
<1>4. CASE CheckClosedConnection(r)
  BY <1>4 DEF WireInv, TypeOK, CheckClosedConnection, Honest
<1>5. ASSUME \/ End(r) \/ BadMessage(r) \/ DoCmdNotInterested(r)
             \/ OnTimer(r) \/ Open(r) \/ Handshake(r) \/ Drained(r)
             \/ NoticeNewHavePiece(r) \/ CheckMyRequest(r)
             \/ \E i \in Pieces : DoCmdHave(r, i)
      PROVE  (\E to, s : Leave(r, to, "other", s)) \/ reason' = reason
  BY <1>5 DEF End, BadMessage, DoCmdNotInterested, OnTimer, OnClose, Open, Handshake, Drained,
              NoticeNewHavePiece, CheckMyRequest, DoCmdHave
<1>6. ASSUME DoCmdHaveAll(r) \/ DoCmdHaveNone(r) \/ \E S \in PeerSets : DoCmdBitfield(r, S)
      PROVE  \/ \E to, s : Leave(r, to, "other", s)
             \/ \E S \in SUBSET Bits : \E to, s :
                    Leave(r, to, "honest", s) /\ Gain(r, S) < 0 /\ GotBits(r, S)
             \/ reason' = reason
  BY <1>6 DEF DoCmdHaveAll, DoCmdHaveNone, DoCmdBitfield, OnClose, Refused, Counted
<1> QED
  BY <1>1, <1>2, <1>3, <1>4, <1>5, <1>6
  DEF PeerStep, DoRead, DoCmdWrite, BadHandshake, CloseInterestedPeer, CloseNotInterestPeer,
      CloseTimeoutConnection, NotActive

\* A link is only closed as dishonest (CR_HONEST, which bans the address) when a
\* peer of its address has shown a bit before, of a piece or a spare one, that it
\* does not show now, in whatever order bitfields, HAVEs, closes and new links come.
THEOREM HonestHolds == Spec => HonestKept
<1>1. WireInv /\ ClaimsShown /\ [Next]_vars => [\A p \in Peers : Honest(p)]_vars
  <2> SUFFICES ASSUME WireInv, ClaimsShown, Next, NEW p \in Peers PROVE Honest(p)
    OBVIOUS
  <2>1. ASSUME NEW r \in Peers, PeerStep(r) PROVE Honest(p)
    BY <2>1, ReasonStep
  <2>2. ASSUME NEW s \in Sessions, SessionStep(s) PROVE Honest(p)
    <3>1. ASSUME SwitchMode(s) PROVE reason'[p] \in {"other", reason[p]}
      BY <3>1 DEF SwitchMode
    <3>2. ASSUME \/ \E i \in Pieces : WritePiece(s, i)
                 \/ BroadcastHavePiece(s) \/ DownloadFinish(s) \/ SetMode(s) \/ EndSwitch(s)
          PROVE  reason' = reason
      BY <3>2 DEF WritePiece, BroadcastHavePiece, DownloadFinish, SetMode, EndSwitch
    <3> QED
      BY <2>2, <3>1, <3>2 DEF SessionStep, Honest
  <2>3. ASSUME \/ \E w \in Wishes : AdjustFilePriority(w)
               \/ \E i \in Pieces : FillPriority(i)
        PROVE Honest(p)
    BY <2>3 DEF AdjustFilePriority, FillPriority, Honest
  <2> QED
    BY <2>1, <2>2, <2>3 DEF Next
<1>2. [\A p \in Peers : Honest(p)]_vars
      <=> [\A p \in Peers :
              reason'[p] = "honest" /\ reason[p] # "honest" =>
                  \E q \in Peers : /\ AddrOf[q] = AddrOf[p]
                                   /\ ~(shown'[q] \subseteq bits'[p])]_vars
  BY DEF Honest
<1> QED
  BY <1>1, <1>2, WireHolds, ClaimsHold, PTL DEF Spec, HonestKept
=============================================================================
