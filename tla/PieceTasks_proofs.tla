-------------------------- MODULE PieceTasks_proofs --------------------------
(* Theorems about PieceTasks for any peers, pieces, sessions and priorities. *)
EXTENDS PieceTasks, FiniteSetTheorems, TLAPS

\* The types hold at first.
LEMMA TypeInit == Init => TypeOK
<1> SUFFICES ASSUME Init PROVE TypeOK
  OBVIOUS
<1>1. priority \in [Pieces -> Nat]
  BY LevelsAssumption DEF Init
<1>2. NoWish \in [Pieces -> Nat]
  BY DEF NoWish
<1> QED
  BY <1>1, <1>2, AdjustsAssumption DEF Init, TypeOK, StorageOK, PeersOK, ThreadsOK, Steps, Bare, Afters

\* The empty wish is a wish.
LEMMA NoWishType == NoWish \in [Pieces -> Nat]
  BY DEF NoWish

\* What AbandonPieceTask leaves is a map of counts.
LEMMA AbandonType ==
    ASSUME downloading \in [Pieces -> Nat], NEW i
    PROVE  Abandon(i) \in [Pieces -> Nat]
<1>1. CASE i \in Pieces
  <2>1. downloading[i] \in Nat
    BY <1>1
  <2>2. (IF downloading[i] > 0 THEN downloading[i] - 1 ELSE 0) \in Nat
    BY <2>1
  <2> QED
    BY <1>1, <2>2 DEF Abandon
<1>2. CASE i \notin Pieces
  BY <1>2 DEF Abandon
<1> QED
  BY <1>1, <1>2

\* One count more is a map of counts.
LEMMA JoinType ==
    ASSUME downloading \in [Pieces -> Nat], NEW i
    PROVE  Join(i) \in [Pieces -> Nat]
<1>1. CASE i \in Pieces
  BY <1>1 DEF Join
<1>2. CASE i \notin Pieces
  BY <1>2 DEF Join
<1> QED
  BY <1>1, <1>2

\* Going on keeps the types of the threads.
LEMMA GotoType ==
    ASSUME ThreadsOK, NEW s \in Sessions, NEW x \in Steps, NEW p \in Peers \cup {NoPeer},
           NEW i \in Pieces \cup {NoPiece}, x \in Bare \/ i \in Pieces, Goto(s, x, p, i)
    PROVE  /\ pc' \in [Sessions -> Steps]
           /\ self' \in [Sessions -> Peers \cup {NoPeer}]
           /\ item' \in [Sessions -> Pieces \cup {NoPiece}]
           /\ \A t \in Sessions : pc'[t] \notin Bare => item'[t] \in Pieces
  BY DEF Goto, ThreadsOK

\* Returning keeps the types of the threads.
LEMMA ReturnType ==
    ASSUME ThreadsOK, NEW s \in Sessions, Return(s)
    PROVE  ThreadsOK'
<1>1. "idle" \in Steps /\ "idle" \in Bare /\ "cancel" \in Afters
  BY DEF Steps, Bare, Afters
<1> QED
  BY <1>1, GotoType, NoWishType DEF Return, ThreadsOK

\* Calling WritePiece keeps the types of the threads.
LEMMA CallWriteType ==
    ASSUME ThreadsOK, NEW s \in Sessions, NEW p \in Peers \cup {NoPeer},
           NEW i \in Pieces, NEW a \in Afters, CallWrite(s, p, i, a)
    PROVE  ThreadsOK'
<1>1. "clean" \in Steps
  BY DEF Steps
<1> QED
  BY <1>1, GotoType, NoWishType DEF CallWrite, ThreadsOK

\* Asking a peer for a piece keeps the types of the tasks.
LEMMA AskType ==
    ASSUME PeersOK, NEW p \in Peers \cup {NoPeer}, NEW i \in Pieces \cup {NoPiece},
           NEW c \in BOOLEAN, Ask(p, i, c)
    PROVE  /\ req' \in [Peers -> Pieces \cup {NoPiece}]
           /\ coop' \in [Peers -> BOOLEAN]
  BY DEF Ask, PeersOK

\* Forgetting a task keeps the types of the tasks.
LEMMA ResetType ==
    ASSUME PeersOK, NEW p \in Peers \cup {NoPeer}, Reset(p)
    PROVE  /\ req' \in [Peers -> Pieces \cup {NoPiece}]
           /\ coop' \in [Peers -> BOOLEAN]
  BY AskType DEF Reset

\* Closing a link keeps the types.
LEMMA CloseLinkType ==
    ASSUME PeersOK, downloading \in [Pieces -> Nat], NEW p \in Peers \cup {NoPeer}, CloseLink(p)
    PROVE  PeersOK' /\ downloading' \in [Pieces -> Nat]
<1>1. downloading' \in [Pieces -> Nat]
  BY AbandonType DEF CloseLink
<1>2. /\ req' \in [Peers -> Pieces \cup {NoPiece}]
      /\ coop' \in [Peers -> BOOLEAN]
  BY ResetType DEF CloseLink
<1> QED
  BY <1>1, <1>2 DEF CloseLink, PeersOK

\* Every step keeps the types.
LEMMA TypeStep == TypeOK /\ [Next]_vars => TypeOK'
<1> SUFFICES ASSUME StorageOK, PeersOK, ThreadsOK, [Next]_vars PROVE TypeOK'
  BY DEF TypeOK
<1> USE DEF TypeOK
<1>s. ASSUME NEW s \in Sessions, ThreadStep(s) PROVE TypeOK'
  <2>1. CASE BitfieldSent(s)
    <3>1. StorageOK'
      BY <2>1 DEF BitfieldSent, storage, StorageOK
    <3>2. PeersOK'
      BY <2>1 DEF BitfieldSent, PeersOK, peers
    <3>3. ThreadsOK'
      BY <2>1, ReturnType DEF BitfieldSent, threads, Steps, Bare, Afters
    <3> QED
      BY <3>1, <3>2, <3>3
  <2>2. CASE Choose(s)
    <3>1. StorageOK'
      BY <2>2 DEF Choose, storage, StorageOK
    <3>2. PeersOK'
      BY <2>2 DEF Choose, PeersOK, peers
    <3>3. ThreadsOK'
      BY <2>2, GotoType DEF Choose, Best, Pool, ThreadsOK, threads, Steps, Bare, Afters
    <3> QED
      BY <3>1, <3>2, <3>3
  <2>3. CASE Register(s)
    <3>1. StorageOK'
      BY <2>3, JoinType DEF Register, storage, StorageOK
    <3>2. PeersOK'
      BY <2>3, AskType DEF Register, PeersOK, ThreadsOK, peers
    <3>3. ThreadsOK'
      BY <2>3, GotoType, NoWishType DEF Register, ThreadsOK, threads, Steps, Bare, Afters
    <3> QED
      BY <3>1, <3>2, <3>3
  <2>4. CASE Help(s)
    <3>1. StorageOK'
      BY <2>4, JoinType DEF Help, storage, StorageOK
    <3>2. PeersOK'
      BY <2>4, AskType DEF Help, Helpful, PeersOK, ThreadsOK, peers
    <3>3. ThreadsOK'
      BY <2>4, GotoType, NoWishType DEF Help, Helpful, ThreadsOK, threads, Steps, Bare, Afters
    <3> QED
      BY <3>1, <3>2, <3>3
  <2>5. CASE NoTask(s)
    <3>1. StorageOK'
      BY <2>5 DEF NoTask, storage, StorageOK
    <3>2. PeersOK'
      BY <2>5 DEF NoTask, PeersOK, peers
    <3>3. ThreadsOK'
      BY <2>5, ReturnType DEF NoTask, threads, Steps, Bare, Afters
    <3> QED
      BY <3>1, <3>2, <3>3
  <2>6. CASE FastIn(s)
    <3>1. StorageOK'
      BY <2>6, JoinType DEF FastIn, storage, StorageOK
    <3>2. PeersOK'
      BY <2>6, AskType DEF FastIn, PeersOK, ThreadsOK, peers
    <3>3. ThreadsOK'
      BY <2>6, GotoType, ReturnType DEF FastIn, ThreadsOK, threads, Steps, Bare, Afters
    <3> QED
      BY <3>1, <3>2, <3>3
  <2>7. CASE FastOut(s)
    <3>1. StorageOK'
      BY <2>7 DEF FastOut, storage, StorageOK
    <3>2. PeersOK'
      <4>1. item[s] \in Pieces /\ self[s] \in Peers \cup {NoPeer}
        BY <2>7 DEF FastOut, ThreadsOK, Bare
      <4>2. (priority[item[s]] > 5) \in BOOLEAN
        BY <4>1 DEF StorageOK
      <4>3. Ask(self[s], item[s], priority[item[s]] > 5)
        BY <2>7 DEF FastOut
      <4>4. req' \in [Peers -> Pieces \cup {NoPiece}] /\ coop' \in [Peers -> BOOLEAN]
        BY <4>1, <4>2, <4>3, AskType
      <4> QED
        BY <2>7, <4>4 DEF FastOut, PeersOK
    <3>3. ThreadsOK'
      BY <2>7, GotoType DEF FastOut, ThreadsOK, threads, Steps, Bare, Afters
    <3> QED
      BY <3>1, <3>2, <3>3
  <2>8. CASE TakeOrphans(s)
    <3>1. StorageOK'
      BY <2>8 DEF TakeOrphans, storage, StorageOK
    <3>2. PeersOK'
      BY <2>8 DEF TakeOrphans, PeersOK, peers
    <3>3. ThreadsOK'
      BY <2>8, ReturnType, CallWriteType DEF TakeOrphans, ThreadsOK, threads, Steps, Bare, Afters
    <3> QED
      BY <3>1, <3>2, <3>3
  <2>9. CASE Clean(s)
    <3>1. StorageOK'
      BY <2>9 DEF Clean, storage, StorageOK
    <3>2. PeersOK'
      BY <2>9 DEF Clean, PeersOK, peers
    <3>3. ThreadsOK'
      BY <2>9 DEF Clean, ThreadsOK, threads, Steps, Bare, Afters
    <3> QED
      BY <3>1, <3>2, <3>3
  <2>10. CASE Store(s)
    <3>1. StorageOK'
      <4>1. item[s] \in Pieces
        BY <2>10 DEF Store, ThreadsOK, Bare
      <4> QED
        BY <4>1, <2>10 DEF Store, StorageOK
    <3>2. PeersOK'
      BY <2>10 DEF Store, PeersOK, peers
    <3>3. ThreadsOK'
      BY <2>10 DEF Store, ThreadsOK, threads, Steps, Bare, Afters
    <3> QED
      BY <3>1, <3>2, <3>3
  <2>11. CASE Broadcast(s)
    <3>1. StorageOK'
      BY <2>11 DEF Broadcast, storage, StorageOK
    <3>2. PeersOK'
      <4>1. item[s] \in Pieces
        BY <2>11 DEF Broadcast, ThreadsOK, Bare
      <4>2. \A t : [p \in Peers |-> IF SessionOf[p] = t /\ link[p] = "open"
                                    THEN notices[p] \cup {item[s]} ELSE notices[p]]
                  \in [Peers -> SUBSET Pieces]
        BY <4>1 DEF PeersOK
      <4>3. PICK t \in todo[s] : notices' =
                  [p \in Peers |-> IF SessionOf[p] = t /\ link[p] = "open"
                                    THEN notices[p] \cup {item[s]} ELSE notices[p]]
        BY <2>11 DEF Broadcast
      <4>4. notices' \in [Peers -> SUBSET Pieces]
        BY <4>2, <4>3
      <4> QED
        BY <2>11, <4>4 DEF Broadcast, PeersOK
    <3>3. ThreadsOK'
      BY <2>11 DEF Broadcast, ThreadsOK, threads, Steps, Bare, Afters
    <3> QED
      BY <3>1, <3>2, <3>3
  <2>12. CASE AfterCancel(s)
    <3>1. StorageOK'
      BY <2>12, AbandonType DEF AfterCancel, storage, StorageOK
    <3>2. PeersOK'
      BY <2>12, ResetType DEF AfterCancel, PeersOK, ThreadsOK, peers
    <3>3. ThreadsOK'
      BY <2>12, ReturnType DEF AfterCancel, threads, Steps, Bare, Afters
    <3> QED
      BY <3>1, <3>2, <3>3
  <2>13. CASE AfterReset(s)
    <3>1. StorageOK'
      <4>1. item[s] \in Pieces
        BY <2>13 DEF AfterReset, ThreadsOK, Bare
      <4> QED
        BY <4>1, <2>13 DEF AfterReset, StorageOK
    <3>2. PeersOK'
      BY <2>13, ResetType DEF AfterReset, PeersOK, ThreadsOK, peers
    <3>3. ThreadsOK'
      BY <2>13, ReturnType DEF AfterReset, threads, Steps, Bare, Afters
    <3> QED
      BY <3>1, <3>2, <3>3
  <2>14. CASE AfterShare(s)
    <3>1. StorageOK'
      BY <2>14, CloseLinkType DEF AfterShare, ThreadsOK, storage, StorageOK
    <3>2. PeersOK'
      BY <2>14, CloseLinkType DEF AfterShare, PeersOK, ThreadsOK, StorageOK, peers
    <3>3. ThreadsOK'
      BY <2>14, ReturnType DEF AfterShare, threads, Steps, Bare, Afters
    <3> QED
      BY <3>1, <3>2, <3>3
  <2> QED
    BY <1>s, <2>1, <2>2, <2>3, <2>4, <2>5, <2>6, <2>7, <2>8, <2>9, <2>10, <2>11, <2>12, <2>13, <2>14 DEF ThreadStep
<1>p. ASSUME NEW p \in Peers, PeerStep(p) PROVE TypeOK'
  <2> SessionOf[p] \in Sessions
    BY SessionsAssumption
  <2>1. CASE Shake(p)
    <3>1. StorageOK'
      BY <2>1 DEF Shake, storage, StorageOK
    <3>2. PeersOK'
      BY <2>1 DEF Shake, PeersOK, peers
    <3>3. ThreadsOK'
      BY <2>1 DEF Shake, ThreadsOK, threads
    <3> QED
      BY <3>1, <3>2, <3>3
  <2>2. CASE CopyBitfield(p)
    <3>1. StorageOK'
      BY <2>2 DEF CopyBitfield, storage, StorageOK
    <3>2. PeersOK'
      BY <2>2 DEF CopyBitfield, StorageOK, PeersOK, peers
    <3>3. ThreadsOK'
      BY <2>2, GotoType DEF CopyBitfield, ThreadsOK, threads, Steps, Bare, Afters
    <3> QED
      BY <3>1, <3>2, <3>3
  <2>3. CASE Close(p)
    <3>1. StorageOK'
      BY <2>3, CloseLinkType DEF Close, PeersOK, storage, StorageOK
    <3>2. PeersOK'
      BY <2>3, CloseLinkType DEF Close, StorageOK, peers
    <3>3. ThreadsOK'
      BY <2>3 DEF Close, ThreadsOK, threads
    <3> QED
      BY <3>1, <3>2, <3>3
  <2>4. CASE Scan(p)
    <3>1. StorageOK'
      BY <2>4 DEF Scan, storage, StorageOK
    <3>2. PeersOK'
      BY <2>4 DEF Scan, PeersOK, peers
    <3>3. ThreadsOK'
      <4>1. \A have : [i \in Pieces |-> IF i \in have \ finished THEN priority[i] ELSE 0]
                         \in [Pieces -> Nat]
        BY DEF StorageOK
      <4> QED
        BY <2>4, <4>1, GotoType DEF Scan, ThreadsOK, threads, Steps, Bare, Afters
    <3> QED
      BY <3>1, <3>2, <3>3
  <2>5. CASE FastCheck(p)
    <3>1. StorageOK'
      BY <2>5 DEF FastCheck, storage, StorageOK
    <3>2. PeersOK'
      BY <2>5 DEF FastCheck, PeersOK, peers
    <3>3. ThreadsOK'
      BY <2>5, GotoType DEF FastCheck, ThreadsOK, threads, Steps, Bare, Afters
    <3> QED
      BY <3>1, <3>2, <3>3
  <2>6. CASE ShareOn(p)
    <3>1. StorageOK'
      BY <2>6 DEF ShareOn, storage, StorageOK
    <3>2. PeersOK'
      BY <2>6 DEF ShareOn, PeersOK, peers
    <3>3. ThreadsOK'
      BY <2>6, ReturnType DEF ShareOn, threads, Steps, Bare, Afters
    <3> QED
      BY <3>1, <3>2, <3>3
  <2>7. CASE ShareRefused(p)
    <3>1. StorageOK'
      BY <2>7, CloseLinkType DEF ShareRefused, storage, StorageOK
    <3>2. PeersOK'
      BY <2>7, CloseLinkType DEF ShareRefused, StorageOK, peers
    <3>3. ThreadsOK'
      BY <2>7, ReturnType DEF ShareRefused, threads, Steps, Bare, Afters
    <3> QED
      BY <3>1, <3>2, <3>3
  <2>8. CASE ShareOrphans(p)
    <3>1. StorageOK'
      BY <2>8 DEF ShareOrphans, storage, StorageOK
    <3>2. PeersOK'
      BY <2>8 DEF ShareOrphans, PeersOK, peers
    <3>3. ThreadsOK'
      <4>1. PICK a \in {"close", "keep"} : CallWrite(SessionOf[p], p, req[p], a)
        BY <2>8 DEF ShareOrphans
      <4>2. a \in Afters /\ req[p] \in Pieces
        BY <2>8 DEF Afters, ShareOrphans, StorageOK
      <4> QED
        BY <4>1, <4>2, CallWriteType
    <3> QED
      BY <3>1, <3>2, <3>3
  <2>9. CASE PieceGood(p)
    <3>1. StorageOK'
      BY <2>9 DEF PieceGood, storage, StorageOK
    <3>2. PeersOK'
      BY <2>9 DEF PieceGood, PeersOK, peers
    <3>3. ThreadsOK'
      BY <2>9, CallWriteType DEF PieceGood, PeersOK, threads, Steps, Bare, Afters
    <3> QED
      BY <3>1, <3>2, <3>3
  <2>10. CASE PieceBad(p)
    <3>1. StorageOK'
      BY <2>10, CloseLinkType DEF PieceBad, storage, StorageOK
    <3>2. PeersOK'
      BY <2>10, CloseLinkType DEF PieceBad, StorageOK, peers
    <3>3. ThreadsOK'
      BY <2>10 DEF PieceBad, ThreadsOK, threads
    <3> QED
      BY <3>1, <3>2, <3>3
  <2>11. CASE CoopLate(p)
    <3>1. StorageOK'
      BY <2>11, AbandonType DEF CoopLate, storage, StorageOK
    <3>2. PeersOK'
      BY <2>11, ResetType DEF CoopLate, PeersOK, peers
    <3>3. ThreadsOK'
      BY <2>11 DEF CoopLate, ThreadsOK, threads
    <3> QED
      BY <3>1, <3>2, <3>3
  <2>12. CASE Stray(p)
    <3>1. StorageOK'
      BY <2>12 DEF Stray, storage, StorageOK
    <3>2. PeersOK'
      BY <2>12 DEF Stray, PeersOK, peers
    <3>3. ThreadsOK'
      BY <2>12 DEF Stray, ThreadsOK, threads
    <3> QED
      BY <3>1, <3>2, <3>3
  <2>13. CASE NoticeNewHavePiece(p)
    <3>1. StorageOK'
      BY <2>13, AbandonType DEF NoticeNewHavePiece, storage, StorageOK
    <3>2. PeersOK'
      BY <2>13, ResetType DEF NoticeNewHavePiece, PeersOK, peers
    <3>3. ThreadsOK'
      BY <2>13 DEF NoticeNewHavePiece, ThreadsOK, threads
    <3> QED
      BY <3>1, <3>2, <3>3
  <2> QED
    BY <1>p, <2>1, <2>2, <2>3, <2>4, <2>5, <2>6, <2>7, <2>8, <2>9, <2>10, <2>11, <2>12, <2>13 DEF PeerStep
<1>c. CASE GenPriorityClear
  <2>1. StorageOK'
    BY <1>c, AdjustsAssumption DEF GenPriorityClear, StorageOK
  <2> QED
    BY <1>c, <2>1 DEF GenPriorityClear, peers, threads, PeersOK, ThreadsOK
<1>g. CASE GenPrioritySet
  <2>1. StorageOK'
    BY <1>g, LevelsAssumption DEF GenPrioritySet, StorageOK
  <2> QED
    BY <1>g, <2>1 DEF GenPrioritySet, peers, threads, PeersOK, ThreadsOK
<1>u. CASE UNCHANGED vars
  BY <1>u DEF vars, storage, peers, threads, StorageOK, PeersOK, ThreadsOK
<1> QED
  BY <1>s, <1>p, <1>c, <1>g, <1>u DEF Next

\* Every variable keeps its type.
THEOREM TypeCorrect == Spec => []TypeOK
  BY TypeInit, TypeStep, PTL DEF Spec

-----------------------------------------------------------------------------
(* The inductive invariant TaskInv.                                        *)

\* A step that changes the place of no thread but s ...
OnlyThread(s) ==
    \A t \in Sessions \ {s} :
        /\ pc'[t] = pc[t] /\ self'[t] = self[t] /\ item'[t] = item[t]
        /\ wish'[t] = wish[t] /\ todo'[t] = todo[t]

\* ... and changes no peer but p.
OnlyPeer(p) ==
    \A q \in Peers \ {p} :
        /\ link'[q] = link[q] /\ req'[q] = req[q]
        /\ notices'[q] = notices[q] /\ told'[q] = told[q]

\* Going on moves no other thread.
LEMMA GotoFrame ==
    ASSUME ThreadsOK, NEW s \in Sessions, NEW x, NEW p, NEW i, Goto(s, x, p, i)
    PROVE  /\ pc'[s] = x /\ self'[s] = p /\ item'[s] = i
           /\ \A t \in Sessions \ {s} :
                pc'[t] = pc[t] /\ self'[t] = self[t] /\ item'[t] = item[t]
  BY DEF Goto, ThreadsOK

\* Returning moves no other thread.
LEMMA ReturnFrame ==
    ASSUME ThreadsOK, NEW s \in Sessions, Return(s)
    PROVE  pc'[s] = "idle" /\ OnlyThread(s)
  BY GotoFrame DEF Return, OnlyThread, ThreadsOK

\* Calling WritePiece moves no other thread.
LEMMA CallWriteFrame ==
    ASSUME ThreadsOK, NEW s \in Sessions, NEW p, NEW i, NEW a, CallWrite(s, p, i, a)
    PROVE  pc'[s] = "clean" /\ self'[s] = p /\ item'[s] = i /\ OnlyThread(s)
  BY GotoFrame DEF CallWrite, OnlyThread, ThreadsOK

\* Asking a peer changes the task of no other peer.
LEMMA AskFrame ==
    ASSUME PeersOK, NEW p \in Peers, NEW i, NEW c, Ask(p, i, c)
    PROVE  req'[p] = i /\ \A q \in Peers \ {p} : req'[q] = req[q]
  BY DEF Ask, PeersOK

\* Closing a link changes nothing of another peer.
LEMMA CloseLinkFrame ==
    ASSUME PeersOK, NEW p \in Peers, CloseLink(p)
    PROVE  /\ link'[p] = "closed" /\ req'[p] = NoPiece
           /\ notices'[p] = {} /\ told'[p] = {}
           /\ OnlyPeer(p)
  BY AskFrame DEF CloseLink, Reset, OnlyPeer, PeersOK

\* The invariant holds at first.
LEMMA TaskInvInit == Init => TaskInv
  BY TypeInit, PiecesAssumption DEF Init, TaskInv, HandlerOK, NoStranded, StaleCovered,
     Unheard, InHand

\* What the places of thread s must satisfy after a step that moves it but
\* changes no peer: the parts of TaskInv about s.
Fits(s) ==
    /\ pc'[s] # "broadcast"
    /\ pc'[s] # "idle" => self'[s] \in Peers /\ SessionOf[self'[s]] = s
    /\ pc'[s] = "bitfield" => link[self'[s]] = "shaken"
    /\ pc'[s] \in {"scanned", "none", "chosen", "fastin", "fastout"} =>
         link[self'[s]] = "open" /\ req[self'[s]] = NoPiece
    /\ pc'[s] \in {"orphans", "share", "clean", "store", "after"} =>
         req[self'[s]] = item'[s]
    /\ \A i \in InHand(s)' : /\ i \in finished => Covered(self'[s], i)
                             /\ i \notin told[self'[s]]

\* What the threads have in hand changes only with their own places ...
LEMMA InHandFrame ==
    ASSUME ThreadsOK, NEW s \in Sessions, OnlyThread(s)
    PROVE  \A t \in Sessions \ {s} : InHand(t)' = InHand(t) /\ InHand(t) \subseteq Pieces
<1> SUFFICES ASSUME NEW t \in Sessions \ {s}
             PROVE  InHand(t)' = InHand(t) /\ InHand(t) \subseteq Pieces
  OBVIOUS
<1>1. pc'[t] = pc[t] /\ item'[t] = item[t] /\ wish'[t] = wish[t]
  BY DEF OnlyThread
<1> QED
  BY <1>1 DEF InHand, ThreadsOK, Bare

\* ... and is for an open link without a task.
LEMMA InHandPeer ==
    ASSUME HandlerOK, NEW t \in Sessions, InHand(t) # {}
    PROVE  /\ self[t] \in Peers /\ SessionOf[self[t]] = t
           /\ link[self[t]] = "open" /\ req[self[t]] = NoPiece /\ pc[t] # "idle"
  BY DEF InHand, HandlerOK

\* A thread moves on within a handler, or starts or ends one.
LEMMA MoveKeeps ==
    ASSUME TaskInv, TypeOK', NEW s \in Sessions, OnlyThread(s), Fits(s),
           pc[s] # "broadcast", UNCHANGED <<finished, link, req, notices, told>>
    PROVE  TaskInv'
<1> USE DEF TaskInv, OnlyThread, Fits
<1>1. \A p \in Peers, i \in Pieces : Covered(p, i) => Covered(p, i)'
  BY DEF Covered
<1>2. HandlerOK'
  BY DEF HandlerOK
<1>3. NoStranded'
  BY <1>1 DEF NoStranded, TypeOK, StorageOK
<1>4. \A t \in Sessions \ {s} : InHand(t)' = InHand(t) /\ InHand(t) \subseteq Pieces
  BY InHandFrame DEF TypeOK
<1>5. \A t \in Sessions : InHand(t) # {} => self[t] \in Peers
  BY InHandPeer
<1>6. StaleCovered'
  <2> SUFFICES ASSUME NEW t \in Sessions, NEW i \in InHand(t)', i \in finished'
               PROVE  Covered(self[t], i)'
    BY DEF StaleCovered
  <2>1. CASE t = s
    BY <2>1, <1>1 DEF Covered, HandlerOK
  <2>2. CASE t # s
    BY <2>2, <1>1, <1>4, <1>5 DEF StaleCovered
  <2> QED
    BY <2>1, <2>2
<1>7. Unheard'
  BY <1>4 DEF Unheard
<1> QED
  BY <1>2, <1>3, <1>6, <1>7

\* A thread asks its peer for a piece it has in hand.
LEMMA TakeKeeps ==
    ASSUME TaskInv, TypeOK', NEW s \in Sessions, OnlyThread(s),
           NEW i \in InHand(s), pc'[s] \in {"share", "orphans"},
           self'[s] = self[s], item'[s] = i, req'[self[s]] = i,
           \A q \in Peers \ {self[s]} : req'[q] = req[q],
           UNCHANGED <<finished, link, notices, told>>
    PROVE  TaskInv'
<1> USE DEF TaskInv, OnlyThread
<1>1. /\ pc[s] \in {"scanned", "none", "chosen", "fastin", "fastout"}
      /\ self[s] \in Peers /\ SessionOf[self[s]] = s /\ link[self[s]] = "open"
  BY DEF InHand, HandlerOK
<1>2. \A p \in Peers, j \in Pieces : Covered(p, j) => Covered(p, j)'
  BY <1>1 DEF Covered
<1>3. HandlerOK'
  BY <1>1 DEF HandlerOK
<1>4. i \in Pieces /\ (i \in finished => Covered(self[s], i)) /\ i \notin told[self[s]]
  BY DEF StaleCovered, Unheard, InHand, TypeOK, ThreadsOK, Bare
<1>5. NoStranded'
  BY <1>2, <1>4 DEF NoStranded, TypeOK, StorageOK
<1>6. /\ InHand(s)' = {}
      /\ \A t \in Sessions \ {s} : InHand(t)' = InHand(t) /\ InHand(t) \subseteq Pieces
  BY InHandFrame DEF InHand, TypeOK
<1>7. \A t \in Sessions : InHand(t) # {} => self[t] \in Peers
  BY InHandPeer
<1>8. StaleCovered'
  BY <1>2, <1>6, <1>7 DEF StaleCovered
<1>9. Unheard'
  BY <1>4, <1>6 DEF Unheard
<1> QED
  BY <1>3, <1>5, <1>8, <1>9

\* The task of a peer is given up; the thread is free afterwards.
LEMMA FreeKeeps ==
    ASSUME TaskInv, TypeOK', NEW s \in Sessions, NEW p \in Peers, OnlyThread(s),
           SessionOf[p] = s, pc[s] \in {"idle", "after"}, pc'[s] = "idle",
           req'[p] = NoPiece, \A q \in Peers \ {p} : req'[q] = req[q],
           UNCHANGED <<finished, link, notices, told>>
    PROVE  TaskInv'
<1> USE DEF TaskInv, OnlyThread
<1>1. \A q \in Peers, j \in Pieces : Covered(q, j) => Covered(q, j)'
  BY DEF Covered
<1>2. HandlerOK'
  BY DEF HandlerOK
<1>3. NoStranded'
  BY <1>1, PiecesAssumption DEF NoStranded, TypeOK, StorageOK
<1>4. /\ InHand(s)' = {}
      /\ \A t \in Sessions \ {s} : InHand(t)' = InHand(t) /\ InHand(t) \subseteq Pieces
  BY InHandFrame DEF InHand, TypeOK
<1>5. \A t \in Sessions : InHand(t) # {} => self[t] \in Peers
  BY InHandPeer
<1>6. StaleCovered'
  BY <1>1, <1>4, <1>5 DEF StaleCovered
<1>7. Unheard'
  BY <1>4, PiecesAssumption DEF Unheard, TypeOK, StorageOK
<1> QED
  BY <1>2, <1>3, <1>6, <1>7

\* A peer is closed; the thread is free afterwards.
LEMMA CloseKeeps ==
    ASSUME TaskInv, TypeOK', NEW s \in Sessions, NEW p \in Peers, OnlyThread(s),
           SessionOf[p] = s, pc'[s] = "idle",
           pc[s] \in {"idle", "share", "after"},
           link'[p] = "closed", req'[p] = NoPiece, notices'[p] = {}, told'[p] = {},
           OnlyPeer(p), UNCHANGED finished
    PROVE  TaskInv'
<1> USE DEF TaskInv, OnlyThread, OnlyPeer
<1>1. \A q \in Peers \ {p}, j \in Pieces : Covered(q, j) => Covered(q, j)'
  BY DEF Covered
<1>2. HandlerOK'
  BY DEF HandlerOK
<1>3. NoStranded'
  BY <1>1, PiecesAssumption DEF NoStranded, TypeOK, StorageOK
<1>4. /\ InHand(s)' = {}
      /\ \A t \in Sessions \ {s} : InHand(t)' = InHand(t) /\ InHand(t) \subseteq Pieces
  BY InHandFrame DEF InHand, TypeOK
<1>5. \A t \in Sessions \ {s} : InHand(t) # {} => self[t] \in Peers \ {p}
  BY DEF InHand, HandlerOK
<1>6. StaleCovered'
  BY <1>1, <1>4, <1>5 DEF StaleCovered
<1>7. Unheard'
  BY <1>4, <1>5, PiecesAssumption DEF Unheard, TypeOK, StorageOK
<1> QED
  BY <1>2, <1>3, <1>6, <1>7

\* What HandlerOK says of a working thread.
LEMMA Working ==
    ASSUME TaskInv, NEW s \in Sessions, pc[s] # "idle"
    PROVE  /\ self[s] \in Peers /\ SessionOf[self[s]] = s
           /\ pc[s] \notin Bare => item[s] \in Pieces
           /\ pc[s] \in {"orphans", "share", "clean", "store", "broadcast", "after"} =>
                req[self[s]] = item[s] /\ link[self[s]] = "open"
  BY PiecesAssumption DEF TaskInv, HandlerOK, TypeOK, ThreadsOK, Bare

\* The steps of a busy thread.
LEMMA ThreadInvStep ==
    ASSUME TaskInv, TypeOK', NEW s \in Sessions, ThreadStep(s)
    PROVE  TaskInv'
<1> USE DEF storage, peers, threads
<1>t. StorageOK /\ PeersOK /\ ThreadsOK
  BY DEF TaskInv, TypeOK
<1>1. CASE BitfieldSent(s)
  <2>1. /\ pc[s] = "bitfield" /\ self[s] \in Peers /\ SessionOf[self[s]] = s
        /\ link[self[s]] = "shaken" /\ req[self[s]] = NoPiece
    BY <1>1, Working DEF BitfieldSent, TaskInv, HandlerOK
  <2>2. /\ link'[self[s]] = "open" /\ \A q \in Peers \ {self[s]} : link'[q] = link[q]
        /\ pc'[s] = "idle" /\ OnlyThread(s)
        /\ UNCHANGED <<finished, req, notices, told>>
    BY <1>1, <1>t, <2>1, ReturnFrame DEF BitfieldSent, PeersOK
  <2>3. \A p \in Peers, i \in Pieces : Covered(p, i) => Covered(p, i)'
    BY <2>1, <2>2 DEF Covered, OnlyThread
  <2>4. HandlerOK'
    BY <2>1, <2>2 DEF HandlerOK, OnlyThread, TaskInv
  <2>5. NoStranded'
    BY <2>2, <2>3, <1>t DEF NoStranded, TaskInv, StorageOK
  <2>6. /\ InHand(s)' = {}
        /\ \A t \in Sessions \ {s} : InHand(t)' = InHand(t) /\ InHand(t) \subseteq Pieces
        /\ \A t \in Sessions : InHand(t) # {} => self[t] \in Peers
    BY <2>2, <1>t, InHandFrame, InHandPeer DEF InHand, TaskInv
  <2>7. StaleCovered' /\ Unheard'
    BY <2>2, <2>3, <2>6 DEF StaleCovered, Unheard, TaskInv, OnlyThread
  <2> QED
    BY <2>4, <2>5, <2>7 DEF TaskInv
<1>2. CASE Choose(s)
  <2>1. /\ pc[s] = "scanned" /\ pc'[s] \in {"chosen", "none"}
        /\ self'[s] = self[s] /\ wish'[s] = wish[s] /\ OnlyThread(s)
        /\ pc'[s] = "chosen" => item'[s] \in Pieces /\ wish[s][item'[s]] > 0
        /\ UNCHANGED <<finished, link, req, notices, told>>
    BY <1>2, <1>t, GotoFrame DEF Choose, Best, Pool, OnlyThread
  <2>2. InHand(s)' \subseteq InHand(s)
    BY <2>1 DEF InHand
  <2>3. Fits(s)
    BY <2>1, <2>2, Working DEF Fits, TaskInv, HandlerOK, StaleCovered, Unheard
  <2> QED
    BY <2>1, <2>3, MoveKeeps
<1>3. CASE Register(s)
  <2>1. pc[s] = "chosen" /\ self[s] \in Peers
    BY <1>3, Working DEF Register
  <2>2. /\ pc'[s] \in {"share", "orphans"} /\ OnlyThread(s)
        /\ self'[s] = self[s] /\ item'[s] = item[s]
        /\ req'[self[s]] = item[s] /\ \A q \in Peers \ {self[s]} : req'[q] = req[q]
        /\ UNCHANGED <<finished, link, notices, told>>
    <3>1. PICK x \in {"share", "orphans"} : Goto(s, x, self[s], item[s])
      BY <1>3 DEF Register
    <3>2. PICK c : Ask(self[s], item[s], c)
      BY <1>3 DEF Register
    <3>3. /\ wish' = [wish EXCEPT ![s] = NoWish]
          /\ UNCHANGED <<finished, link, notices, told, todo>>
      BY <1>3 DEF Register
    <3>4. pc'[s] = x /\ OnlyThread(s) /\ self'[s] = self[s] /\ item'[s] = item[s]
      BY <1>t, <3>1, <3>3, GotoFrame DEF OnlyThread, ThreadsOK
    <3> QED
      BY <1>t, <2>1, <3>1, <3>2, <3>3, <3>4, AskFrame
  <2>3. item[s] \in InHand(s)
    BY <2>1 DEF InHand
  <2> QED
    BY <2>2, <2>3, TakeKeeps
<1>4. CASE Help(s)
  <2>1. pc[s] = "none" /\ self[s] \in Peers
    BY <1>4, Working DEF Help
  <2>2. PICK i \in Helpful(s) : Ask(self[s], i, TRUE) /\ Goto(s, "share", self[s], i)
    BY <1>4 DEF Help
  <2>3. /\ pc'[s] = "share" /\ OnlyThread(s)
        /\ self'[s] = self[s] /\ item'[s] = i
        /\ req'[self[s]] = i /\ \A q \in Peers \ {self[s]} : req'[q] = req[q]
        /\ UNCHANGED <<finished, link, notices, told>>
    <3>1. wish' = [wish EXCEPT ![s] = NoWish] /\ UNCHANGED <<finished, link, notices, told, todo>>
      BY <1>4 DEF Help
    <3>2. pc'[s] = "share" /\ OnlyThread(s) /\ self'[s] = self[s] /\ item'[s] = i
      BY <1>t, <2>2, <3>1, GotoFrame DEF OnlyThread, ThreadsOK
    <3> QED
      BY <1>t, <2>1, <2>2, <3>1, <3>2, AskFrame
  <2>4. i \in InHand(s)
    BY <2>1 DEF InHand, Helpful
  <2> QED
    BY <2>3, <2>4, TakeKeeps
<1>5. CASE NoTask(s)
  <2>1. /\ pc[s] = "none" /\ pc'[s] = "idle" /\ OnlyThread(s)
        /\ UNCHANGED <<finished, link, req, notices, told>>
    BY <1>5, <1>t, ReturnFrame DEF NoTask
  <2> QED
    BY <2>1, MoveKeeps DEF Fits, InHand
<1>6. CASE FastIn(s)
  <2>1. pc[s] = "fastin" /\ self[s] \in Peers
    BY <1>6, Working DEF FastIn
  <2>2. CASE Overlappable(item[s], downloading[item[s]])
    <3>1. /\ pc'[s] = "share" /\ OnlyThread(s)
          /\ self'[s] = self[s] /\ item'[s] = item[s]
          /\ req'[self[s]] = item[s] /\ \A q \in Peers \ {self[s]} : req'[q] = req[q]
          /\ UNCHANGED <<finished, link, notices, told>>
      <4>1. /\ Ask(self[s], item[s], TRUE) /\ Goto(s, "share", self[s], item[s])
            /\ UNCHANGED <<finished, link, notices, told, wish, todo>>
        BY <1>6, <2>2 DEF FastIn
      <4>2. pc'[s] = "share" /\ OnlyThread(s) /\ self'[s] = self[s] /\ item'[s] = item[s]
        BY <1>t, <4>1, GotoFrame DEF OnlyThread
      <4> QED
        BY <1>t, <2>1, <4>1, <4>2, AskFrame
    <3>2. item[s] \in InHand(s)
      BY <2>1 DEF InHand
    <3> QED
      BY <3>1, <3>2, TakeKeeps
  <2>3. CASE ~Overlappable(item[s], downloading[item[s]])
    <3>1. pc'[s] = "idle" /\ OnlyThread(s) /\ UNCHANGED <<finished, link, req, notices, told>>
      BY <1>6, <1>t, <2>3, ReturnFrame DEF FastIn
    <3> QED
      BY <2>1, <3>1, MoveKeeps DEF Fits, InHand
  <2> QED
    BY <2>2, <2>3
<1>7. CASE FastOut(s)
  <2>1. pc[s] = "fastout" /\ self[s] \in Peers
    BY <1>7, Working DEF FastOut
  <2>2. /\ pc'[s] \in {"share", "orphans"} /\ OnlyThread(s)
        /\ self'[s] = self[s] /\ item'[s] = item[s]
        /\ req'[self[s]] = item[s] /\ \A q \in Peers \ {self[s]} : req'[q] = req[q]
        /\ UNCHANGED <<finished, link, notices, told>>
    BY <1>7, <1>t, <2>1, GotoFrame, AskFrame DEF FastOut, OnlyThread, ThreadsOK
  <2>3. item[s] \in InHand(s)
    BY <2>1 DEF InHand
  <2> QED
    BY <2>2, <2>3, TakeKeeps
<1>8. CASE TakeOrphans(s)
  <2>1. /\ pc[s] = "orphans" /\ pc'[s] \in {"idle", "clean"} /\ OnlyThread(s)
        /\ pc'[s] = "clean" => self'[s] = self[s] /\ item'[s] = item[s]
        /\ UNCHANGED <<finished, link, req, notices, told>>
    BY <1>8, <1>t, ReturnFrame, CallWriteFrame DEF TakeOrphans
  <2>2. Fits(s)
    BY <2>1, Working DEF Fits, InHand
  <2> QED
    BY <2>1, <2>2, MoveKeeps
<1>9. CASE Clean(s)
  <2>1. /\ pc[s] = "clean" /\ pc'[s] = "store" /\ OnlyThread(s)
        /\ self'[s] = self[s] /\ item'[s] = item[s]
        /\ UNCHANGED <<finished, link, req, notices, told>>
    BY <1>9, <1>t DEF Clean, OnlyThread, ThreadsOK
  <2>2. Fits(s)
    BY <2>1, Working DEF Fits, InHand
  <2> QED
    BY <2>1, <2>2, MoveKeeps
<1>10. CASE Store(s)
  <2>1. /\ pc[s] = "store" /\ OnlyThread(s)
        /\ self'[s] = self[s] /\ item'[s] = item[s]
        /\ UNCHANGED <<link, req, notices, told>>
    BY <1>10, <1>t DEF Store, OnlyThread, ThreadsOK
  <2>2. CASE item[s] \in finished \/ priority[item[s]] = 0
    <3>1. pc'[s] = "after" /\ UNCHANGED finished
      BY <1>10, <1>t, <2>2 DEF Store, ThreadsOK
    <3>2. Fits(s)
      BY <2>1, <3>1, Working DEF Fits, InHand
    <3> QED
      BY <2>1, <3>1, <3>2, MoveKeeps
  <2>3. CASE ~(item[s] \in finished \/ priority[item[s]] = 0)
    <3>1. /\ pc'[s] = "broadcast" /\ todo'[s] = Sessions
          /\ finished' = finished \cup {item[s]}
      BY <1>10, <1>t, <2>3 DEF Store, ThreadsOK
    <3>2. \A p \in Peers : /\ Covered(p, item[s])'
                           /\ \A i \in Pieces : Covered(p, i) => Covered(p, i)'
      BY <2>1, <3>1, SessionsAssumption DEF Covered, OnlyThread
    <3>3. item[s] \in Pieces /\ self[s] \in Peers /\ req[self[s]] = item[s]
      BY <2>1, Working DEF Bare
    <3>4. HandlerOK'
      BY <2>1, <3>1, <3>3, Working DEF HandlerOK, OnlyThread, TaskInv
    <3>5. NoStranded'
      BY <2>1, <3>1, <3>2, <1>t DEF NoStranded, TaskInv, StorageOK
    <3>6. /\ InHand(s)' = {}
          /\ \A t \in Sessions \ {s} : InHand(t)' = InHand(t) /\ InHand(t) \subseteq Pieces
          /\ \A t \in Sessions : InHand(t) # {} => self[t] \in Peers
      BY <2>1, <3>1, <1>t, InHandFrame, InHandPeer DEF InHand, TaskInv
    <3>7. StaleCovered'
      BY <2>1, <3>1, <3>2, <3>6 DEF StaleCovered, TaskInv, OnlyThread
    <3>8. Unheard'
      BY <2>1, <3>1, <3>6 DEF Unheard, TaskInv, OnlyThread
    <3> QED
      BY <3>4, <3>5, <3>7, <3>8 DEF TaskInv
  <2> QED
    BY <2>2, <2>3
<1>11. CASE Broadcast(s)
  <2>1. PICK t \in todo[s] :
           /\ notices' = [p \in Peers |-> IF SessionOf[p] = t /\ link[p] = "open"
                                           THEN notices[p] \cup {item[s]} ELSE notices[p]]
           /\ todo' = [todo EXCEPT ![s] = @ \ {t}]
           /\ pc' = [pc EXCEPT ![s] = IF todo[s] = {t} THEN "after" ELSE "broadcast"]
    BY <1>11 DEF Broadcast
  <2>2. /\ pc[s] = "broadcast" /\ pc'[s] \in {"broadcast", "after"}
        /\ todo'[s] = todo[s] \ {t} /\ (pc'[s] = "after" => todo[s] = {t})
        /\ self' = self /\ item' = item /\ OnlyThread(s)
        /\ UNCHANGED <<finished, link, req, told>>
    BY <1>11, <2>1, <1>t DEF Broadcast, OnlyThread, ThreadsOK
  <2>3. /\ item[s] \in Pieces /\ self[s] \in Peers /\ SessionOf[self[s]] = s
        /\ req[self[s]] = item[s] /\ item[s] \in finished
    BY <2>2, Working DEF Bare, TaskInv, HandlerOK
  <2>4. ASSUME NEW p \in Peers, NEW i \in Pieces, link[p] = "open", Covered(p, i)
        PROVE  Covered(p, i)'
    <3>1. CASE i \in notices[p]
      BY <2>1, <3>1 DEF Covered
    <3>2. ASSUME NEW r \in Sessions, pc[r] = "broadcast", item[r] = i,
                 SessionOf[p] \in todo[r]
          PROVE  Covered(p, i)'
      <4>1. CASE r # s
        BY <2>2, <3>2, <4>1 DEF Covered, OnlyThread
      <4>2. CASE r = s /\ SessionOf[p] = t
        BY <2>1, <2>4, <3>2, <4>2 DEF Covered
      <4>3. CASE r = s /\ SessionOf[p] # t
        BY <2>2, <3>2, <4>3 DEF Covered
      <4> QED
        BY <4>1, <4>2, <4>3
    <3> QED
      BY <2>4, <3>1, <3>2 DEF Covered
  <2>5. HandlerOK'
    BY <2>2, <2>3 DEF HandlerOK, OnlyThread, TaskInv
  <2>6. NoStranded'
    BY <2>2, <2>4, <1>t, PiecesAssumption DEF NoStranded, TaskInv, HandlerOK, StorageOK
  <2>7. /\ InHand(s)' = {}
        /\ \A r \in Sessions \ {s} : InHand(r)' = InHand(r) /\ InHand(r) \subseteq Pieces
        /\ \A r \in Sessions : InHand(r) # {} => self[r] \in Peers /\ link[self[r]] = "open"
    BY <2>2, <1>t, InHandFrame, InHandPeer DEF InHand, TaskInv
  <2>8. StaleCovered'
    BY <2>2, <2>4, <2>7 DEF StaleCovered, TaskInv, OnlyThread
  <2>9. \A p \in Peers : notices'[p] \subseteq notices[p] \cup {item[s]}
    BY <2>1
  <2>10. Unheard'
    BY <2>2, <2>3, <2>7, <2>9 DEF Unheard, TaskInv, OnlyThread
  <2> QED
    BY <2>5, <2>6, <2>8, <2>10 DEF TaskInv
<1>12. CASE AfterCancel(s)
  <2>1. pc[s] = "after" /\ self[s] \in Peers /\ SessionOf[self[s]] = s
    BY <1>12, Working DEF AfterCancel
  <2>2. /\ pc'[s] = "idle" /\ OnlyThread(s)
        /\ req'[self[s]] = NoPiece /\ \A q \in Peers \ {self[s]} : req'[q] = req[q]
        /\ UNCHANGED <<finished, link, notices, told>>
    BY <1>12, <1>t, <2>1, ReturnFrame, AskFrame DEF AfterCancel, Reset
  <2> QED
    BY <2>1, <2>2, FreeKeeps
<1>13. CASE AfterReset(s)
  <2>1. pc[s] = "after" /\ self[s] \in Peers /\ SessionOf[self[s]] = s
    BY <1>13, Working DEF AfterReset
  <2>2. /\ pc'[s] = "idle" /\ OnlyThread(s)
        /\ req'[self[s]] = NoPiece /\ \A q \in Peers \ {self[s]} : req'[q] = req[q]
        /\ UNCHANGED <<finished, link, notices, told>>
    BY <1>13, <1>t, <2>1, ReturnFrame, AskFrame DEF AfterReset, Reset
  <2> QED
    BY <2>1, <2>2, FreeKeeps
<1>14. CASE AfterShare(s)
  <2>1. pc[s] = "after" /\ self[s] \in Peers /\ SessionOf[self[s]] = s
    BY <1>14, Working DEF AfterShare
  <2>2. pc'[s] = "idle" /\ OnlyThread(s) /\ UNCHANGED finished
    BY <1>14, <1>t, ReturnFrame DEF AfterShare
  <2>3. CASE CloseLink(self[s])
    BY <1>t, <2>1, <2>2, <2>3, CloseLinkFrame, CloseKeeps
  <2>4. CASE UNCHANGED <<link, req, coop, notices, told, downloading>>
    BY <2>1, <2>2, <2>4, MoveKeeps DEF Fits, InHand
  <2> QED
    BY <1>14, <2>3, <2>4 DEF AfterShare
<1> QED
  BY <1>1, <1>2, <1>3, <1>4, <1>5, <1>6, <1>7, <1>8, <1>9, <1>10, <1>11, <1>12,
     <1>13, <1>14 DEF ThreadStep

\* The handlers a thread starts for one of its peers.
LEMMA PeerInvStep ==
    ASSUME TaskInv, TypeOK', NEW p \in Peers, PeerStep(p)
    PROVE  TaskInv'
<1> DEFINE s == SessionOf[p]
<1> USE DEF storage, peers, threads
<1>t. StorageOK /\ PeersOK /\ ThreadsOK /\ s \in Sessions
  BY SessionsAssumption DEF TaskInv, TypeOK
<1>1. CASE Shake(p)
  <2>1. /\ pc[s] = "idle" /\ link[p] = "closed" /\ link'[p] = "shaken"
        /\ \A q \in Peers \ {p} : link'[q] = link[q]
        /\ UNCHANGED <<finished, req, notices, told, pc, self, item, wish, todo>>
    BY <1>1, <1>t DEF Shake, Free, PeersOK
  <2>2. \A q \in Peers, i \in Pieces : Covered(q, i) <=> Covered(q, i)'
    BY <2>1 DEF Covered
  <2>3. \A r \in Sessions : pc[r] # "idle" => self[r] \in Peers \ {p}
    BY <2>1 DEF TaskInv, HandlerOK
  <2>4. HandlerOK'
    BY <2>1, <2>3 DEF HandlerOK, TaskInv
  <2>5. NoStranded'
    BY <2>1, <2>2, <1>t DEF NoStranded, TaskInv, StorageOK
  <2>6. \A r \in Sessions : /\ InHand(r)' = InHand(r) /\ InHand(r) \subseteq Pieces
                            /\ InHand(r) # {} => self[r] \in Peers
    BY <2>1, <1>t DEF InHand, ThreadsOK, Bare, TaskInv, HandlerOK
  <2>7. StaleCovered' /\ Unheard'
    BY <2>1, <2>2, <2>6 DEF StaleCovered, Unheard, TaskInv
  <2> QED
    BY <2>4, <2>5, <2>7 DEF TaskInv
<1>2. CASE CopyBitfield(p)
  <2>1. /\ pc[s] = "idle" /\ pc'[s] = "bitfield" /\ self'[s] = p /\ OnlyThread(s)
        /\ link[p] = "shaken" /\ told'[p] = finished /\ notices'[p] = {}
        /\ \A q \in Peers \ {p} : told'[q] = told[q] /\ notices'[q] = notices[q]
        /\ UNCHANGED <<finished, link, req>>
    BY <1>2, <1>t, GotoFrame DEF CopyBitfield, Free, PeersOK, OnlyThread
  <2>2. req[p] = NoPiece
    BY <2>1 DEF TaskInv, HandlerOK
  <2>3. \A q \in Peers \ {p}, i \in Pieces : Covered(q, i) => Covered(q, i)'
    BY <2>1 DEF Covered, OnlyThread
  <2>4. HandlerOK'
    BY <2>1 DEF HandlerOK, OnlyThread, TaskInv
  <2>5. NoStranded'
    BY <2>1, <2>2, <2>3, <1>t, PiecesAssumption DEF NoStranded, TaskInv, StorageOK
  <2>6. /\ InHand(s)' = {}
        /\ \A t \in Sessions \ {s} : InHand(t)' = InHand(t) /\ InHand(t) \subseteq Pieces
        /\ \A t \in Sessions \ {s} : InHand(t) # {} => self[t] \in Peers \ {p}
    BY <2>1, <1>t, InHandFrame, InHandPeer DEF InHand, TaskInv
  <2>7. StaleCovered'
    BY <2>1, <2>3, <2>6 DEF StaleCovered, TaskInv, OnlyThread
  <2>8. Unheard'
    BY <2>1, <2>2, <2>6, <1>t, PiecesAssumption DEF Unheard, TaskInv, OnlyThread, StorageOK
  <2> QED
    BY <2>4, <2>5, <2>7, <2>8 DEF TaskInv
<1>3. CASE Close(p)
  <2>1. pc[s] = "idle" /\ pc'[s] = "idle" /\ OnlyThread(s) /\ UNCHANGED finished
    BY <1>3 DEF Close, Free, OnlyThread
  <2> QED
    BY <1>3, <1>t, <2>1, CloseLinkFrame, CloseKeeps DEF Close
<1>4. CASE Scan(p)
  <2>1. PICK have \in PeerSets :
           wish' = [wish EXCEPT ![s] =
                      [i \in Pieces |-> IF i \in have \ finished THEN priority[i] ELSE 0]]
    BY <1>4 DEF Scan
  <2>2. /\ pc[s] = "idle" /\ pc'[s] = "scanned" /\ self'[s] = p /\ OnlyThread(s)
        /\ link[p] = "open" /\ req[p] = NoPiece
        /\ \A i \in Pieces : wish'[s][i] > 0 => i \notin finished
        /\ UNCHANGED <<finished, link, req, notices, told>>
    BY <1>4, <1>t, <2>1, GotoFrame DEF Scan, Free, OnlyThread, ThreadsOK
  <2>3. told[p] \subseteq finished
    BY DEF TaskInv, Unheard
  <2>4. Fits(s)
    BY <2>2, <2>3 DEF Fits, InHand
  <2> QED
    BY <1>t, <2>2, <2>4, MoveKeeps
<1>5. CASE FastCheck(p)
  <2>1. PICK i \in Pieces \ finished :
           Goto(s, IF downloading[i] > 0 THEN "fastin" ELSE "fastout", p, i)
    BY <1>5 DEF FastCheck
  <2>2. /\ pc[s] = "idle" /\ pc'[s] \in {"fastin", "fastout"} /\ OnlyThread(s)
        /\ self'[s] = p /\ item'[s] = i /\ link[p] = "open" /\ req[p] = NoPiece
        /\ UNCHANGED <<finished, link, req, notices, told>>
    BY <1>5, <1>t, <2>1, GotoFrame DEF FastCheck, Free, OnlyThread
  <2>3. told[p] \subseteq finished
    BY DEF TaskInv, Unheard
  <2>4. Fits(s)
    BY <2>1, <2>2, <2>3 DEF Fits, InHand
  <2> QED
    BY <1>t, <2>2, <2>4, MoveKeeps
<1>6. CASE ShareOn(p)
  <2>1. /\ pc[s] = "share" /\ pc'[s] = "idle" /\ OnlyThread(s)
        /\ UNCHANGED <<finished, link, req, notices, told>>
    BY <1>6, <1>t, ReturnFrame DEF ShareOn
  <2> QED
    BY <1>t, <2>1, MoveKeeps DEF Fits, InHand
<1>7. CASE ShareRefused(p)
  <2>1. /\ pc[s] \in {"idle", "share"} /\ pc'[s] = "idle" /\ OnlyThread(s)
        /\ UNCHANGED finished
    BY <1>7, <1>t, ReturnFrame DEF ShareRefused, Sharing
  <2> QED
    BY <1>7, <1>t, <2>1, CloseLinkFrame, CloseKeeps DEF ShareRefused
<1>8. CASE ShareOrphans(p)
  <2>1. PICK a \in {"close", "keep"} : CallWrite(s, p, req[p], a)
    BY <1>8 DEF ShareOrphans
  <2>2. /\ pc[s] \in {"idle", "share"} /\ pc'[s] = "clean" /\ OnlyThread(s)
        /\ self'[s] = p /\ item'[s] = req[p]
        /\ UNCHANGED <<finished, link, req, notices, told>>
    BY <1>8, <1>t, <2>1, CallWriteFrame DEF ShareOrphans, Sharing
  <2> QED
    BY <1>t, <2>2, MoveKeeps DEF Fits, InHand
<1>9. CASE PieceGood(p)
  <2>1. /\ pc[s] = "idle" /\ pc'[s] = "clean" /\ OnlyThread(s)
        /\ self'[s] = p /\ item'[s] = req[p]
        /\ UNCHANGED <<finished, link, req, notices, told>>
    BY <1>9, <1>t, CallWriteFrame DEF PieceGood, Free
  <2> QED
    BY <1>t, <2>1, MoveKeeps DEF Fits, InHand
<1>10. CASE PieceBad(p)
  <2>1. pc[s] = "idle" /\ pc'[s] = "idle" /\ OnlyThread(s) /\ UNCHANGED finished
    BY <1>10 DEF PieceBad, Free, OnlyThread
  <2> QED
    BY <1>10, <1>t, <2>1, CloseLinkFrame, CloseKeeps DEF PieceBad
<1>11. CASE CoopLate(p)
  <2>1. /\ pc[s] = "idle" /\ pc'[s] = "idle" /\ OnlyThread(s)
        /\ req'[p] = NoPiece /\ \A q \in Peers \ {p} : req'[q] = req[q]
        /\ UNCHANGED <<finished, link, notices, told>>
    BY <1>11, <1>t, AskFrame DEF CoopLate, Reset, Free, OnlyThread
  <2> QED
    BY <1>t, <2>1, FreeKeeps
<1>12. CASE Stray(p)
  <2>1. /\ pc[s] = "idle" /\ pc'[s] = "idle" /\ OnlyThread(s)
        /\ UNCHANGED <<finished, link, req, notices, told>>
    BY <1>12 DEF Stray, Free, OnlyThread
  <2> QED
    BY <1>t, <2>1, MoveKeeps DEF Fits, InHand
<1>13. CASE NoticeNewHavePiece(p)
  <2>1. /\ pc[s] = "idle" /\ link[p] = "open" /\ notices'[p] = {}
        /\ told'[p] = told[p] \cup notices[p]
        /\ \A q \in Peers \ {p} : told'[q] = told[q] /\ notices'[q] = notices[q]
        /\ UNCHANGED <<finished, link, pc, self, item, wish, todo>>
    BY <1>13, <1>t DEF NoticeNewHavePiece, Free, PeersOK
  <2>2. /\ req'[p] = IF req[p] \in notices[p] THEN NoPiece ELSE req[p]
        /\ \A q \in Peers \ {p} : req'[q] = req[q]
    BY <1>13, <1>t, AskFrame DEF NoticeNewHavePiece, Reset
  <2>3. \A q \in Peers \ {p}, i \in Pieces : Covered(q, i) => Covered(q, i)'
    BY <2>1 DEF Covered
  <2>4. \A i \in Pieces : Covered(p, i) => i \in notices[p] \/ Covered(p, i)'
    BY <2>1 DEF Covered
  <2>5. HandlerOK'
    BY <2>1, <2>2 DEF HandlerOK, TaskInv
  <2>6. NoStranded'
    BY <2>1, <2>2, <2>3, <2>4, <1>t, PiecesAssumption DEF NoStranded, TaskInv, StorageOK
  <2>7. \A t \in Sessions : /\ InHand(t)' = InHand(t) /\ InHand(t) \subseteq Pieces
                            /\ InHand(t) # {} => self[t] \in Peers \ {p}
    BY <2>1, <1>t DEF InHand, ThreadsOK, Bare, TaskInv, HandlerOK
  <2>8. StaleCovered'
    BY <2>1, <2>3, <2>7 DEF StaleCovered, TaskInv
  <2>9. Unheard'
    BY <2>1, <2>2, <2>7, <1>t, PiecesAssumption DEF Unheard, TaskInv, StorageOK
  <2> QED
    BY <2>5, <2>6, <2>8, <2>9 DEF TaskInv
<1> QED
  BY <1>1, <1>2, <1>3, <1>4, <1>5, <1>6, <1>7, <1>8, <1>9, <1>10, <1>11, <1>12,
     <1>13 DEF PeerStep

\* Every step keeps the invariant.
LEMMA TaskInvStep == TaskInv /\ [Next]_vars => TaskInv'
<1> SUFFICES ASSUME TaskInv, [Next]_vars PROVE TaskInv'
  OBVIOUS
<1>t. TypeOK'
  BY TypeStep DEF TaskInv
<1>1. CASE \E s \in Sessions : ThreadStep(s)
  BY <1>1, <1>t, ThreadInvStep
<1>2. CASE \E p \in Peers : PeerStep(p)
  BY <1>2, <1>t, PeerInvStep
<1>3. CASE GenPriorityClear \/ GenPrioritySet \/ UNCHANGED vars
  <2>1. UNCHANGED <<finished, peers, threads>>
    BY <1>3 DEF GenPriorityClear, GenPrioritySet, vars, storage
  <2> QED
    BY <1>t, <2>1 DEF TaskInv, HandlerOK, NoStranded, StaleCovered, Unheard, InHand,
       Covered, peers, threads
<1> QED
  BY <1>1, <1>2, <1>3 DEF Next

\* TaskInv is an invariant: what the threads remember stays true of their
\* peers, and every stored piece they may still ask for is being announced.
THEOREM TaskInvariant == Spec => []TaskInv
  BY TaskInvInit, TaskInvStep, PTL DEF Spec

\* However the threads interleave, a peer that is still asked for a piece
\* stored by another one is bound to get the notice that frees it.
THEOREM NeverStranded == Spec => []NoStranded
  BY TaskInvariant, PTL DEF TaskInv

-----------------------------------------------------------------------------
(* PieceTasks implements PieceBoard, for any constants.                      *)

\* The first states of PieceTasks are first states of PieceBoard.
LEMMA BoardInit == Init => Board!Init
  BY DEF Init, Board!Init

\* A step that stores nothing, asks and tells nobody is a stutter.
LEMMA Stutter ==
    ASSUME UNCHANGED <<finished, req, told>>
    PROVE  [Board!Next]_Board!vars
  BY DEF Board!vars

\* Asking for a piece in hand is Take.
LEMMA TakeMaps ==
    ASSUME TaskInv, NEW s \in Sessions, NEW i \in InHand(s), NEW c, Ask(self[s], i, c),
           UNCHANGED <<finished, told>>
    PROVE  [Board!Next]_Board!vars
<1>1. self[s] \in Peers /\ req[self[s]] = NoPiece /\ i \notin told[self[s]]
  BY InHandPeer DEF TaskInv, Unheard
<1>2. i \in Pieces
  BY DEF InHand, TaskInv, TypeOK, ThreadsOK, Bare
<1>3. Board!Take(self[s], i)
  BY <1>1 DEF Board!Take, Ask
<1> QED
  BY <1>1, <1>2, <1>3 DEF Board!Next

\* Giving a task up is Drop, closing a link is Forget.
LEMMA ResetMaps ==
    ASSUME NEW p \in Peers, Reset(p), UNCHANGED <<finished, told>>
    PROVE  [Board!Next]_Board!vars
<1>1. Board!Drop(p)
  BY DEF Board!Drop, Reset, Ask
<1> QED
  BY <1>1 DEF Board!Next

\* A link that closes is a peer that is forgotten.
LEMMA CloseMaps ==
    ASSUME NEW p \in Peers, CloseLink(p), UNCHANGED finished
    PROVE  [Board!Next]_Board!vars
<1>1. Board!Forget(p)
  BY DEF Board!Forget, CloseLink, Reset, Ask
<1> QED
  BY <1>1 DEF Board!Next

\* A step of a busy thread is a step of PieceBoard, or none.
LEMMA ThreadStepMaps ==
    ASSUME TaskInv, NEW s \in Sessions, ThreadStep(s)
    PROVE  [Board!Next]_Board!vars
<1> USE DEF storage, peers, threads
<1>1. CASE BitfieldSent(s)
  BY <1>1, Stutter DEF BitfieldSent
<1>2. CASE Choose(s)
  BY <1>2, Stutter DEF Choose
<1>3. CASE Register(s)
  <2>1. item[s] \in InHand(s)
    BY <1>3 DEF Register, InHand
  <2>2. PICK c : Ask(self[s], item[s], c)
    BY <1>3 DEF Register
  <2> QED
    BY <1>3, <2>1, <2>2, TakeMaps DEF Register
<1>4. CASE Help(s)
  <2>1. PICK i \in Helpful(s) : Ask(self[s], i, TRUE)
    BY <1>4 DEF Help
  <2>2. i \in InHand(s)
    BY <1>4 DEF Help, Helpful, InHand
  <2> QED
    BY <1>4, <2>1, <2>2, TakeMaps DEF Help
<1>5. CASE NoTask(s)
  BY <1>5, Stutter DEF NoTask
<1>6. CASE FastIn(s)
  <2>1. item[s] \in InHand(s)
    BY <1>6 DEF FastIn, InHand
  <2>2. CASE Ask(self[s], item[s], TRUE)
    BY <1>6, <2>1, <2>2, TakeMaps DEF FastIn
  <2>3. CASE UNCHANGED <<req, coop>>
    BY <1>6, <2>3, Stutter DEF FastIn
  <2> QED
    BY <1>6, <2>2, <2>3 DEF FastIn
<1>7. CASE FastOut(s)
  <2>1. item[s] \in InHand(s)
    BY <1>7 DEF FastOut, InHand
  <2> QED
    BY <1>7, <2>1, TakeMaps DEF FastOut
<1>8. CASE TakeOrphans(s)
  BY <1>8, Stutter DEF TakeOrphans
<1>9. CASE Clean(s)
  BY <1>9, Stutter DEF Clean
<1>10. CASE Store(s)
  <2>1. self[s] \in Peers /\ item[s] \in Pieces /\ req[self[s]] = item[s]
    BY <1>10, Working DEF Store, Bare
  <2>2. CASE item[s] \in finished \/ priority[item[s]] = 0
    BY <1>10, <2>2, Stutter DEF Store
  <2>3. CASE ~(item[s] \in finished \/ priority[item[s]] = 0)
    <3>1. Board!Keep(self[s])
      BY <1>10, <2>1, <2>3 DEF Store, Board!Keep
    <3> QED
      BY <2>1, <3>1 DEF Board!Next
  <2> QED
    BY <2>2, <2>3
<1>11. CASE Broadcast(s)
  BY <1>11, Stutter DEF Broadcast
<1>12. CASE AfterCancel(s)
  BY <1>12, Working, ResetMaps DEF AfterCancel
<1>13. CASE AfterReset(s)
  BY <1>13, Working, ResetMaps DEF AfterReset
<1>14. CASE AfterShare(s)
  BY <1>14, Working, CloseMaps, Stutter DEF AfterShare
<1> QED
  BY <1>1, <1>2, <1>3, <1>4, <1>5, <1>6, <1>7, <1>8, <1>9, <1>10, <1>11, <1>12,
     <1>13, <1>14 DEF ThreadStep

\* A handler of a peer is a step of PieceBoard, or none.
LEMMA PeerStepMaps ==
    ASSUME TaskInv, NEW p \in Peers, PeerStep(p)
    PROVE  [Board!Next]_Board!vars
<1> USE DEF storage, peers, threads
<1>1. CASE Shake(p)
  BY <1>1, Stutter DEF Shake
<1>2. CASE CopyBitfield(p)
  <2>1. req[p] = NoPiece
    BY <1>2 DEF CopyBitfield, TaskInv, HandlerOK
  <2>2. Board!Greet(p)
    BY <1>2, <2>1 DEF CopyBitfield, Board!Greet
  <2> QED
    BY <2>2 DEF Board!Next
<1>3. CASE Close(p)
  BY <1>3, CloseMaps DEF Close
<1>4. CASE Scan(p)
  BY <1>4, Stutter DEF Scan
<1>5. CASE FastCheck(p)
  BY <1>5, Stutter DEF FastCheck
<1>6. CASE ShareOn(p)
  BY <1>6, Stutter DEF ShareOn
<1>7. CASE ShareRefused(p)
  BY <1>7, CloseMaps DEF ShareRefused
<1>8. CASE ShareOrphans(p)
  BY <1>8, Stutter DEF ShareOrphans
<1>9. CASE PieceGood(p)
  BY <1>9, Stutter DEF PieceGood
<1>10. CASE PieceBad(p)
  BY <1>10, CloseMaps DEF PieceBad
<1>11. CASE CoopLate(p)
  BY <1>11, ResetMaps DEF CoopLate
<1>12. CASE Stray(p)
  BY <1>12, Stutter DEF Stray
<1>13. CASE NoticeNewHavePiece(p)
  <2>1. notices[p] \in SUBSET finished
    BY DEF TaskInv, Unheard
  <2>2. req' = [req EXCEPT ![p] = IF @ \in notices[p] THEN NoPiece ELSE @]
    BY <1>13 DEF NoticeNewHavePiece, Reset, Ask, TaskInv, TypeOK, PeersOK
  <2>3. Board!Tell(p)
    BY <1>13, <2>1, <2>2 DEF NoticeNewHavePiece, Board!Tell
  <2> QED
    BY <2>3 DEF Board!Next
<1> QED
  BY <1>1, <1>2, <1>3, <1>4, <1>5, <1>6, <1>7, <1>8, <1>9, <1>10, <1>11, <1>12,
     <1>13 DEF PeerStep

\* The threads, counts and notices implement PieceBoard: a piece is stored
\* once, by a peer that is asked for it, and no peer is asked for a piece it
\* was told we have.
THEOREM Implements == Spec => BoardSpec
<1>1. TaskInv /\ [Next]_vars => [Board!Next]_Board!vars
  <2> SUFFICES ASSUME TaskInv, [Next]_vars PROVE [Board!Next]_Board!vars
    OBVIOUS
  <2>1. CASE GenPriorityClear \/ GenPrioritySet \/ UNCHANGED vars
    BY <2>1, Stutter DEF GenPriorityClear, GenPrioritySet, vars, storage, peers
  <2> QED
    BY <2>1, ThreadStepMaps, PeerStepMaps DEF Next
<1> QED
  BY <1>1, BoardInit, TaskInvariant, PTL DEF Spec, BoardSpec, Board!Spec

\* PieceBoard: no peer is asked for a piece it was told we have, and nothing is
\* announced that is not stored.
THEOREM BoardSafe == BoardSpec => [](Board!TypeOK /\ Board!NotAskedOnceTold)
<1> DEFINE Inv == Board!TypeOK /\ Board!NotAskedOnceTold
<1>1. Board!Init => Inv
  BY PiecesAssumption DEF Board!Init, Board!TypeOK, Board!NotAskedOnceTold
<1>2. Inv /\ [Board!Next]_Board!vars => Inv'
  <2> SUFFICES ASSUME Inv, [Board!Next]_Board!vars PROVE Inv'
    OBVIOUS
  <2> USE PiecesAssumption DEF Board!TypeOK, Board!NotAskedOnceTold
  <2>1. ASSUME NEW p \in Peers, NEW i \in Pieces, Board!Take(p, i) PROVE Inv'
    BY <2>1 DEF Board!Take
  <2>2. ASSUME NEW p \in Peers, Board!Drop(p) PROVE Inv'
    BY <2>2 DEF Board!Drop
  <2>3. ASSUME NEW p \in Peers, Board!Keep(p) PROVE Inv'
    BY <2>3 DEF Board!Keep
  <2>4. ASSUME NEW p \in Peers, Board!Tell(p) PROVE Inv'
    <3>1. PICK new \in SUBSET finished :
            /\ told' = [told EXCEPT ![p] = @ \cup new]
            /\ req' = [req EXCEPT ![p] = IF @ \in new THEN NoPiece ELSE @]
      BY <2>4 DEF Board!Tell
    <3> QED
      BY <2>4, <3>1 DEF Board!Tell
  <2>5. ASSUME NEW p \in Peers, Board!Greet(p) PROVE Inv'
    BY <2>5 DEF Board!Greet
  <2>6. ASSUME NEW p \in Peers, Board!Forget(p) PROVE Inv'
    BY <2>6 DEF Board!Forget
  <2>7. CASE UNCHANGED Board!vars
    BY <2>7 DEF Board!vars
  <2> QED
    BY <2>1, <2>2, <2>3, <2>4, <2>5, <2>6, <2>7 DEF Board!Next
<1> QED
  BY <1>1, <1>2, PTL DEF BoardSpec, Board!Spec

\* So the threads, however they interleave, do neither.
THEOREM ToldNotAsked == Spec => []Board!NotAskedOnceTold
  BY Implements, BoardSafe, PTL

-----------------------------------------------------------------------------
(* The counts of m_DownloadingMap when tasks come from the locked            *)
(* GetPieceTask(bitset) only (no suggested or allow-fast pieces).            *)

NoFast == \A s \in Sessions : pc[s] \notin {"fastin", "fastout"}

CountInv == TaskInv /\ NoFast /\ CountExact /\ SoloUnique

\* A piece has finitely many holders.
LEMMA HoldersFinite == \A i : IsFiniteSet(Holders(i)) /\ Cardinality(Holders(i)) \in Nat
  BY PeersAssumption, FS_Subset, FS_CardinalityType DEF Holders

\* One more holder of i ...
LEMMA HolderJoins ==
    ASSUME NEW p \in Peers, NEW i \in Pieces, req[p] = NoPiece, req'[p] = i,
           \A q \in Peers \ {p} : req'[q] = req[q]
    PROVE  /\ Cardinality(Holders(i))' = Cardinality(Holders(i)) + 1
           /\ Holders(i)' = Holders(i) \cup {p}
           /\ \A j \in Pieces \ {i} : Holders(j)' = Holders(j)
<1>1. Holders(i)' = Holders(i) \cup {p} /\ p \notin Holders(i)
  BY PiecesAssumption DEF Holders
<1>2. \A j \in Pieces \ {i} : Holders(j)' = Holders(j)
  BY PiecesAssumption DEF Holders
<1>3. Cardinality(Holders(i) \cup {p}) = Cardinality(Holders(i)) + 1
  BY <1>1, HoldersFinite, FS_AddElement
<1> QED
  BY <1>1, <1>2, <1>3

\* ... and one less.
LEMMA HolderLeaves ==
    ASSUME NEW p \in Peers, NEW i \in Pieces, req[p] = i, req'[p] = NoPiece,
           \A q \in Peers \ {p} : req'[q] = req[q]
    PROVE  /\ Cardinality(Holders(i))' = Cardinality(Holders(i)) - 1
           /\ Cardinality(Holders(i)) > 0
           /\ \A j \in Pieces \ {i} : Holders(j)' = Holders(j)
<1>1. Holders(i)' = Holders(i) \ {p} /\ p \in Holders(i)
  BY PiecesAssumption DEF Holders
<1>2. \A j \in Pieces \ {i} : Holders(j)' = Holders(j)
  BY PiecesAssumption DEF Holders
<1>3. Cardinality(Holders(i) \ {p}) = Cardinality(Holders(i)) - 1
  BY <1>1, HoldersFinite, FS_RemoveElement
<1>4. Cardinality(Holders(i)) # 0
  BY <1>1, HoldersFinite, FS_EmptySet
<1> QED
  BY <1>1, <1>2, <1>3, <1>4, HoldersFinite

\* A step that leaves tasks and counts alone.
LEMMA StillKeeps ==
    ASSUME CountExact, SoloUnique, UNCHANGED <<downloading, lost, req, coop>>
    PROVE  CountExact' /\ SoloUnique'
<1>1. \A i : Holders(i)' = Holders(i)
  BY DEF Holders
<1> QED
  BY <1>1 DEF CountExact, SoloUnique

\* A peer joins the holders of i; alone if it does not cooperate.
LEMMA JoinKeeps ==
    ASSUME TypeOK, CountExact, SoloUnique, NEW p \in Peers, NEW i \in Pieces, NEW c \in BOOLEAN,
           req[p] = NoPiece, downloading[i] = 0 \/ c,
           Ask(p, i, c), downloading' = Join(i), UNCHANGED lost
    PROVE  CountExact' /\ SoloUnique'
<1>1. /\ req'[p] = i /\ \A q \in Peers \ {p} : req'[q] = req[q]
      /\ coop'[p] = c /\ \A q \in Peers \ {p} : coop'[q] = coop[q]
  BY DEF Ask, TypeOK, PeersOK
<1>2. /\ downloading'[i] = downloading[i] + 1
      /\ \A j \in Pieces \ {i} : downloading'[j] = downloading[j]
  BY DEF Join, TypeOK, StorageOK
<1>3. CountExact'
  BY <1>1, <1>2, HolderJoins, HoldersFinite DEF CountExact, TypeOK, StorageOK
<1>4. downloading[i] = 0 => Holders(i) = {}
  <2>1. downloading[i] = Cardinality(Holders(i)) + lost[i] /\ lost[i] \in Nat
    BY DEF CountExact, TypeOK, StorageOK
  <2>2. downloading[i] = 0 => Cardinality(Holders(i)) = 0
    BY <2>1, HoldersFinite
  <2> QED
    BY <2>2, HoldersFinite, FS_EmptySet
<1>5. \A q \in Peers : q \in Holders(i) => q # p
  BY PiecesAssumption DEF Holders
<1>6. SoloUnique'
  <2> SUFFICES ASSUME NEW j \in Pieces, NEW a \in Holders(j)', NEW b \in Holders(j)',
                      ~coop'[a], ~coop'[b]
               PROVE  a = b
    BY DEF SoloUnique
  <2>1. CASE j # i
    <3>1. a \in Holders(j) /\ b \in Holders(j) /\ a # p /\ b # p
      BY <2>1, <1>1, HolderJoins DEF Holders
    <3> QED
      BY <3>1, <1>1 DEF SoloUnique, Holders
  <2>2. CASE j = i /\ downloading[i] = 0
    BY <2>2, <1>1, <1>4, HolderJoins
  <2>3. CASE j = i /\ c
    <3>1. a \in Holders(i) /\ b \in Holders(i) /\ a # p /\ b # p
      BY <2>3, <1>1, HolderJoins
    <3> QED
      BY <3>1, <1>1 DEF SoloUnique, Holders
  <2> QED
    BY <2>1, <2>2, <2>3
<1> QED
  BY <1>3, <1>6

\* A holder leaves: its count is given back, or counted as lost.
LEMMA LeaveKeeps ==
    ASSUME TypeOK, CountExact, SoloUnique, NEW p \in Peers, NEW i \in Pieces,
           req[p] = i, Reset(p),
           \/ downloading' = Abandon(i) /\ UNCHANGED lost
           \/ lost' = [lost EXCEPT ![i] = @ + 1] /\ UNCHANGED downloading
    PROVE  CountExact' /\ SoloUnique'
<1>1. /\ req'[p] = NoPiece /\ \A q \in Peers \ {p} : req'[q] = req[q]
      /\ \A q \in Peers \ {p} : coop'[q] = coop[q]
  BY DEF Reset, Ask, TypeOK, PeersOK
<1>2. /\ downloading[i] = Cardinality(Holders(i)) + lost[i]
      /\ Cardinality(Holders(i)) > 0 /\ Cardinality(Holders(i)) \in Nat
      /\ lost[i] \in Nat /\ downloading[i] \in Nat
  BY <1>1, HolderLeaves, HoldersFinite DEF CountExact, TypeOK, StorageOK
<1>3. /\ downloading'[i] - lost'[i] = downloading[i] - lost[i] - 1
      /\ lost'[i] \in Nat /\ downloading'[i] \in Nat
      /\ \A j \in Pieces \ {i} : downloading'[j] = downloading[j] /\ lost'[j] = lost[j]
  BY <1>2 DEF Abandon, TypeOK, StorageOK
<1>4. CountExact'
  <2> SUFFICES ASSUME NEW j \in Pieces
               PROVE  downloading'[j] = Cardinality(Holders(j))' + lost'[j]
    BY DEF CountExact
  <2>1. CASE j = i
    BY <2>1, <1>1, <1>2, <1>3, HolderLeaves
  <2>2. CASE j # i
    BY <2>2, <1>1, <1>3, HolderLeaves DEF CountExact
  <2> QED
    BY <2>1, <2>2
<1>5. \A j \in Pieces : Holders(j)' = Holders(j) \ {p}
  BY <1>1, PiecesAssumption DEF Holders
<1>6. SoloUnique'
  <2> SUFFICES ASSUME NEW j \in Pieces, NEW a \in Holders(j)', NEW b \in Holders(j)',
                      ~coop'[a], ~coop'[b]
               PROVE  a = b
    BY DEF SoloUnique
  <2>1. a \in Holders(j) \ {p} /\ b \in Holders(j) \ {p}
    BY <1>5
  <2> QED
    BY <2>1, <1>1 DEF SoloUnique, Holders
<1> QED
  BY <1>4, <1>6

\* A link that closes gives back the count of its task, and no other.
LEMMA CloseKeepsCounts ==
    ASSUME TypeOK, CountExact, SoloUnique, NEW p \in Peers, CloseLink(p), UNCHANGED lost
    PROVE  CountExact' /\ SoloUnique'
<1>1. CASE req[p] = NoPiece
  <2>1. /\ UNCHANGED <<downloading, lost>> /\ req'[p] = NoPiece
        /\ \A q \in Peers \ {p} : req'[q] = req[q] /\ coop'[q] = coop[q]
    BY <1>1 DEF CloseLink, Reset, Ask, TypeOK, PeersOK
  <2>2. \A i \in Pieces : Holders(i)' = Holders(i) /\ p \notin Holders(i)
    BY <1>1, <2>1, PiecesAssumption DEF Holders
  <2>3. CountExact'
    BY <2>1, <2>2 DEF CountExact
  <2>4. SoloUnique'
    <3> SUFFICES ASSUME NEW i \in Pieces, NEW a \in Holders(i)', NEW b \in Holders(i)',
                        ~coop'[a], ~coop'[b]
                 PROVE  a = b
      BY DEF SoloUnique
    <3>1. a \in Holders(i) \ {p} /\ b \in Holders(i) \ {p}
      BY <2>2
    <3> QED
      BY <3>1, <2>1 DEF SoloUnique, Holders
  <2> QED
    BY <2>3, <2>4
<1>2. CASE req[p] # NoPiece
  <2>1. req[p] \in Pieces
    BY <1>2 DEF TypeOK, PeersOK
  <2> QED
    BY <1>2, <2>1, LeaveKeeps DEF CloseLink
<1> QED
  BY <1>1, <1>2

\* The steps of a busy thread keep the counts.
LEMMA ThreadCounts ==
    ASSUME CountInv, NEW s \in Sessions, ThreadStep(s)
    PROVE  CountExact' /\ SoloUnique'
<1> USE DEF storage, peers, threads, CountInv
<1>t. TypeOK
  BY DEF TaskInv
<1>1. CASE BitfieldSent(s)
  BY <1>1, StillKeeps DEF BitfieldSent
<1>2. CASE Choose(s)
  BY <1>2, StillKeeps DEF Choose
<1>3. CASE Register(s)
  <2>1. /\ self[s] \in Peers /\ item[s] \in Pieces /\ req[self[s]] = NoPiece
        /\ downloading[item[s]] \in Nat
    BY <1>3, <1>t, Working DEF Register, TaskInv, HandlerOK, Bare, TypeOK, StorageOK
  <2>2. PICK c \in BOOLEAN : /\ downloading[item[s]] > 0 => c
                             /\ Ask(self[s], item[s], c)
    <3> DEFINE c == \/ downloading[item[s]] > 0
                    \/ priority[item[s]] > 5
                    \/ Left < 2 * MapSize(Join(item[s]))
    <3>1. Ask(self[s], item[s], c)
      BY <1>3 DEF Register
    <3>2. c \in BOOLEAN
      OBVIOUS
    <3> QED
      BY <3>1, <3>2
  <2>3. downloading' = Join(item[s]) /\ UNCHANGED lost
    BY <1>3 DEF Register
  <2> QED
    BY <1>t, <2>1, <2>2, <2>3, JoinKeeps
<1>4. CASE Help(s)
  <2>1. self[s] \in Peers /\ req[self[s]] = NoPiece
    BY <1>4, Working DEF Help, TaskInv, HandlerOK
  <2>2. PICK i \in Helpful(s) : downloading' = Join(i) /\ Ask(self[s], i, TRUE)
    BY <1>4 DEF Help
  <2>3. i \in Pieces /\ UNCHANGED lost
    BY <1>4 DEF Help, Helpful
  <2> QED
    BY <1>t, <2>1, <2>2, <2>3, JoinKeeps
<1>5. CASE NoTask(s)
  BY <1>5, StillKeeps DEF NoTask
<1>6. CASE FastIn(s) \/ FastOut(s)
  BY <1>6 DEF FastIn, FastOut, NoFast
<1>7. CASE TakeOrphans(s)
  BY <1>7, StillKeeps DEF TakeOrphans
<1>8. CASE Clean(s)
  BY <1>8, StillKeeps DEF Clean
<1>9. CASE Store(s)
  BY <1>9, StillKeeps DEF Store
<1>10. CASE Broadcast(s)
  BY <1>10, StillKeeps DEF Broadcast
<1>11. CASE AfterCancel(s)
  BY <1>11, <1>t, Working, LeaveKeeps DEF AfterCancel, Bare
<1>12. CASE AfterReset(s)
  BY <1>12, <1>t, Working, LeaveKeeps DEF AfterReset, Bare
<1>13. CASE AfterShare(s)
  <2>1. self[s] \in Peers /\ UNCHANGED lost
    BY <1>13, Working DEF AfterShare
  <2>2. CASE CloseLink(self[s])
    BY <1>t, <2>1, <2>2, CloseKeepsCounts
  <2>3. CASE UNCHANGED <<peers, downloading>>
    BY <2>1, <2>3, StillKeeps
  <2> QED
    BY <1>13, <2>2, <2>3 DEF AfterShare
<1> QED
  BY <1>1, <1>2, <1>3, <1>4, <1>5, <1>6, <1>7, <1>8, <1>9, <1>10, <1>11, <1>12,
     <1>13 DEF ThreadStep

\* The handlers of a peer keep the counts.
LEMMA PeerCounts ==
    ASSUME CountInv, NEW p \in Peers, PeerStep(p)
    PROVE  CountExact' /\ SoloUnique'
<1> USE DEF storage, peers, threads, CountInv
<1>t. TypeOK
  BY DEF TaskInv
<1>1. CASE Shake(p)
  BY <1>1, StillKeeps DEF Shake
<1>2. CASE CopyBitfield(p)
  BY <1>2, StillKeeps DEF CopyBitfield
<1>3. CASE Close(p)
  BY <1>3, <1>t, CloseKeepsCounts DEF Close
<1>4. CASE Scan(p)
  BY <1>4, StillKeeps DEF Scan
<1>5. CASE FastCheck(p)
  BY <1>5, StillKeeps DEF FastCheck
<1>6. CASE ShareOn(p)
  BY <1>6, StillKeeps DEF ShareOn
<1>7. CASE ShareRefused(p)
  BY <1>7, <1>t, CloseKeepsCounts DEF ShareRefused
<1>8. CASE ShareOrphans(p)
  BY <1>8, StillKeeps DEF ShareOrphans
<1>9. CASE PieceGood(p)
  BY <1>9, StillKeeps DEF PieceGood
<1>10. CASE PieceBad(p)
  BY <1>10, <1>t, CloseKeepsCounts DEF PieceBad
<1>11. CASE CoopLate(p)
  <2>1. req[p] \in Pieces
    BY <1>11, <1>t DEF CoopLate, TypeOK, StorageOK
  <2> QED
    BY <1>11, <1>t, <2>1, LeaveKeeps DEF CoopLate
<1>12. CASE Stray(p)
  BY <1>12, StillKeeps DEF Stray
<1>13. CASE NoticeNewHavePiece(p)
  <2>1. CASE req[p] \in notices[p]
    <3>1. req[p] \in Pieces
      BY <2>1, <1>t DEF TypeOK, PeersOK
    <3> QED
      BY <1>13, <1>t, <2>1, <3>1, LeaveKeeps DEF NoticeNewHavePiece
  <2>2. CASE req[p] \notin notices[p]
    BY <1>13, <2>2, StillKeeps DEF NoticeNewHavePiece
  <2> QED
    BY <2>1, <2>2
<1> QED
  BY <1>1, <1>2, <1>3, <1>4, <1>5, <1>6, <1>7, <1>8, <1>9, <1>10, <1>11, <1>12,
     <1>13 DEF PeerStep

\* Without fast peers no thread is ever at a fast step.
LEMMA NoFastStep ==
    ASSUME FastPeers = {}, TypeOK, NoFast, [Next]_vars
    PROVE  NoFast'
<1> USE DEF NoFast, threads, TypeOK, ThreadsOK
<1>1. ASSUME NEW s \in Sessions, ThreadStep(s) PROVE NoFast'
  BY <1>1 DEF ThreadStep, BitfieldSent, Choose, Register, Help, NoTask, FastIn, FastOut,
     TakeOrphans, Clean, Store, Broadcast, AfterCancel, AfterReset, AfterShare,
     Goto, Return, CallWrite
<1>2. ASSUME NEW p \in Peers, PeerStep(p) PROVE NoFast'
  BY <1>2 DEF PeerStep, Shake, CopyBitfield, Close, Scan, FastCheck, ShareOn, ShareRefused,
     ShareOrphans, PieceGood, PieceBad, CoopLate, Stray, NoticeNewHavePiece,
     Goto, Return, CallWrite
<1>3. CASE GenPriorityClear \/ GenPrioritySet \/ UNCHANGED vars
  BY <1>3 DEF GenPriorityClear, GenPrioritySet, vars
<1> QED
  BY <1>1, <1>2, <1>3 DEF Next

\* The invariant holds at first.
LEMMA CountInvInit == Init => CountInv
<1> SUFFICES ASSUME Init PROVE CountInv
  OBVIOUS
<1>1. \A i \in Pieces : Holders(i) = {}
  BY PiecesAssumption DEF Init, Holders
<1>2. CountExact
  <2> SUFFICES ASSUME NEW i \in Pieces
               PROVE  downloading[i] = Cardinality(Holders(i)) + lost[i]
    BY DEF CountExact
  <2>1. Cardinality(Holders(i)) = 0
    BY <1>1, FS_EmptySet
  <2> QED
    BY <2>1 DEF Init
<1>3. SoloUnique
  BY <1>1 DEF SoloUnique
<1> QED
  BY <1>2, <1>3, TaskInvInit DEF CountInv, NoFast, Init

\* Every step keeps it, as long as nobody uses the fast lists.
LEMMA CountInvStep == FastPeers = {} /\ CountInv /\ [Next]_vars => CountInv'
<1> SUFFICES ASSUME FastPeers = {}, CountInv, [Next]_vars PROVE CountInv'
  OBVIOUS
<1>1. TaskInv' /\ NoFast'
  BY TaskInvStep, NoFastStep DEF CountInv, TaskInv
<1>2. CASE GenPriorityClear \/ GenPrioritySet \/ UNCHANGED vars
  <2>1. UNCHANGED <<downloading, lost, req, coop>>
    BY <1>2 DEF GenPriorityClear, GenPrioritySet, vars, storage, peers
  <2> QED
    BY <1>1, <2>1, StillKeeps DEF CountInv
<1> QED
  BY <1>1, <1>2, ThreadCounts, PeerCounts DEF Next, CountInv

\* Without suggested pieces the counts are exact: each entry counts its
\* holders and the completions that CheckOutOrphanData did not give back.
THEOREM CountsExact == FastPeers = {} /\ Spec => []CountExact
<1> SUFFICES ASSUME FastPeers = {} PROVE Spec => []CountExact
  OBVIOUS
<1>1. CountInv /\ [Next]_vars => CountInv'
  BY CountInvStep
<1>2. CountInv => CountExact
  BY DEF CountInv
<1> QED
  BY CountInvInit, <1>1, <1>2, PTL DEF Spec

\* ... and no piece is fetched by two peers that do not cooperate.
THEOREM SoloTasksUnique == FastPeers = {} /\ Spec => []SoloUnique
<1> SUFFICES ASSUME FastPeers = {} PROVE Spec => []SoloUnique
  OBVIOUS
<1>1. CountInv /\ [Next]_vars => CountInv'
  BY CountInvStep
<1>2. CountInv => SoloUnique
  BY DEF CountInv
<1> QED
  BY CountInvInit, <1>1, <1>2, PTL DEF Spec
=============================================================================
