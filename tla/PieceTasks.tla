----------------------------- MODULE PieceTasks -----------------------------
(***************************************************************************)
(* How the session threads of a download share out the pieces, store them  *)
(* and tell each other about it.                                           *)
(*                                                                         *)
(* CBTStorage (BTStorage.cpp) is shared by the session threads.  It keeps  *)
(* m_FinishedBitSet, m_PriorityBitSet, m_OrphanMap, and m_DownloadingMap,  *)
(* which counts how many peers are asked for a piece.  A CBTPeer           *)
(* (BTPeer.cpp) belongs to one session, whose thread runs its handlers one *)
(* at a time; it has at most one piece task, m_MyRequest, and a list of    *)
(* notices that any thread may append to (m_NewPieceNoticeList).           *)
(*                                                                         *)
(* A handler that takes several locks one after the other is split at the  *)
(* lock boundaries: pc[s] says where the thread of session s is in it.     *)
(* Blocks of a piece are abstracted (a piece is complete or not), and so   *)
(* are choke and interest: the peer decides when a task may be asked for.  *)
(***************************************************************************)
EXTENDS Integers, FiniteSets

CONSTANTS
    Peers,       \* peer connections (CBTPeer objects)
    Pieces,      \* the pieces of the torrent
    Sessions,    \* session threads (BTSession, SESSIONNUM of them)
    SessionOf,   \* the session a peer belongs to
    FastPeers,   \* peers whose suggest / allow-fast lists are used
    PeerSets,    \* the bitfields a peer can show
    Levels,      \* the priorities GenPriorityBitSet can give to a piece
    MaxAdjusts,  \* bound: how often the user changes the file priorities
    NoPiece, NoPeer

ASSUME PeersAssumption == IsFiniteSet(Peers) /\ NoPeer \notin Peers
ASSUME PiecesAssumption == IsFiniteSet(Pieces) /\ NoPiece \notin Pieces
ASSUME SessionsAssumption == SessionOf \in [Peers -> Sessions]
ASSUME FastAssumption == FastPeers \subseteq Peers
ASSUME SetsAssumption == PeerSets \subseteq SUBSET Pieces
ASSUME LevelsAssumption == Levels \subseteq Nat
ASSUME AdjustsAssumption == MaxAdjusts \in Nat

VARIABLES
    priority,     \* m_PriorityBitSet
    refill,       \* pieces GenPriorityBitSet has cleared and not yet set again
    adjusts,      \* how often AdjustFilePriority was called
    finished,     \* m_FinishedBitSet
    downloading,  \* m_DownloadingMap; 0 stands for no entry
    orphaned,     \* pieces with an entry in m_OrphanMap
    link,         \* the peer: closed, shaken, open (its bitfield was sent)
    req,          \* m_MyRequest: the piece the peer is asked for, or NoPiece
    coop,         \* m_MyRequest.IsCoorperate()
    notices,      \* m_NewPieceNoticeList
    told,         \* what the peer was told we have (bitfield and HAVEs)
    pc,           \* where each session thread is
    self,         \* the peer whose handler it runs
    item,         \* the piece that handler is about
    wish,         \* GetPieceTask's pc2: the priorities of the usable pieces
    todo,         \* sessions BroadcastHavePiece has still to call
    after,        \* what the caller of WritePiece does next
    lost          \* history: entries of m_DownloadingMap nobody will give back

storage == <<priority, refill, adjusts, finished, downloading, orphaned, lost>>
peers == <<link, req, coop, notices, told>>
threads == <<pc, self, item, wish, todo, after>>
vars == <<storage, peers, threads>>

Steps == {"idle", "bitfield", "scanned", "chosen", "none", "fastin", "fastout",
          "orphans", "share", "clean", "store", "broadcast", "after"}
Bare == {"idle", "bitfield", "scanned", "none"}   \* about no piece yet
Afters == {"cancel", "reset", "close", "keep"}
NoWish == [i \in Pieces |-> 0]

StorageOK ==
    /\ priority \in [Pieces -> Nat]
    /\ refill \subseteq Pieces
    /\ adjusts \in 0 .. MaxAdjusts
    /\ finished \subseteq Pieces
    /\ downloading \in [Pieces -> Nat]
    /\ orphaned \subseteq Pieces
    /\ lost \in [Pieces -> Nat]

PeersOK ==
    /\ link \in [Peers -> {"closed", "shaken", "open"}]
    /\ req \in [Peers -> Pieces \cup {NoPiece}]
    /\ coop \in [Peers -> BOOLEAN]
    /\ notices \in [Peers -> SUBSET Pieces]
    /\ told \in [Peers -> SUBSET Pieces]

ThreadsOK ==
    /\ pc \in [Sessions -> Steps]
    /\ self \in [Sessions -> Peers \cup {NoPeer}]
    /\ item \in [Sessions -> Pieces \cup {NoPiece}]
    /\ wish \in [Sessions -> [Pieces -> Nat]]
    /\ todo \in [Sessions -> SUBSET Sessions]
    /\ after \in [Sessions -> Afters]
    /\ \A s \in Sessions : pc[s] \notin Bare => item[s] \in Pieces

TypeOK == StorageOK /\ PeersOK /\ ThreadsOK

Init ==
    /\ priority \in [Pieces -> Levels]
    /\ refill = {}
    /\ adjusts = 0
    /\ finished = {}
    /\ downloading = [i \in Pieces |-> 0]
    /\ orphaned = {}
    /\ lost = [i \in Pieces |-> 0]
    /\ link = [p \in Peers |-> "closed"]
    /\ req = [p \in Peers |-> NoPiece]
    /\ coop = [p \in Peers |-> FALSE]
    /\ notices = [p \in Peers |-> {}]
    /\ told = [p \in Peers |-> {}]
    /\ pc = [s \in Sessions |-> "idle"]
    /\ self = [s \in Sessions |-> NoPeer]
    /\ item = [s \in Sessions |-> NoPiece]
    /\ wish = [s \in Sessions |-> NoWish]
    /\ todo = [s \in Sessions |-> {}]
    /\ after = [s \in Sessions |-> "cancel"]

-----------------------------------------------------------------------------
(* The tests and updates of CBTStorage that several handlers share.        *)

\* GetLeftPieceCount: wanted pieces that are still missing.
Left == Cardinality({i \in Pieces \ finished : priority[i] > 0})

\* m_DownloadingMap.size()
MapSize(map) == Cardinality({i \in Pieces : map[i] > 0})

\* May one more peer be asked for a piece that n peers are asked for?
Overlappable(i, n) == \/ priority[i] > 10 /\ n <= 2
                      \/ priority[i] > 5 /\ n <= 1

\* AbandonPieceTask: one count less, the entry goes away with the last one.
Abandon(i) == [downloading EXCEPT ![i] = IF @ > 0 THEN @ - 1 ELSE 0]

Join(i) == [downloading EXCEPT ![i] = @ + 1]

\* The thread of p's session is free to run a handler of p.
Free(p) == pc[SessionOf[p]] = "idle"

\* The thread of session s goes to step x of a handler of p about piece i.
Goto(s, x, p, i) ==
    /\ pc' = [pc EXCEPT ![s] = x]
    /\ self' = [self EXCEPT ![s] = p]
    /\ item' = [item EXCEPT ![s] = i]

\* The handler returns.
Return(s) ==
    /\ Goto(s, "idle", NoPeer, NoPiece)
    /\ wish' = [wish EXCEPT ![s] = NoWish]
    /\ todo' = [todo EXCEPT ![s] = {}]
    /\ after' = [after EXCEPT ![s] = "cancel"]

\* m_MyRequest.Init(i) and SetCoorperate(c)
Ask(p, i, c) ==
    /\ req' = [req EXCEPT ![p] = i]
    /\ coop' = [coop EXCEPT ![p] = c]

\* m_MyRequest.Reset()
Reset(p) == Ask(p, NoPiece, FALSE)

\* A caller of WritePiece that goes on with a afterwards.
CallWrite(s, p, i, a) ==
    /\ Goto(s, "clean", p, i)
    /\ after' = [after EXCEPT ![s] = a]
    /\ wish' = [wish EXCEPT ![s] = NoWish]
    /\ UNCHANGED todo

\* OnClose and OnConnectionClose: the task is given back, the object is done.
CloseLink(p) ==
    /\ link' = [link EXCEPT ![p] = "closed"]
    /\ notices' = [notices EXCEPT ![p] = {}]
    /\ told' = [told EXCEPT ![p] = {}]
    /\ downloading' = IF req[p] = NoPiece THEN downloading ELSE Abandon(req[p])
    /\ Reset(p)

-----------------------------------------------------------------------------
(* The life of a connection.                                               *)

\* The peer is in the connected list and the handshakes are exchanged.
Shake(p) ==
    /\ Free(p)
    /\ link[p] = "closed"
    /\ link' = [link EXCEPT ![p] = "shaken"]
    /\ UNCHANGED <<storage, req, coop, notices, told, threads>>

\* SendBitfield: copy m_FinishedBitSet and clear the notices ...
CopyBitfield(p) ==
    /\ Free(p)
    /\ link[p] = "shaken"
    /\ told' = [told EXCEPT ![p] = finished]
    /\ notices' = [notices EXCEPT ![p] = {}]
    /\ Goto(SessionOf[p], "bitfield", p, NoPiece)
    /\ UNCHANGED <<storage, link, req, coop, wish, todo, after>>

\* ... and set m_bSendBitSet when the bitfield is in the send buffer.
BitfieldSent(s) ==
    /\ pc[s] = "bitfield"
    /\ link' = [link EXCEPT ![self[s]] = "open"]
    /\ Return(s)
    /\ UNCHANGED <<storage, req, coop, notices, told>>

\* OnClose for any reason; the blocks of a task of its own become orphans.
Close(p) ==
    /\ Free(p)
    /\ link[p] # "closed"
    /\ CloseLink(p)
    /\ orphaned' \in IF req[p] # NoPiece /\ ~coop[p]
                        THEN {orphaned, orphaned \cup {req[p]}}
                        ELSE {orphaned}
    /\ UNCHANGED <<priority, refill, adjusts, finished, lost, threads>>

-----------------------------------------------------------------------------
(* Taking a task: GetPieceTask(bitset), called by CheckMyRequest.          *)

\* Copy the priorities of the pieces the peer has and we have not.
Scan(p) ==
    /\ Free(p)
    /\ link[p] = "open"
    /\ req[p] = NoPiece
    /\ \E have \in PeerSets :
         wish' = [wish EXCEPT ![SessionOf[p]] =
                    [i \in Pieces |->
                        IF i \in have \ finished THEN priority[i] ELSE 0]]
    /\ Goto(SessionOf[p], "scanned", p, NoPiece)
    /\ UNCHANGED <<storage, peers, todo, after>>

\* Leave out, under m_DownloadingMapMutex, what is being downloaded.
Pool(s) == {i \in Pieces : /\ wish[s][i] > 0
                           /\ downloading[i] = 0 \/ Overlappable(i, downloading[i])}

\* The most urgent of them, those with orphan data first.
Best(s) ==
    LET top == {i \in Pool(s) : \A j \in Pool(s) : wish[s][j] <= wish[s][i]}
    IN  IF top \cap orphaned # {} THEN top \cap orphaned ELSE top

Choose(s) ==
    /\ pc[s] = "scanned"
    /\ \/ \E i \in Best(s) : Goto(s, "chosen", self[s], i)
       \/ Pool(s) = {} /\ Goto(s, "none", self[s], NoPiece)
    /\ UNCHANGED <<storage, peers, wish, todo, after>>

\* Mutant: that the piece was taken meanwhile is not seen any more.
RegisterAlone(s) ==
    LET i == item[s]
        shared == priority[i] > 5 \/ Left < 2 * MapSize(Join(i))
    IN  /\ pc[s] = "chosen"
        /\ downloading' = Join(i)
        /\ Ask(self[s], i, shared)
        /\ Goto(s, IF shared THEN "share" ELSE "orphans", self[s], i)
        /\ wish' = [wish EXCEPT ![s] = NoWish]
        /\ UNCHANGED <<priority, refill, adjusts, finished, orphaned, lost,
                       link, notices, told, todo, after>>

\* Count the chosen piece in m_DownloadingMap, under its mutex again.
Register(s) ==
    LET i == item[s]
        shared == \/ downloading[i] > 0
                  \/ priority[i] > 5
                  \/ Left < 2 * MapSize(Join(i))
    IN  /\ pc[s] = "chosen"
        /\ downloading' = Join(i)
        /\ Ask(self[s], i, shared)
        /\ Goto(s, IF shared THEN "share" ELSE "orphans", self[s], i)
        /\ wish' = [wish EXCEPT ![s] = NoWish]
        /\ UNCHANGED <<priority, refill, adjusts, finished, orphaned, lost,
                       link, notices, told, todo, after>>

\* Nothing to choose: help with a piece that is being downloaded.
Helpful(s) ==
    LET open == {i \in Pieces : downloading[i] > 0 /\ wish[s][i] > 0}
    IN  IF Left > 2 * MapSize(downloading)
          THEN {i \in open : \/ wish[s][i] > 10 /\ downloading[i] <= 2
                             \/ wish[s][i] > 5 /\ downloading[i] <= 1}
          ELSE {i \in open : /\ downloading[i] < 20
                             /\ \A j \in open : downloading[i] <= downloading[j]}

Help(s) ==
    /\ pc[s] = "none"
    /\ \E i \in Helpful(s) :
         /\ downloading' = Join(i)
         /\ Ask(self[s], i, TRUE)
         /\ Goto(s, "share", self[s], i)
    /\ wish' = [wish EXCEPT ![s] = NoWish]
    /\ UNCHANGED <<priority, refill, adjusts, finished, orphaned, lost,
                   link, notices, told, todo, after>>

NoTask(s) ==
    /\ pc[s] = "none"
    /\ Helpful(s) = {}
    /\ Return(s)
    /\ UNCHANGED <<storage, peers>>

-----------------------------------------------------------------------------
(* Taking a suggested or allow-fast piece: GetPieceTask(index).            *)

\* Mutant: a suggested piece is taken without asking whether we have it.
FastCheckAny(p) ==
    /\ Free(p)
    /\ p \in FastPeers
    /\ link[p] = "open"
    /\ req[p] = NoPiece
    /\ \E i \in Pieces :
         /\ priority[i] > 0
         /\ Goto(SessionOf[p], IF downloading[i] > 0 THEN "fastin" ELSE "fastout", p, i)
    /\ UNCHANGED <<storage, peers, wish, todo, after>>

\* IsDownloadingPiece takes and releases the mutex, then the code acts on it.
FastCheck(p) ==
    /\ Free(p)
    /\ p \in FastPeers
    /\ link[p] = "open"
    /\ req[p] = NoPiece
    /\ \E i \in Pieces \ finished :
         /\ priority[i] > 0
         /\ Goto(SessionOf[p], IF downloading[i] > 0 THEN "fastin" ELSE "fastout", p, i)
    /\ UNCHANGED <<storage, peers, wish, todo, after>>

FastIn(s) ==
    LET i == item[s]
    IN  /\ pc[s] = "fastin"
        /\ \/ /\ Overlappable(i, downloading[i])
              /\ downloading' = Join(i)
              /\ Ask(self[s], i, TRUE)
              /\ Goto(s, "share", self[s], i)
              /\ UNCHANGED <<wish, todo, after>>
           \/ /\ ~Overlappable(i, downloading[i])
              /\ Return(s)
              /\ UNCHANGED <<downloading, req, coop>>
        /\ UNCHANGED <<priority, refill, adjusts, finished, orphaned, lost,
                       link, notices, told>>

\* m_DownloadingMap[index]=1, without the mutex.
FastOut(s) ==
    LET i == item[s]
    IN  /\ pc[s] = "fastout"
        /\ downloading' = [downloading EXCEPT ![i] = 1]
        /\ Ask(self[s], i, priority[i] > 5)
        /\ Goto(s, IF priority[i] > 5 THEN "share" ELSE "orphans", self[s], i)
        /\ UNCHANGED <<priority, refill, adjusts, finished, orphaned, lost,
                       link, notices, told, wish, todo, after>>

-----------------------------------------------------------------------------
(* Working on a task: CheckOutOrphanData, DoMyRequest, DoCmdPiece.         *)

\* A task of its own takes the orphan blocks; they may complete the piece.
TakeOrphans(s) ==
    LET i == item[s]
    IN  /\ pc[s] = "orphans"
        /\ orphaned' = orphaned \ {i}
        /\ \/ Return(s)
           \/ i \in orphaned /\ CallWrite(s, self[s], i, "reset")
        /\ UNCHANGED <<priority, refill, adjusts, finished, downloading, lost, peers>>

\* DoMyRequest of a shared task runs on taking it and in every later round.
Sharing(p) ==
    LET s == SessionOf[p]
    IN  \/ pc[s] = "share" /\ self[s] = p
        \/ pc[s] = "idle" /\ req[p] # NoPiece /\ coop[p]

\* GetShareTask hands out a block (a new share request takes the orphans), or
\* it does not while answers are still pending.
ShareOn(p) ==
    /\ pc[SessionOf[p]] = "share"
    /\ self[SessionOf[p]] = p
    /\ orphaned' \in {orphaned, orphaned \ {req[p]}}
    /\ Return(SessionOf[p])
    /\ UNCHANGED <<priority, refill, adjusts, finished, downloading, lost, peers>>

\* GetShareTask refuses and nothing is pending: OnClose(CR_MYCLOSE).
ShareRefused(p) ==
    /\ Sharing(p)
    /\ CloseLink(p)
    /\ Return(SessionOf[p])
    /\ UNCHANGED <<priority, refill, adjusts, finished, orphaned, lost>>

\* The orphans complete the new share request: GetShareTask stores the piece
\* and still returns false.
ShareOrphans(p) ==
    /\ Sharing(p)
    /\ req[p] \in orphaned \ finished
    /\ orphaned' = orphaned \ {req[p]}
    /\ \E a \in {"close", "keep"} : CallWrite(SessionOf[p], p, req[p], a)
    /\ UNCHANGED <<priority, refill, adjusts, finished, downloading, lost, peers>>

\* The last block arrives and the hash is right.
PieceGood(p) ==
    /\ Free(p)
    /\ req[p] \in Pieces \ finished
    /\ CallWrite(SessionOf[p], p, req[p], "cancel")
    /\ UNCHANGED <<storage, peers>>

\* The last block arrives, the hash is wrong and all data is this peer's own.
PieceBad(p) ==
    /\ Free(p)
    /\ req[p] \in Pieces \ finished
    /\ CloseLink(p)
    /\ UNCHANGED <<priority, refill, adjusts, finished, orphaned, lost, threads>>

\* SubmitShareData says the shared piece was finished by another peer.
CoopLate(p) ==
    /\ Free(p)
    /\ req[p] \in finished
    /\ coop[p]
    /\ downloading' = Abandon(req[p])
    /\ Reset(p)
    /\ UNCHANGED <<priority, refill, adjusts, finished, orphaned, lost,
                   link, notices, told, threads>>

\* A block of another piece arrives late: CheckInOrphanData.
Stray(p) ==
    /\ Free(p)
    /\ link[p] = "open"
    /\ \E i \in Pieces \ (finished \cup {req[p]}) : orphaned' = orphaned \cup {i}
    /\ UNCHANGED <<priority, refill, adjusts, finished, downloading, lost,
                   peers, threads>>

-----------------------------------------------------------------------------
(* WritePiece, and what its callers do when it returns.                    *)

\* CleanOrphan, under m_OrphanMapMutex
Clean(s) ==
    /\ pc[s] = "clean"
    /\ orphaned' = orphaned \ {item[s]}
    /\ pc' = [pc EXCEPT ![s] = "store"]
    /\ UNCHANGED <<priority, refill, adjusts, finished, downloading, lost, peers,
                   self, item, wish, todo, after>>

\* Mutant: the thread's own session is not told of the piece.
StoreForOthers(s) ==
    /\ pc[s] = "store"
    /\ IF item[s] \in finished \/ priority[item[s]] = 0
         THEN /\ pc' = [pc EXCEPT ![s] = "after"]
              /\ UNCHANGED <<finished, todo>>
         ELSE /\ finished' = finished \cup {item[s]}
              /\ pc' = [pc EXCEPT ![s] = "broadcast"]
              /\ todo' = [todo EXCEPT ![s] = Sessions \ {s}]
    /\ UNCHANGED <<priority, refill, adjusts, downloading, orphaned, lost, peers,
                   self, item, wish, after>>

\* The section under m_WriteCacheMutex: waste the data, or keep it once.
Store(s) ==
    /\ pc[s] = "store"
    /\ IF item[s] \in finished \/ priority[item[s]] = 0
         THEN /\ pc' = [pc EXCEPT ![s] = "after"]
              /\ UNCHANGED <<finished, todo>>
         ELSE /\ finished' = finished \cup {item[s]}
              /\ pc' = [pc EXCEPT ![s] = "broadcast"]
              /\ todo' = [todo EXCEPT ![s] = Sessions]
    /\ UNCHANGED <<priority, refill, adjusts, downloading, orphaned, lost, peers,
                   self, item, wish, after>>

\* BroadcastHavePiece holds m_SessionListMutex from its first session on.
Broadcasting(s) == pc[s] = "broadcast" /\ todo[s] # Sessions

\* Mutant: only the peers that have no task are told.
BroadcastIdle(s) ==
    /\ pc[s] = "broadcast"
    /\ \A r \in Sessions \ {s} : ~Broadcasting(r)
    /\ \E t \in todo[s] :
         /\ notices' = [p \in Peers |->
                          IF SessionOf[p] = t /\ link[p] = "open" /\ req[p] = NoPiece
                            THEN notices[p] \cup {item[s]} ELSE notices[p]]
         /\ todo' = [todo EXCEPT ![s] = @ \ {t}]
         /\ pc' = [pc EXCEPT ![s] = IF todo[s] = {t} THEN "after" ELSE "broadcast"]
    /\ UNCHANGED <<storage, link, req, coop, told, self, item, wish, after>>

\* CPeerAdmin::BroadcastNewPiece of session t: the notice of every peer whose
\* bitfield was sent.
Broadcast(s) ==
    /\ pc[s] = "broadcast"
    /\ \A r \in Sessions \ {s} : ~Broadcasting(r)
    /\ \E t \in todo[s] :
         /\ notices' = [p \in Peers |->
                          IF SessionOf[p] = t /\ link[p] = "open"
                            THEN notices[p] \cup {item[s]} ELSE notices[p]]
         /\ todo' = [todo EXCEPT ![s] = @ \ {t}]
         /\ pc' = [pc EXCEPT ![s] = IF todo[s] = {t} THEN "after" ELSE "broadcast"]
    /\ UNCHANGED <<storage, link, req, coop, told, self, item, wish, after>>

\* Mutant: the count is not given back.
AfterCancelKept(s) ==
    /\ pc[s] = "after" /\ after[s] = "cancel"
    /\ Reset(self[s])
    /\ Return(s)
    /\ UNCHANGED <<priority, refill, adjusts, finished, downloading, orphaned, lost,
                   link, notices, told>>

\* CancelMyRequest: give the count back and forget the task.
AfterCancel(s) ==
    /\ pc[s] = "after" /\ after[s] = "cancel"
    /\ downloading' = Abandon(item[s])
    /\ Reset(self[s])
    /\ Return(s)
    /\ UNCHANGED <<priority, refill, adjusts, finished, orphaned, lost,
                   link, notices, told>>

\* CheckOutOrphanData forgets the task and does not give the count back.
AfterReset(s) ==
    /\ pc[s] = "after" /\ after[s] = "reset"
    /\ Reset(self[s])
    /\ lost' = [lost EXCEPT ![item[s]] = @ + 1]
    /\ Return(s)
    /\ UNCHANGED <<priority, refill, adjusts, finished, downloading, orphaned,
                   link, notices, told>>

\* DoMyRequest after GetShareTask stored the piece: close, or keep the task.
AfterShare(s) ==
    /\ pc[s] = "after"
    /\ \/ after[s] = "close" /\ CloseLink(self[s])
       \/ after[s] = "keep" /\ UNCHANGED <<peers, downloading>>
    /\ Return(s)
    /\ UNCHANGED <<priority, refill, adjusts, finished, orphaned, lost>>

\* Mutant: the task is not cancelled.
NoticeOnly(p) ==
    /\ Free(p)
    /\ link[p] = "open"
    /\ notices[p] # {}
    /\ told' = [told EXCEPT ![p] = @ \cup notices[p]]
    /\ notices' = [notices EXCEPT ![p] = {}]
    /\ UNCHANGED <<storage, link, req, coop, threads>>

\* Mutant: after cancelling the task no HAVE is sent.
NoticeCancelOnly(p) ==
    /\ Free(p)
    /\ link[p] = "open"
    /\ notices[p] # {}
    /\ IF req[p] \in notices[p]
         THEN downloading' = Abandon(req[p]) /\ Reset(p) /\ UNCHANGED told
         ELSE /\ told' = [told EXCEPT ![p] = @ \cup notices[p]]
              /\ UNCHANGED <<downloading, req, coop>>
    /\ notices' = [notices EXCEPT ![p] = {}]
    /\ UNCHANGED <<priority, refill, adjusts, finished, orphaned, lost, link, threads>>

\* The timer of the peer: NoticeNewHavePiece cancels the task that is
\* finished elsewhere and sends the HAVEs.
NoticeNewHavePiece(p) ==
    /\ Free(p)
    /\ link[p] = "open"
    /\ notices[p] # {}
    /\ IF req[p] \in notices[p]
         THEN downloading' = Abandon(req[p]) /\ Reset(p)
         ELSE UNCHANGED <<downloading, req, coop>>
    /\ told' = [told EXCEPT ![p] = @ \cup notices[p]]
    /\ notices' = [notices EXCEPT ![p] = {}]
    /\ UNCHANGED <<priority, refill, adjusts, finished, orphaned, lost, link, threads>>

-----------------------------------------------------------------------------
(* The user changes the file priorities: AdjustFilePriority rebuilds       *)
(* m_PriorityBitSet in place, without a lock.                              *)

GenPriorityClear ==
    /\ refill = {}
    /\ adjusts < MaxAdjusts
    /\ adjusts' = adjusts + 1
    /\ priority' = [i \in Pieces |-> 0]
    /\ refill' = Pieces
    /\ UNCHANGED <<finished, downloading, orphaned, lost, peers, threads>>

GenPrioritySet ==
    /\ \E i \in refill, n \in Levels :
         /\ priority' = [priority EXCEPT ![i] = n]
         /\ refill' = refill \ {i}
    /\ UNCHANGED <<adjusts, finished, downloading, orphaned, lost, peers, threads>>

-----------------------------------------------------------------------------
\* The steps a busy thread goes on with.
ThreadStep(s) ==
    \/ BitfieldSent(s) \/ Choose(s) \/ Register(s) \/ Help(s) \/ NoTask(s)
    \/ FastIn(s) \/ FastOut(s) \/ TakeOrphans(s)
    \/ Clean(s) \/ Store(s) \/ Broadcast(s)
    \/ AfterCancel(s) \/ AfterReset(s) \/ AfterShare(s)

\* The handlers of a peer.
PeerStep(p) ==
    \/ Shake(p) \/ CopyBitfield(p) \/ Close(p)
    \/ Scan(p) \/ FastCheck(p)
    \/ ShareOn(p) \/ ShareRefused(p) \/ ShareOrphans(p)
    \/ PieceGood(p) \/ PieceBad(p) \/ CoopLate(p) \/ Stray(p)
    \/ NoticeNewHavePiece(p)

\* The part of it that ends the handler which took the task.
ShareStep(p) ==
    /\ pc[SessionOf[p]] = "share"
    /\ ShareOn(p) \/ ShareRefused(p) \/ ShareOrphans(p)

Next ==
    \/ \E s \in Sessions : ThreadStep(s)
    \/ \E p \in Peers : PeerStep(p)
    \/ GenPriorityClear
    \/ GenPrioritySet

Spec == Init /\ [][Next]_vars

\* A thread finishes the handler it is in, and the session loop visits the
\* timers of its peers again and again (TimerDealer).
Fairness ==
    /\ \A s \in Sessions : WF_vars(ThreadStep(s))
    /\ \A p \in Peers : WF_vars(ShareStep(p))
    /\ \A p \in Peers : SF_vars(NoticeNewHavePiece(p))

FairSpec == Spec /\ Fairness

-----------------------------------------------------------------------------
(* Properties.                                                             *)

\* The peers that are asked for piece i.
Holders(i) == {p \in Peers : req[p] = i}

\* Peer p is bound to hear that piece i is stored: the notice is in its list,
\* or some thread has still to call p's session with it.
Covered(p, i) ==
    \/ i \in notices[p]
    \/ \E s \in Sessions : /\ pc[s] = "broadcast"
                           /\ item[s] = i
                           /\ SessionOf[p] \in todo[s]

\* NoStranded: whenever a peer is still asked for a piece that is already
\* stored, the notice that makes NoticeNewHavePiece cancel the task is on its
\* way to it, however stale the bitsets were that GetPieceTask chose from.
NoStranded == \A p \in Peers : req[p] \in finished => Covered(p, req[p])

\* Board: the threads, counts and notices together implement PieceBoard: a
\* piece is stored once and by a peer that is asked for it, and a peer that
\* was sent a HAVE (or the bitfield) of a piece is never asked for it.
Board == INSTANCE PieceBoard WITH stored <- finished, asked <- req, known <- told
BoardSpec == Board!Spec

\* CountExact: with the locked GetPieceTask alone, the count of a piece in
\* m_DownloadingMap is the number of peers asked for it plus the counts that
\* CheckOutOrphanData forgot to give back; no Abandon takes another's count.
CountExact ==
    \A i \in Pieces : downloading[i] = Cardinality(Holders(i)) + lost[i]

\* SoloUnique: at most one peer is asked for a piece as an uncooperative task
\* ("the ants should coorperate").
SoloUnique ==
    \A i \in Pieces : \A p, q \in Holders(i) : ~coop[p] /\ ~coop[q] => p = q

\* The inductive invariant behind NoStranded and BoardSpec.
\* HandlerOK: what a thread remembers still holds of the peer it works for,
\* and only open links have a task.
HandlerOK ==
    /\ \A p \in Peers : req[p] # NoPiece => link[p] = "open"
    /\ \A s \in Sessions :
         /\ pc[s] # "idle" => self[s] \in Peers /\ SessionOf[self[s]] = s
         /\ pc[s] = "bitfield" => link[self[s]] = "shaken"
         /\ pc[s] \in {"scanned", "none", "chosen", "fastin", "fastout"} =>
              link[self[s]] = "open" /\ req[self[s]] = NoPiece
         /\ pc[s] \in {"orphans", "share", "clean", "store", "broadcast", "after"} =>
              req[self[s]] = item[s]
         /\ pc[s] = "broadcast" => item[s] \in finished

\* The pieces a thread may still ask its peer for.
InHand(s) ==
    IF pc[s] \in {"chosen", "fastin", "fastout"} THEN {item[s]}
    ELSE IF pc[s] \in {"scanned", "none"} THEN {i \in Pieces : wish[s][i] > 0}
    ELSE {}

\* StaleCovered: a piece that was stored since the thread read the bitset is
\* on its way to the peer as a notice.
StaleCovered ==
    \A s \in Sessions : \A i \in InHand(s) \cap finished : Covered(self[s], i)

\* Unheard: only stored pieces are announced, and never to a peer that is, or
\* is about to be, asked for them.
Unheard ==
    /\ \A p \in Peers : /\ told[p] \subseteq finished
                        /\ notices[p] \subseteq finished
                        /\ req[p] \notin told[p]
    /\ \A s \in Sessions : InHand(s) # {} => InHand(s) \cap told[self[s]] = {}

TaskInv == TypeOK /\ HandlerOK /\ NoStranded /\ StaleCovered /\ Unheard

\* Released: a peer asked for a piece that is stored is freed from it.
Released ==
    \A p \in Peers, i \in Pieces :
        (req[p] = i /\ i \in finished) ~> req[p] # i

\* Announced: a notice reaches the peer as a HAVE unless the link closes.
Announced ==
    \A p \in Peers, i \in Pieces :
        i \in notices[p] ~> (i \in told[p] \/ link[p] = "closed")

\* BitfieldThenHave: a peer that has our bitfield is told, or bound to be
\* told, of every stored piece ("first the bitset, then the have", comment at
\* l.1807 of BTPeer.cpp).
BitfieldThenHave ==
    \A p \in Peers : link[p] = "open" =>
        \A i \in finished : i \in told[p] \/ Covered(p, i)
=============================================================================
