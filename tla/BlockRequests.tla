--------------------------- MODULE BlockRequests ----------------------------
(***************************************************************************)
(* How the blocks of one piece are asked for and put together, below the   *)
(* piece tasks of PieceTasks.                                              *)
(*                                                                         *)
(* A peer with a task keeps its own blocks in m_MyRequest (CSingleRequest).*)
(* Peers that cooperate also submit them to the piece's CShareRequest in   *)
(* the storage, which says what to ask for next.  The blocks of a task that*)
(* ends early become orphans, which the next task on the piece takes over. *)
(* What a remote peer was asked for and has not answered is asked[p].      *)
(*                                                                         *)
(* A handler is one step, but for GetShareTask, which tests the piece and  *)
(* then takes the lock; the interleavings of the other locks are in        *)
(* PieceTasks.  Which peer cooperates is decided there too: here a peer    *)
(* that is not alone does, and one that is alone may.                      *)
(***************************************************************************)
EXTENDS Integers, FiniteSets, Sequences

CONSTANTS
    Peers,         \* the connections, each with an address of its own
    BlockCount,    \* blocks of the piece, in the order of their offsets
    Virtual,       \* blocks that lie in padding files
    FastPeers,     \* peers with the fast extension
    Window,        \* PENDING_REQUEST_SIZE
    MaxPending,    \* 65535: the range of an unsigned short
    MaxLinks,      \* bound: how often a peer links
    MaxTrouble,    \* bound: chokes, rejects, timeouts and closes of the peers
    MaxBad,        \* bound: wrong or unasked blocks the peers send
    NoPeer

ASSUME PeersAssumption == IsFiniteSet(Peers) /\ NoPeer \notin Peers
ASSUME BlocksAssumption == BlockCount \in Nat \ {0}
ASSUME VirtualAssumption == Virtual \subseteq 1 .. BlockCount
ASSUME FastAssumption == FastPeers \subseteq Peers
ASSUME NumbersAssumption == Window \in Nat \ {0} /\ MaxPending \in Nat \ {0}
ASSUME BoundsAssumption ==
    MaxLinks \in Nat /\ MaxTrouble \in Nat /\ MaxBad \in Nat

VARIABLES
    stored,     \* the piece is in m_FinishedBitSet
    holders,    \* its entry in m_DownloadingMap
    orphans,    \* its entry in m_OrphanMap
    share,      \* its entry in m_ShareRequestMap
    fails,      \* m_nFailTimes of that
    open,       \* the link of the peer
    links,      \* how often it was made
    choked,     \* m_bPeerChokeMe
    task,       \* m_MyRequest: none, solo or coop
    allowed,    \* its m_bAllowFast
    mine,       \* its blocks
    count,      \* its m_nPending
    checked,    \* GetShareTask has seen that the piece is not finished
    asked,      \* requests on their way or unanswered
    trouble, bad,
    arrived,    \* history: good blocks that came in
    late,       \* history: a request was repeated after a timeout
    mixed,      \* history: peers whose task held blocks of others
    liars,      \* history: peers that sent a wrong block
    blamed      \* history: peers that were closed for CR_BAD_DATA

storage == <<stored, holders, orphans, share, fails>>
requests == <<task, allowed, mine, count, checked>>
history == <<arrived, late, mixed, liars, blamed>>
vars == <<storage, open, links, choked, requests, asked, trouble, bad, history>>

Blocks == 1 .. BlockCount
Data == {"none", "good", "bad"}
Mine == [data : Data, pending : BOOLEAN, source : Peers \cup {NoPeer}]
Shared == [data : Data, pending : 0 .. MaxPending, comfirm : Nat,
           source : Peers \cup {NoPeer}]
Orphans == [block : Blocks, data : Data, source : Peers \cup {NoPeer}]
NoShare == <<>>

TypeOK ==
    /\ stored \in BOOLEAN
    /\ holders \in Nat
    /\ orphans \in Seq(Orphans)
    /\ share \in [Blocks -> Shared] \cup {NoShare}
    /\ fails \in Nat
    /\ open \in [Peers -> BOOLEAN]
    /\ links \in [Peers -> 0 .. MaxLinks]
    /\ choked \in [Peers -> BOOLEAN]
    /\ task \in [Peers -> {"none", "solo", "coop"}]
    /\ allowed \in [Peers -> BOOLEAN]
    /\ mine \in [Peers -> [Blocks -> Mine]]
    /\ count \in [Peers -> Int]
    /\ checked \in [Peers -> BOOLEAN]
    /\ asked \in [Peers -> [Blocks -> Nat]]
    /\ trouble \in 0 .. MaxTrouble
    /\ bad \in 0 .. MaxBad
    /\ arrived \subseteq Blocks
    /\ late \in BOOLEAN
    /\ mixed \subseteq Peers /\ liars \subseteq Peers /\ blamed \subseteq Peers

----------------------------------------------------------------------------
(* CSingleRequest and CShareRequest.                                       *)

\* Decompose and SetVirtualData.
NewMine == [b \in Blocks |->
    [data |-> IF b \in Virtual THEN "good" ELSE "none", pending |-> FALSE,
     source |-> NoPeer]]
NewShare == [b \in Blocks |->
    [data |-> IF b \in Virtual THEN "good" ELSE "none", pending |-> 0,
     comfirm |-> 0, source |-> NoPeer]]

\* Decompose alone.
BareShare == [b \in Blocks |->
    [data |-> "none", pending |-> 0, comfirm |-> 0, source |-> NoPeer]]

IsFinish(r) == \A b \in Blocks : r[b].data # "none"
HashOK(r) == \A b \in Blocks : r[b].data = "good"

Pending(r) == {b \in Blocks : r[b].pending}
Held(r) == {b \in Blocks : r[b].data # "none"}
NoneAsked == [b \in Blocks |-> 0]

\* Blocks that GetTask can still hand out, and the first n of them.
Missing(r) == {b \in Blocks : r[b].data = "none" /\ ~r[b].pending}
First(S, n) == {b \in S : Cardinality({c \in S : c < b}) < n}

SetAlien(r, o) ==
    [r EXCEPT ![o.block] =
        [data |-> o.data, pending |-> @.pending, source |-> o.source]]

HaveAlien(r, p) == \E b \in Blocks : r[b].source = p

\* It clears what is not of p, whatever p sent in this task included.
ClearAlien(r, p) == [b \in Blocks |->
    IF r[b].source # p /\ r[b].data # "none"
    THEN [r[b] EXCEPT !.data = "none", !.source = NoPeer] ELSE r[b]]

Wrapped(n) == n % (MaxPending + 1)

\* SetData: an answer, whether it was asked for here or not.
Replaced(x, o) == x.data = "none" \/ (x.data # o.data /\ x.comfirm = 0)
Answer(x, o) ==
    [data    |-> IF Replaced(x, o) THEN o.data ELSE x.data,
     pending |-> Wrapped(x.pending - 1),
     comfirm |-> IF ~Replaced(x, o) /\ x.data = o.data /\ x.source # o.source
                 THEN x.comfirm + 1 ELSE x.comfirm,
     source  |-> IF Replaced(x, o) THEN o.source ELSE x.source]
SetShared(r, o) == [r EXCEPT ![o.block] = Answer(@, o)]

\* The orphans are set one after the other, into the blocks of a peer or into
\* those of a new share request.
OwnOrphans[k \in 0 .. Len(orphans)] ==
    IF k = 0 THEN NewMine ELSE SetAlien(OwnOrphans[k - 1], orphans[k])
SharedOrphans[k \in 0 .. Len(orphans)] ==
    IF k = 0 THEN NewShare ELSE SetShared(SharedOrphans[k - 1], orphans[k])

\* Mutant: a block is handed out only once.
AskableOnce(r) == {b \in Blocks : r[b].data = "none" /\ r[b].pending = 0}

\* GetTask: the first block without data, unless its count is at the limit.
Askable(r) == {b \in Blocks : r[b].data = "none" /\ r[b].pending < MaxPending}

\* ClearComfirmData, after the f-th failure.
ClearComfirm(r, f) == [b \in Blocks |->
    IF r[b].data # "none" /\ r[b].comfirm < f
    THEN [r[b] EXCEPT !.data = "none", !.source = NoPeer] ELSE r[b]]

Init ==
    /\ stored = FALSE
    /\ holders = 0
    /\ orphans = <<>>
    /\ share = NoShare
    /\ fails = 0
    /\ open = [p \in Peers |-> FALSE]
    /\ links = [p \in Peers |-> 0]
    /\ choked = [p \in Peers |-> TRUE]
    /\ task = [p \in Peers |-> "none"]
    /\ allowed = [p \in Peers |-> FALSE]
    /\ mine = [p \in Peers |-> NewMine]
    /\ count = [p \in Peers |-> 0]
    /\ checked = [p \in Peers |-> FALSE]
    /\ asked = [p \in Peers |-> NoneAsked]
    /\ trouble = 0
    /\ bad = 0
    /\ arrived = {}
    /\ late = FALSE
    /\ mixed = {} /\ liars = {} /\ blamed = {}

----------------------------------------------------------------------------
(* What the handlers share.                                                *)

\* WritePiece: CleanOrphan, and the piece is there.
Write == stored' = TRUE /\ orphans' = <<>>

Reset(p) ==
    /\ task' = [task EXCEPT ![p] = "none"]
    /\ allowed' = [allowed EXCEPT ![p] = FALSE]
    /\ mine' = [mine EXCEPT ![p] = NewMine]
    /\ count' = [count EXCEPT ![p] = 0]

AbandonPieceTask == holders' = IF holders > 0 THEN holders - 1 ELSE 0

\* CancelMyRequest; a cancel may come too late, and asked stays.
CancelMyRequest(p) == AbandonPieceTask /\ Reset(p)

\* GetOrphans, in the order of the blocks.
OrphansOf(r) ==
    LET held == Held(r)
        kth(k) == CHOOSE b \in held : Cardinality({c \in held : c < b}) = k - 1
    IN  [k \in 1 .. Cardinality(held) |->
            [block |-> kth(k), data |-> r[kth(k)].data, source |-> r[kth(k)].source]]

\* Mutant: it is the blocks of a cooperating peer that are kept.
SaveShared(p) ==
    orphans' = IF task[p] = "coop" THEN orphans \o OrphansOf(mine[p]) ELSE orphans

SaveOrphanToStorage(p) ==
    orphans' = IF task[p] = "solo" THEN orphans \o OrphansOf(mine[p]) ELSE orphans

Shut(p) ==
    /\ open' = [open EXCEPT ![p] = FALSE]
    /\ choked' = [choked EXCEPT ![p] = TRUE]
    /\ asked' = [asked EXCEPT ![p] = NoneAsked]

\* OnClose of a link whatever its task is.
OnClose(p) ==
    /\ Shut(p)
    /\ SaveOrphanToStorage(p)
    /\ IF task[p] = "none" THEN UNCHANGED <<holders, task, allowed, mine, count>>
       ELSE CancelMyRequest(p)
    /\ checked' = [checked EXCEPT ![p] = FALSE]
    /\ UNCHANGED <<stored, share, fails, links>>

Trouble == trouble < MaxTrouble /\ trouble' = trouble + 1
Idle(p) == open[p] /\ ~checked[p]

----------------------------------------------------------------------------
(* The links and their choke state.                                        *)

OnConnectOk(p) ==
    /\ ~open[p]
    /\ links[p] < MaxLinks
    /\ open' = [open EXCEPT ![p] = TRUE]
    /\ links' = [links EXCEPT ![p] = @ + 1]
    /\ UNCHANGED <<storage, choked, requests, asked, trouble, bad, history>>

PeerCloses(p) ==
    /\ Idle(p)
    /\ Trouble
    /\ OnClose(p)
    /\ UNCHANGED <<bad, history>>

ResetPendingRequest(p) ==
    /\ mine' = [mine EXCEPT ![p] =
            [b \in Blocks |-> [@[b] EXCEPT !.pending = FALSE]]]
    /\ count' = [count EXCEPT ![p] = 0]

\* Without the fast extension a choke drops what was asked.
DoCmdChoke(p) ==
    /\ Idle(p) /\ ~choked[p]
    /\ Trouble
    /\ choked' = [choked EXCEPT ![p] = TRUE]
    /\ IF p \in FastPeers THEN UNCHANGED <<mine, count, asked>>
       ELSE /\ ResetPendingRequest(p)
            /\ asked' = [asked EXCEPT ![p] = NoneAsked]
    /\ UNCHANGED <<storage, open, links, task, allowed, checked, bad, history>>

DoCmdUnchoke(p) ==
    /\ Idle(p) /\ choked[p]
    /\ choked' = [choked EXCEPT ![p] = FALSE]
    /\ UNCHANGED <<storage, open, links, requests, asked, trouble, bad, history>>

\* TimeOutCheck in OnTimer: everything is asked for again.
OnTimer(p) ==
    /\ Idle(p)
    /\ Pending(mine[p]) # {}
    /\ Trouble
    /\ ResetPendingRequest(p)
    /\ late' = TRUE
    /\ UNCHANGED <<storage, open, links, choked, task, allowed, checked, asked, bad,
                   arrived, mixed, liars, blamed>>

----------------------------------------------------------------------------
(* CheckMyRequest and DoMyRequest.                                         *)

\* A new task: what the orphans hold need not be asked for.  If they complete
\* the piece the task ends at once, without AbandonPieceTask.
TakeTask(p) ==
    /\ Idle(p) /\ task[p] = "none"
    /\ ~choked[p] \/ p \in FastPeers
    /\ ~stored
    /\ \/ /\ task' = [task EXCEPT ![p] = "coop"]
          /\ holders' = holders + 1
          /\ allowed' = [allowed EXCEPT ![p] = choked[p]]
          /\ mixed' = mixed \ {p}
          /\ UNCHANGED <<stored, orphans, mine>>
       \/ LET r == OwnOrphans[Len(orphans)]
          IN  /\ holders = 0
              /\ holders' = 1
              /\ IF IsFinish(r) /\ HashOK(r)
                 THEN Write /\ UNCHANGED <<task, allowed, mine, mixed>>
                 ELSE /\ orphans' = <<>>
                      /\ stored' = stored
                      /\ task' = [task EXCEPT ![p] = "solo"]
                      /\ allowed' = [allowed EXCEPT ![p] = choked[p]]
                      /\ mine' = [mine EXCEPT ![p] =
                            IF IsFinish(r) THEN ClearAlien(r, p) ELSE r]
                      /\ mixed' = IF orphans = <<>> THEN mixed \ {p} ELSE mixed \cup {p}
    /\ UNCHANGED <<share, fails, open, links, choked, count, checked, asked,
                   trouble, bad, arrived, late, liars, blamed>>

\* SendRequest of the blocks in S.
Ask(p, S) ==
    /\ mine' = [mine EXCEPT ![p] = [b \in Blocks |->
                    IF b \in S THEN [@[b] EXCEPT !.pending = TRUE] ELSE @[b]]]
    /\ count' = [count EXCEPT ![p] = @ + Cardinality(S)]
    /\ asked' = [asked EXCEPT ![p] = [b \in Blocks |->
                    IF b \in S THEN @[b] + 1 ELSE @[b]]]

\* What fits into the window.
Next12(p) == First(Missing(mine[p]), Window - count[p])

MayAsk(p, how) ==
    /\ open[p] /\ task[p] = how
    /\ ~choked[p] \/ allowed[p]
    /\ count[p] < Window

DoMyRequest(p) ==
    /\ MayAsk(p, "solo")
    /\ Next12(p) # {}
    /\ Ask(p, Next12(p))
    /\ UNCHANGED <<storage, open, links, choked, task, allowed, checked, trouble, bad,
                   history>>

\* GetShareTask finds the piece unfinished, and then waits for the lock.
CheckShare(p) ==
    /\ MayAsk(p, "coop")
    /\ ~checked[p]
    /\ ~stored
    /\ checked' = [checked EXCEPT ![p] = TRUE]
    /\ UNCHANGED <<storage, open, links, choked, task, allowed, mine, count, asked,
                   trouble, bad, history>>

\* It finds the piece finished: a peer that waits for no answer is closed.
ShareRefused(p) ==
    /\ MayAsk(p, "coop")
    /\ ~checked[p]
    /\ stored
    /\ count[p] = 0
    /\ OnClose(p)
    /\ UNCHANGED <<trouble, bad, history>>

\* The share request to ask from: the one there is, or a new one with the
\* orphans in it.
Current == IF share # NoShare THEN share ELSE SharedOrphans[Len(orphans)]
NewIsWhole == share = NoShare /\ IsFinish(Current)

\* The orphans were the whole piece, and it is good: no task is left.
ShareFromOrphans(p) ==
    /\ checked[p]
    /\ NewIsWhole /\ HashOK(Current)
    /\ IF count[p] = 0
       THEN /\ Shut(p) /\ CancelMyRequest(p)
       ELSE UNCHANGED <<open, choked, asked, holders, task, allowed, mine, count>>
    /\ Write
    /\ checked' = [checked EXCEPT ![p] = FALSE]
    /\ UNCHANGED <<share, fails, links, trouble, bad, history>>

\* A block to ask for, which may already be asked for here: then this peer
\* goes on with the blocks it has not, as many as fit.  Orphans that are the whole
\* piece and wrong are dropped, and the padding with them.
ShareTask(p) ==
    LET r == IF NewIsWhole THEN BareShare ELSE Current
    IN  /\ checked[p]
        /\ ~(NewIsWhole /\ HashOK(Current))
        /\ \E b \in First(Askable(r), 1) :
             LET more == mine[p][b].pending
             IN  /\ share' = [r EXCEPT ![b].pending = Wrapped(@ + 1)]
                 /\ Ask(p, IF more THEN Next12(p) ELSE {b})
                 /\ checked' = [checked EXCEPT
                        ![p] = ~more /\ count[p] + 1 < Window /\ ~stored]
        /\ orphans' = IF share = NoShare THEN <<>> ELSE orphans
        /\ fails' = IF share = NoShare THEN 0 ELSE fails
        /\ UNCHANGED <<stored, holders, open, links, choked, task, allowed, trouble, bad,
                       history>>

\* No block is left to hand out.
ShareEmpty(p) ==
    /\ checked[p]
    /\ share # NoShare /\ Askable(share) = {}
    /\ IF count[p] = 0 THEN OnClose(p)
       ELSE /\ checked' = [checked EXCEPT ![p] = FALSE]
            /\ UNCHANGED <<storage, open, links, choked, task, allowed, mine, count, asked>>
    /\ UNCHANGED <<trouble, bad, history>>

----------------------------------------------------------------------------
(* DoCmdPiece.                                                             *)

\* A block arrives: an answer, or one that nobody asked for.
Arrives(p, b, d) ==
    /\ Idle(p)
    /\ IF asked[p][b] > 0 /\ d = "good" THEN bad' = bad
       ELSE bad < MaxBad /\ ~stored /\ b \notin Virtual /\ bad' = bad + 1
    /\ arrived' = IF d = "good" THEN arrived \cup {b} ELSE arrived
    /\ liars' = IF d = "bad" THEN liars \cup {p} ELSE liars
    /\ trouble' = trouble
    /\ UNCHANGED <<links, checked, late, mixed>>

Answered(p, b) ==
    asked' = [asked EXCEPT ![p][b] = IF @ > 0 THEN @ - 1 ELSE 0]

Received(p, b, d) ==
    [mine[p] EXCEPT ![b] = [data |-> d, pending |-> FALSE, source |-> @.source]]

\* SetData: a block of the task is there, the task is not done.
Take(p, b, d) ==
    /\ mine' = [mine EXCEPT ![p] = Received(p, b, d)]
    /\ count' = [count EXCEPT ![p] = IF mine[p][b].pending THEN @ - 1 ELSE @]
    /\ Answered(p, b)
    /\ UNCHANGED <<open, choked, holders, task, allowed, blamed>>

\* The piece is finished already: nothing is looked at.
PieceFinished(p, b) ==
    /\ stored
    /\ Answered(p, b)
    /\ UNCHANGED <<storage, open, choked, task, allowed, mine, count, blamed>>

\* It is not the piece this peer is asked for.
CheckInOrphanData(p, b, d) ==
    /\ ~stored /\ task[p] = "none"
    /\ orphans' = Append(orphans, [block |-> b, data |-> d, source |-> p])
    /\ Answered(p, b)
    /\ UNCHANGED <<stored, holders, share, fails, open, choked, task, allowed,
                   mine, count, blamed>>

\* The last block is there, and the hash is right.
Complete(p, b) ==
    /\ Write
    /\ CancelMyRequest(p)
    /\ Answered(p, b)
    /\ UNCHANGED <<open, choked, blamed>>

\* The hash is wrong.  If blocks came from this address as orphans, it is the
\* others that are dropped; if not, the peer is closed.
Spoiled(p, b, d) ==
    /\ UNCHANGED <<stored, orphans>>
    /\ IF HaveAlien(Received(p, b, d), p)
       THEN /\ mine' = [mine EXCEPT ![p] = ClearAlien(Received(p, b, d), p)]
            /\ count' = [count EXCEPT ![p] = IF mine[p][b].pending THEN @ - 1 ELSE @]
            /\ Answered(p, b)
            /\ UNCHANGED <<open, choked, holders, task, allowed, blamed>>
       ELSE /\ Shut(p)
            /\ CancelMyRequest(p)
            /\ blamed' = blamed \cup {p}

\* Mutant: whoever completes a share request that is wrong is closed for it.
OwnOrShared(p, b, d) ==
    IF task[p] = "coop" /\ \A c \in Blocks \ {b} : share[c].data # "none"
    THEN Spoiled(p, b, d)
    ELSE Take(p, b, d) /\ UNCHANGED <<stored, orphans>>

\* What a task does with the block after it was submitted, if it was.
Own(p, b, d) ==
    LET r == Received(p, b, d)
    IN  \/ ~IsFinish(r) /\ Take(p, b, d) /\ UNCHANGED <<stored, orphans>>
        \/ IsFinish(r) /\ HashOK(r) /\ Complete(p, b)
        \/ IsFinish(r) /\ ~HashOK(r) /\ Spoiled(p, b, d)

PieceSolo(p, b, d) ==
    /\ ~stored /\ task[p] = "solo"
    /\ Own(p, b, d)
    /\ UNCHANGED <<share, fails>>

\* SubmitShareData.
PieceShared(p, b, d) ==
    LET s == SetShared(share, [block |-> b, data |-> d, source |-> p])
    IN  /\ ~stored /\ task[p] = "coop" /\ share # NoShare
        /\ IF IsFinish(s) /\ HashOK(s)
           THEN share' = NoShare /\ fails' = 0 /\ Complete(p, b)
           ELSE /\ share' = IF IsFinish(s) THEN ClearComfirm(s, fails + 1) ELSE s
                /\ fails' = IF IsFinish(s) THEN fails + 1 ELSE fails
                /\ Own(p, b, d)

\* Nobody has asked for a block of it yet.
PieceUnshared(p, b) ==
    /\ ~stored /\ task[p] = "coop" /\ share = NoShare
    /\ CancelMyRequest(p)
    /\ Answered(p, b)
    /\ UNCHANGED <<stored, orphans, share, fails, open, choked, blamed>>

DoCmdPiece(p) == \E b \in Blocks, d \in {"good", "bad"} :
    /\ Arrives(p, b, d)
    /\ \/ PieceFinished(p, b) \/ CheckInOrphanData(p, b, d)
       \/ PieceSolo(p, b, d) \/ PieceShared(p, b, d) \/ PieceUnshared(p, b)

----------------------------------------------------------------------------
(* Rejects and notices.                                                    *)

\* ResetPendingRequest of one block.
Unask(p, b) ==
    /\ mine' = [mine EXCEPT ![p][b].pending = FALSE]
    /\ count' = [count EXCEPT ![p] = IF mine[p][b].pending THEN @ - 1 ELSE @]

\* A peer that chokes us may reject; one that does not is closed for it.
DoCmdRejectRequest(p) == \E b \in Blocks :
    /\ Idle(p) /\ p \in FastPeers
    /\ asked[p][b] > 0
    /\ Trouble
    /\ IF task[p] # "none" /\ ~choked[p]
       THEN OnClose(p)
       ELSE /\ Answered(p, b)
            /\ IF task[p] = "none" THEN UNCHANGED <<mine, count>> ELSE Unask(p, b)
            /\ UNCHANGED <<storage, open, links, choked, task, allowed, checked>>
    /\ UNCHANGED <<bad, history>>

\* NoticeNewHavePiece: the piece this peer is asked for is finished.
NoticeNewHavePiece(p) ==
    /\ Idle(p)
    /\ stored /\ task[p] # "none"
    /\ CancelMyRequest(p)
    /\ UNCHANGED <<stored, orphans, share, fails, open, links, choked, checked,
                   asked, trouble, bad, history>>

----------------------------------------------------------------------------
Requests(p) ==
    \/ TakeTask(p) \/ DoMyRequest(p) \/ CheckShare(p) \/ ShareRefused(p)
    \/ ShareFromOrphans(p) \/ ShareTask(p) \/ ShareEmpty(p)

Next == \E p \in Peers :
    \/ OnConnectOk(p) \/ PeerCloses(p)
    \/ DoCmdChoke(p) \/ DoCmdUnchoke(p) \/ OnTimer(p)
    \/ Requests(p)
    \/ DoCmdPiece(p) \/ DoCmdRejectRequest(p) \/ NoticeNewHavePiece(p)

Spec == Init /\ [][Next]_vars

\* The session threads run, the peers link again, unchoke us and answer.
Fairness == \A p \in Peers :
    /\ WF_vars(OnConnectOk(p)) /\ WF_vars(DoCmdUnchoke(p))
    /\ WF_vars(Requests(p)) /\ WF_vars(DoCmdPiece(p))

FairSpec == Spec /\ Fairness

----------------------------------------------------------------------------
\* m_nPending is the number of blocks marked as pending, within the window;
\* and as long as no answer was late a block is not asked of a peer twice.
AskedOnce == \A p \in Peers :
    /\ count[p] = Cardinality(Pending(mine[p]))
    /\ count[p] <= Window
    /\ ~late /\ bad = 0 => \A b \in Blocks : asked[p][b] <= 1

\* A block that came in is kept until the piece is stored, through closes,
\* chokes, changes from one task to another and races for the share request:
\* some task, the share request or the orphans hold it.
NoBlockLost == ~stored /\ bad = 0 => \A b \in arrived :
    \/ \E p \in Peers : mine[p][b].data = "good"
    \/ share # NoShare /\ share[b].data = "good"
    \/ \E k \in DOMAIN orphans : orphans[k].block = b

\* The rest of the invariant.  A peer without a task has an empty one; one that
\* waits for the lock has room for a block; and who cooperates has nothing before
\* a share request is there.
Settled == \A p \in Peers :
    /\ task[p] = "none" => mine[p] = NewMine /\ count[p] = 0
    /\ ~open[p] => task[p] = "none" /\ asked[p] = NoneAsked
    /\ checked[p] => open[p] /\ task[p] = "coop" /\ count[p] < Window
    /\ task[p] = "coop" /\ share = NoShare /\ ~stored => mine[p] = NewMine

\* What is unanswered is pending, until the task ends with the piece; after a
\* timeout there is still a task that it is for.
AskedKnown == bad = 0 => \A p \in Peers, b \in Blocks : asked[p][b] > 0 =>
    /\ late \/ mine[p][b].pending \/ (stored /\ task[p] = "none")
    /\ stored \/ task[p] = "solo" \/ (task[p] = "coop" /\ share # NoShare)

\* Where nobody sent anything wrong, nothing wrong is held, and padding is there.
Sound(r) == \A b \in Blocks : r[b].data # "bad" /\ (b \in Virtual => r[b].data = "good")
OnlyGood == bad = 0 =>
    /\ \A p \in Peers : Sound(mine[p])
    /\ share # NoShare => Sound(share)
    /\ \A k \in DOMAIN orphans : orphans[k].data = "good"

\* What a cooperating peer holds, the share request holds too.
Submitted == bad = 0 /\ ~stored => \A p \in Peers, b \in Blocks \ Virtual :
    task[p] = "coop" /\ mine[p][b].data = "good"
        => share # NoShare /\ share[b].data = "good"

\* Wrong blocks are held by who sent one, or took over blocks of others.
BlameReady == \A p \in Peers \ (liars \cup mixed), b \in Blocks : mine[p][b].data # "bad"

\* What the task, the share request and the orphans hold of the piece fits
\* together: nothing is asked for twice, and nothing that came is lost.
BlockInv ==
    /\ TypeOK
    /\ AskedOnce
    /\ NoBlockLost
    /\ Settled
    /\ AskedKnown
    /\ OnlyGood
    /\ Submitted
    /\ BlameReady

\* A peer is closed for bad data only if it sent some, or if its task had taken
\* over blocks of others.
BlameFounded == [][blamed' \ blamed \subseteq liars' \cup mixed]_vars

\* The count of a block without data has come to its limit, at which GetTask
\* passes over it: every pass of a peer that has nothing more to ask adds one.
Worn == share # NoShare /\
    \E b \in Blocks : share[b].data = "none" /\ share[b].pending = MaxPending

\* As long as every block that comes is one that was asked for and is right,
\* the piece gets done, unless a block wears out.
PieceDone == <>(stored \/ bad > 0 \/ Worn)
=============================================================================
