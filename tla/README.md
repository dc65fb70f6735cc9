# Benliud in TLA+

Benliud is a BitTorrent client (`src/`): a download engine (`benliud_bt`), a DHT
node (`benliud_btkad`), a UPnP port mapper (`benliud_upnp`), a library of
sockets, timers and bencoding they share (`BaseLibs`), and an MFC window
(`benliud`) that loads them as plug-ins.  This directory holds TLA+
specifications of all of these, TLC configurations that check them on small
instances, and proofs checked by TLAPS.

## Inventory

### Threads

| thread | loop | what it touches |
|---|---|---|
| 2 session threads per download (`SESSIONNUM`, `BTSession.cpp` `Entry`) | sockets, timers, link admission, speed control | its own `CBTPeer` objects; shared: `CBTStorage`, `CPeerCenter`, `CTrackerCenter` |
| storage thread (`BTStorage.cpp` `Entry`) | once a second: write the cache, budgets | write cache, files |
| tracker thread (`TrackerCenter.cpp` `Entry`) | sockets and timers of the trackers | tracker status, `CPeerCenter` |
| job thread (`BTJob.cpp` `Entry`) | start and stop of all the above | |
| listener thread (`BTListener.cpp`, one for all jobs) | accepts links, reads the info hash, hands the link to a session | `CPeerAdmin` of that session |
| DHT thread, UPnP thread | one each | their own tables |
| UI thread | tasks, queries, limits, file priorities | almost everything, mostly without locks |

### Components

| component | state | operations | what makes it correct |
|---|---|---|---|
| Piece task allocation (`BTStorage`, `BTPeer`) | finished, wanted and downloading pieces, orphans, one task per peer, notices | choose and register a task, abandon it, write a piece, broadcast it | counts match the tasks; a task for a stored piece is cancelled; no piece is taken twice by accident |
| Block requests (`SingleRequest`, `ShareRequest`) | per block pending and data, orphans, share requests | ask, answer, reject, share between peers | no block is lost or asked for twice; who is blamed sent bad data; the piece gets done |
| Peer protocol (`BTPeer`, `BTPiece`) | bitfields, interest, mode, timers of each link | one handler per message | sums match the bitfields of open links; interest is what the bitfields give; silent links end |
| MSE handshake (`BTPeer`) | phase, two ciphers, buffers | one handler per phase | both sides agree and decrypt in step, or close |
| Upload and speed control (`BTPeer`, `SpeedControl`) | choke state, request queues, budget, clients in turn | choke, queue, serve, refill | one answer per request, none after a choke; everybody is served |
| Completion (`BTStorage`, `BTSession`, `PeerAdmin`) | finished flag, switch-mode flags | `CheckIsTaskFinished`, `DownloadFinish`, `SwitchMode` | the flag tells the truth; every session changes its mode |
| Link admission (`PeerCenter`, `PeerAdmin`, `BTListener`) | records per address, counters, connecting and connected peers | launch, accept, transfer, report | counters match the lists, limits hold, attempts end |
| Write and read cache (`BTStorage`) | write cache, edge cache, read buffers, files | `WritePiece`, `SmartWriteCache`, `ReadData`, stop and start | no finished piece is lost; what is read is what was written |
| Trackers (`TrackerCenter`, `TCPTracker`, `UDPTracker`) | state, timers, connecting handles | announce, retry, stop | handles are given back, every tracker asks again |
| DHT (`KBucket`, `DHTNode`, `FrontServer`, `DataBase`) | bucket, requests, tokens, announced peers | update, search, answer, time out, expire | answers meet their requests; one slot per node; who is handed out was backed |
| UPnP (`UPnpThread`, `UPnpNat*`) | router, parser, mapping tasks | find, map, unmap, retry | the router is found, every mapping is made or given up |
| Sockets and timers (`SockDealer`, `TimerDealer`) | client lists, timers, masks | attach, select, dispatch, remove | no closed socket is called; every attempt is reported |
| Plug-in interface and window (`benliud_bt`, `BTJob`, `MainFrm`) | task list, jobs, their threads | begin, stop, delete, quit | what is shown is what runs; stopped jobs end; no link is left behind |
| Torrent files and bencoding (`BaseLibs`) | the tree under construction, the table of files | parse, encode, number files | a tree is written as it was read; files tile the pieces |
| SOCKS client; vendored code | | | not modelled, see the end |

### How they interact

A session thread calls the storage for tasks, blocks, pieces and sums, always
under short locks of the storage, and never holds one over a call into a peer of
another session; the storage calls back into the peer administrations
(`BroadcastHavePiece`, `DownloadFinish`), which leave notices and flags for the
session threads to find.  The trackers, the DHT and the listener feed addresses
and links to `CPeerCenter` and `CPeerAdmin`.  Every network thread is a
`CSockDealer` and a `CTimerDealer` whose handlers are the components above.

### What is hard here

Handlers run on several threads and take several short locks one after the
other, so that what was read under the first is stale under the second; the
bitsets are read and rebuilt in place without a lock; flags are set by one thread
and cleared by another; messages behind the one that closed a link are still
handled.  A peer, a tracker, a router and a timer may each answer late, twice or
never; the disk may refuse and the process may die between two writes.
`PROJECT.json` lists every such place under "hazards", with the properties that
watch it.

## Plan

All of it is written; what could follow is named under "What is left".

| # | modules | what they are about | state |
|---|---|---|---|
| 1 | `PieceTasks`, abstract `PieceBoard` | who is asked for which piece | checked, proved |
| 2 | `Completion` | the end of a download | checked, proved with `Serving` |
| 3 | `PeerLinks` | links, limits and counters | checked, proved |
| 4 | `Trackers` | handles and timers of the trackers | checked, proved |
| 5 | `PeerWire`, `PieceSet` | bitfields, interest, timers of a link; the bit strings behind them | checked; `PeerWire` proved |
| 6 | `BlockRequests` | the blocks of a task, orphans, shared requests | checked, proved |
| 7 | `DiskCache` | from a verified piece to the disk and back, crashes and restarts | checked, proved |
| 8 | `Mse`, `Serving` | the encrypted handshake; the upload | checked, proved |
| 9 | `DhtQueries`, `KBucket`, `DhtServer` | what the DHT node asks, knows and serves | checked, proved |
| 10 | `Application`, `Dealer`, `PortMapper`, with `Lists` | tasks and their threads; sockets and timers; UPnP; what `std::list::remove` leaves | checked; the first two proved |
| 11 | `BenNode`, `Torrent` | bencoded trees, the table of files | checked |
| 12 | `MCServices`, `MCLiveness` | one instance of each small module for TLC | |

## The modules

`PieceBoard` is abstract; the others are translated from the code.  Where a
handler takes several locks it is split at the lock boundaries, and a program
counter per thread says where it is; everything between two such points, and a
whole handler that takes one lock or none that matters, is one step.

### PieceTasks (`BTStorage.cpp`, `BTPeer.cpp`, `SingleRequest.cpp`, `PeerAdmin.cpp`)

State: `priority`, `finished`, `downloading` and `orphaned` are the maps and
bitsets of `CBTStorage`; `link`, `req`, `coop`, `notices` are the peer's;
`told` is what went out on the wire; `wish`, `item`, `todo` are locals of the
handlers.  `lost` is a history of counts nobody gives back.

| actions | code |
|---|---|
| `Scan`, `Choose`, `Register`, `Help`, `NoTask` | `GetPieceTask(bitset)` between its three locked sections |
| `FastCheck`, `FastIn`, `FastOut` | `GetPieceTask(index)` for suggested and allow-fast pieces |
| `TakeOrphans`, `ShareOn`, `ShareRefused`, `ShareOrphans` | `CheckOutOrphanData`, `DoMyRequest` with `GetShareTask` |
| `PieceGood`, `PieceBad`, `CoopLate`, `Stray` | `DoCmdPiece`, the last block of a task or a block nobody waits for |
| `Clean`, `Store`, `Broadcast`, `After...` | `WritePiece`, `BroadcastHavePiece`, and the rest of the caller |
| `NoticeNewHavePiece` | the timer of the peer |
| `Shake`, `CopyBitfield`, `BitfieldSent`, `Close` | handshake, `SendBitfield`, `OnClose` |
| `GenPriorityClear`, `GenPrioritySet` | `AdjustFilePriority` rebuilding the priorities in place |

A piece is complete or not (its blocks are in `BlockRequests`); choke and
interest only decide when a task is asked for, which is left open.

### BlockRequests (`SingleRequest.cpp`, `ShareRequest.cpp`, `BTStorage.cpp`, `BTPeer.cpp`)

One piece, its blocks in order, the last one in a padding file.  `mine[p]` is the
task of a peer (`CSingleRequest`), `share` the common request, `orphans` what
ended tasks left, `asked[p]` what the remote peer has not answered yet.
`TakeTask` is `CheckMyRequest` with `CheckOutOrphanData`; `DoMyRequest`,
`CheckShare`, `ShareRefused`, `ShareFromOrphans`, `ShareTask`, `ShareEmpty` are the
ways `DoMyRequest` and `GetShareTask` go; `PieceSolo`, `PieceShared` and the
others are `DoCmdPiece`.  `pending` wraps like the unsigned short it is, at
`MaxPending`.  Which peer cooperates is decided in `PieceTasks`.  Padding is filled
where a task or a share request begins (`NewMine`, `NewShare`), but not where `GetShareTask` begins anew
after a wrong whole piece of orphans (`BareShare`, `BTStorage.cpp:2363`): there the
padding block is asked for like any other.

### PeerWire (`BTPeer.cpp`, `BTStorage.cpp`, `PeerAdmin.cpp`, `PeerCenter.h`)

Who has what, whether we are interested, and the timers for handshake and
bitfield.  `ProcessData` does not stop when a handler closes the link, so a
closed link is "draining" until its buffer is done.  `DoCmdBitfield`,
`DoCmdHaveAll`, `DoCmdHaveNone`, `DoCmdHave`, `DoCmdNotInterested`, `BadMessage` are the
handlers; `OnTimer`, `NotActive`, `NoticeNewHavePiece`, `CheckMyRequest` what
timers do; `WritePiece`, `BroadcastHavePiece`, `SwitchMode`, `EndSwitch` run on the
session threads, `AdjustFilePriority` and `FillPriority` on the user's: the one
clears the priorities in place, the other fills them again piece by piece.
A session learns of the end of the download, or of its going on, by `DownloadFinish`,
which raises `m_bSwitchMode`, and `SetMode`, which sets the mode.  These two may
happen to any session at any time: what the unlocked scan of `CheckIsTaskFinished`
found, and when, is the matter of `Completion`, and nothing here leans on it.
`BroadcastHavePiece` is one step over all peers, since what a peer gets out of it is
its own notice list.  A bitfield is a set of bits, the spare ones of the last byte
included: `GetSetedCount` counts them (`BTPiece.cpp:218`), and so do `claims` and
`Gain`.  That `CheckEdgeIntegrality` may mark pieces finished or missing again when
files are selected is left to `DiskCache`.  `avail` is `m_bitPieceSum`,
`noted` and `claims` the bitfield an address once showed.  `skew`, `gaveUp`,
`repriced`, `needless`, `shown` are histories that say where a property has an
exception: each is an effect of the code, described under "Also seen".

### DiskCache (`BTStorage.cpp`)

`WritePiece` marks a piece finished and puts it into the write cache under
`m_WriteCacheMutex`; `CacheEdge` puts it into the edge cache under
`m_EdgeCacheMutex`, which the session takes only after it released the first.
`edging` are the pieces in between, `early` those that were read wrong meanwhile and
are now in a read buffer.  `Wake`, `WriteNear`, `WriteOverflow`,
`GrowFile` and their ends are the three loops of `SmartWriteCache`; `Read` is
`ReadData` with edge cache and read buffers; `AdjustFilePriority` to
`FillPriorities` a change of the selection; `Stop`, `FlushPiece`, `Stopped`,
`Crash` and `Start` the life of the task, with the check of old files.  A piece has
a part in every file it touches, right on disk or not; a write may fail.
`Unaligned` are the pieces `CheckEdgeIntegrality` looks at: those in which a file
ends, padding files and the last one included (the `pop_back` at `BTStorage.cpp:2919`
is commented out); `Across` are those of them that two files share.

### Mse (`BTPeer.cpp`), Serving (`BTPeer.cpp`, `PeerAdmin.cpp`, `SpeedControl.cpp`)

`Mse`: two streams of cells, cut anywhere, each cell with the place of the
keystream it was encrypted at; one step per state of `ProcessData`, on both ends.
`Serving`: queues of requests and of outgoing messages, `AdjustChoke`, the passes and
turns of `SpeedControl` while the budget lasts, `Refill`.  `Upload` goes over its clients
up to three times: `Commands` writes what waits in their buffers whatever the budget is
and may use it up, allowed-fast pieces among it; in the pass "data" each peer is served,
in a download only if it gave as much as it got; in a third pass of a download our own
kind is served once more ("extra"), or everybody when little was uploaded ("forced").
`behind` are the peers the tit for tat refuses (`BTPeer.cpp:2785`), any when a data
pass of a download begins; who got more than it gave in the middle of its turn ends it.
Budget is counted in blocks, and what is overdrawn counts as nothing left.

### DhtQueries, KBucket, DhtServer (`benliud_btkad`)

`DhtQueries`: searches, the queue the send timer empties, pending requests with
packet numbers that are taken again, and a network that loses, delays and repeats.
`KBucket`: `Update`, `UpdateNoResponse`, refresh, one bucket with its waiting list.
`DhtServer`: requests of others, tokens, announced peers, expiry, the user's switch.
An announcement that is stored is answered by an empty packet, as in the code
(`FrontServer.cpp:864`).  A token is of its address and its period of ten seconds;
that one address asks twice in a period with an announcement in between is left out.

### Application, Dealer, PortMapper

`Application`: the window's menu handlers, `beginjob`, `stopjob`, `deletejob`, the
threads of job, storage and sessions between start and end, the listener that
hands links over.  `deletejob` destroys a job under its threads
(`benliud_bt.cpp:219`); once a thread has lost its object anything may happen and
the model stops (`wild`); everything before that is checked.
`Dealer`: `Select`, the pass over readable and that over writable sockets, the
timer passes; handlers close, connect and open sockets in between.
`SetDealer` is the listener's `SwitchAdmin` (`BTPeer.cpp:4837`) on a session that runs:
it pushes the socket to `m_PendingList` without a lock, whatever the session does to
that list (`SockDealer.cpp:42`, 54, 202).  `Met` is what such a push may do: it is
lost, it takes some that wait with it, or nothing happens; and the list may be left
`torn`, so that whatever is appended before the next cleaning is not found.  `astray`
are the sockets that were lost so.  A crash inside a broken list is left out.
Both take elements out of lists with `Without` of `Lists`, which is `std::list::remove`.
`PortMapper`: finder, parser and controllers with their timers; the router answers,
refuses or stays silent.

### BenNode, Torrent, PieceSet (`BaseLibs`, `BTPiece.cpp`)

Pure data built by calls: a bencoded tree token by token and its encoding back; the
table of files with padding files and two numberings; a set of pieces as bytes
with spare bits, of `W` bits each.
In `BenNode` a key is cut at its first NUL (`CutKey`, `BenNode.cpp:387`); a list is
hung where the code hangs it, which asks a dictionary for its last entry before it
hands the call down (`Taker`); and reading ends at the end of the root dictionary
only, so that after a root list it goes on.

### Completion (`BTStorage.cpp`, `PeerAdmin.cpp`)

`Store`, `Scan`, `ScanFailed`, `Decide`, `Call`, `SetMode` follow one thread
through the end of `WritePiece`: the unlocked scan of `CheckIsTaskFinished`,
piece by piece, the write of the flag, and the calls of `DownloadFinish` of all
sessions in the order of `m_SessionList`.  `SwitchBegin`, `SwitchPeer`,
`SwitchEnd` are `CheckPeerConnection` and `SwitchMode`; `Join` and `Leave` change
the list of connected peers.  The wanted pieces are fixed.

### PeerLinks (`PeerCenter.h`, `PeerCenter.cpp`, `PeerAdmin.cpp`, `BTListener.cpp`)

The records and counters of `CPeerCenter` (one operation of it is one definition,
all behind `m_Mutex`), the two lists of each `CPeerAdmin`, and the listener.
`Round` to `TakeFail` follow one timer round of a session thread: move the peers
that connected (`Move`, `Push`, `Report`, `MoveFull`), report the failed ones
(`Reap`), launch new links (`Pick`, `TakeLink`, `TakeFail`, `TakeTooMany`), close
what is over (`Expire`, `Sweep`).  `GotHash`, `TransferBegin`, `TransferOk`,
`TransferRefused` are the listener's thread.  `m_NextTry` and `m_BanedTime` are
"running or over".  `lost` is a history of addresses that were taken and neither
linked nor given back.

### Trackers (`TrackerCenter.cpp`, `TCPTracker.cpp`, `UDPTracker.cpp`)

One thread runs all handlers, so each is one step.  An HTTP tracker is its status
and the timer it has; `connectingCount` is the pool of handles.  A UDP tracker is
its state, the packet it sent last, and the timer `m_TimerId` names; `stale`
counts the repeating timers it forgot.  Times are left out: any timer may fire.

### MCServices and MCLiveness

The smaller modules share two runs.  `MCServices` extends the ones it checks, whose
names do not meet; `MCLiveness` instantiates its own with renamed variables.  In both
`service` says which one runs, and the others stand still
where they begin, so the states of a run are the sum of the modules' states and not
their product.  `MCServices` holds their safety, `MCLiveness` what must happen in
the end; each property names the service it is about.

## The runs

| run | instance | what it shows |
|---|---|---|
| `tasks` | 2 sessions with a peer each, 2 pieces, priorities 1 and 6 | `CountExact`, `SoloUnique`, `NoStranded`: counts, tasks and notices agree however the locked sections interleave |
| `tasks_live` | 2 sessions, 1 piece, suggested pieces, 1 change of priorities, fair | the inductive invariant; `PieceTasks` implements `PieceBoard`; peers are freed (`Released`), notices arrive (`Announced`) |
| `links` | 2 sessions and the listener, 4 links of 1 address | `BooksExact`: counters, records and lists agree, no list outgrows its limit by more than one; one launched link per session; at most four links |
| `wire` | a peer that linked to us and an encrypted one with the fast extension we linked to, of one address and in 2 sessions, a piece and a spare bit, 4 events (a link counts two, a change of priorities or of the mode one), fair | `WireInv`: the interest we show; `AvailExact`: the availability sum is the number of open links whose peer has the piece; `HonestKept`: a link is only ended as a cheat's if its address once showed a bit it does not show now; `SilentClosed`: a link without a bitfield ends |
| `blocks` | 2 peers (one with the fast extension), 2 blocks and a padding block, window 2, 1 link each, 1 trouble, 1 bad block, fair | `BlockInv`: no block lost or asked twice, with all that makes it inductive; `BlameFounded`; `PieceDone` |
| `cache` | 2 files that share a piece, the last one ending within a piece, 4 pieces, growth in steps of 2, cache limit 2, 1 event (error, crash, selection), fair | `CacheInv`: finished pieces are in the cache or right on disk, and no reader of wanted files gets wrong bytes, but of a piece on its way between the two caches; `CacheBounded`; `FinishedStored` |
| `services` | one of completion, handshake, searches, bucket, DHT server, upload, application, sockets, piece sets, bencoding, torrent | the safety of each: see below |
| `services_live` | one of handshake, upload, application, sockets, UPnP, links, completion, trackers, fair | what each must do in the end |
| `tasks_have`, `finish_race`, `trackers_handles`, `cache_bigpieces` | smallest instance | a statement of a comment that the code breaks, see below |

`services`: `NoFalseFinish` (nobody uploads while a wanted piece is missing);
`HandshakeInv` (no cell is decrypted at a wrong place, the ends agree, no undisturbed
handshake breaks); `QueriesInv` (answers meet their own requests), `SearchDies` (a
removed search dies out and announces nothing), `BucketInv` (one slot per node),
`ServerInv` (who is handed out had a token of its own address), `ItemsLast` (what is
stored stays until it expires or a newer announcement of the same peer replaces it);
`UploadInv` (every request is owed once, no piece after a choke, each link is told its
choking); `ApplicationInv` (the window shows what runs; no session leaves a link);
`DealerInv` (open sockets only, each once unless it went `astray`, no timer without its
attempt); `FormatInv` (a set of pieces is its string; a tree is written as it was read
but for keys cut at a NUL, and after any input no level is open that nobody counts; files
tile the pieces, no tracker is listed twice).

`services_live`: `StopsEnd` (a job told to stop ends), `MapperEnds` (the router is
found, an add is done or given up), `Served` (a request is served, unless its peer is
choked, does not read, is refused by the tit for tat, or the commands eat up the rounds),
`ShakesDone`, `AttemptsReported` (every `Connect` is answered to its owner), `AttemptsEnd`, `AllSwitch` (when one session
hears of the end, all do), `AsksAgain` (every tracker that can asks again); and
`TrackersInv`, the inductive invariant of the trackers (`HandlesExact`: a handle is held
by who connects; no more timers are forgotten than attempts failed; `IdFirst`: no
announce before a connection id).

### Why the bounds are enough

The races of this code are between two threads (`SESSIONNUM` is 2), and between
a thread and the listener; two sessions, with the listener where it takes part, have
all of them.  Two pieces let one thread work on another piece than the other.  Three
trackers make one wait while two connect.  A fifth link object of one address is
never used within the limits of `links`: the states are the same.  Priorities 1,
6 and 11 are one from each class the code tells apart (`> 5`, `> 10`).  `wire` has
the two orders in which bitfields are exchanged (accepted or launched), and the second
link of the address finds what the first one showed; the bitfield without a piece comes
as HaveNone.  Its properties speak of one piece at a time, and what a handler asks of
all of them is whether there is one we miss: one piece and one spare bit have both
answers, and two counts that differ by a bit which is no piece.  Two links leave no event
for a change of mode, one leaves two.  Three blocks are one to ask for, one
to ask for meanwhile and one that padding fills; `MaxPending` 2 stands for 65535 and is
reached.  In `cache` the head of the second file lies in the last piece of the
first, growth passes over a piece and then reaches the end, and one event of each kind
can meet every other state.  A handshake has pads of 0 and 1 units (the limit is 2) and any cut of the streams; the bucket
has limits 1 and 2 for three nodes; an input of 6 tokens has a key, a value and
a level that fails in every position; packet numbers are 0 and 1, so that they are used
again at once; the application has two tasks of which one may run.

The bounds on histories are `MaxAdjusts` (changes by the user),
`MaxLinks`, `MaxTrouble`, `MaxBad`, `MaxEvents`, `MaxFails`, `MaxTimers`, `MaxClock`,
`MaxSent`, `MaxQueue`, `MaxMessages`, `MaxKeepAlives`, `MaxTokens`.  `MaxFails` also bounds
the failures of a UDP tracker: when it is reached only answers may come, so `AsksAgain`
is not helped by it.  Deadlock is checked in the runs of `PieceTasks`; in the others
an instance may stop for good (its links are used up, all trackers are lost, a torrent
is read, the program has quit).

### Fairness

A session thread runs a loop over its sockets and timers (`BTSession.cpp`,
`Entry`), and no handler waits for anything but a mutex that its holder gives back
within the handler.  So a handler that was begun is ended: weak fairness of the
steps of a busy thread.  A timer of a peer is served again and again, but only when
its thread is between two handlers: strong fairness of `NoticeNewHavePiece`, of
`OnTimer` in `PeerWire`, and of `Outcome`, the end of an attempt to connect, for
which `Connect` arms a timer.

| module | fair steps | why |
|---|---|---|
| `PieceTasks`, `Completion`, `PeerLinks` | the steps of a busy thread; `Outcome` and notices strongly | above |
| `PeerWire` | `BroadcastHavePiece`, `EndSwitch`, `Drained`; `OnTimer` strongly | a repeating timer of a minute, `BTPeer.cpp:484` |
| `BlockRequests` | links, unchokes, asks and answers of each peer | `PieceDone` is about a piece somebody has; nothing is assumed of chokes, rejects or notices |
| `DiskCache` | the storage thread, a call of the user once begun | the thread sleeps a second |
| `Mse` | both threads, the network delivers | no loss within a TCP link |
| `Serving` | the turns, commands included, the refills, peers read; strongly a refill with any given peer at the head | the refill comes every 500 ms and falls between any two turns |
| `Application` | every thread that can run does, as long as no object was destroyed under one | |
| `Dealer` | the thread goes round; strongly a timer that is looked at again and again | time passes |
| `PortMapper` | timers fire, a connection is made or given up; strongly a router that is asked time and again answers | `MapperEnds` is about a router that exists |
| `Trackers` | every timer fires | |

Of remote peers, servers and the user nothing else is assumed: they may stay silent
for ever.

## What is proved

All theorems hold for any peers, pieces, threads, addresses, trackers and limits
that satisfy the assumptions named in the modules (finite sets, and model values
that are not members of them); they use nothing else.

**`PieceTasks_proofs`**: `TypeCorrect`, `TaskInvariant`, `NeverStranded`.
`NoStranded` says that a peer still asked for a stored piece has the cancelling
notice on its way.  It is not inductive: a thread may be about to ask for a piece
that was stored since it read the bitset.  `StaleCovered` adds that each such
piece is being announced to that very peer; `HandlerOK` that what a thread
remembers is true of its peer, above all that the peer is open, since only open
peers get notices; `Unheard` that nothing a peer was told of is still in hand, so
that a notice cannot be used up before the task is taken.  Together they are
`TaskInv`.

The same module proves the refinement: `Implements`, `Spec => BoardSpec`, step by step
under `TaskInv`: `Store` is `Keep`, `Register`, `Help`, `FastIn` and `FastOut` are `Take`,
the notice is `Tell`, the rest stutters or drops.  `BoardSafe` is what `PieceBoard`
promises by itself, and `ToldNotAsked` carries it over to the threads: no peer that was
told of a piece is asked for it.  `CountsExact` and `SoloTasksUnique` hold if no peer uses
the suggest and allow-fast lists.  With them the equation is false in the code:
`GetPieceTask(index)` writes 1 into the map without its mutex.  Their invariant adds
where a count was taken but its task not yet cancelled.

**`BlockRequests_proofs`**: `BlocksHold`, `Spec => []BlockInv`; `BlockInv` is inductive as
it stands.  That no block is lost (`NoBlockLost`) needs three more facts.  A cooperating
peer's blocks are thrown away with its task, so the share request must have them
(`Submitted`), and it must have them from the start, so a peer that cooperates before
there is a share request has none (`Settled`).  An answer finds a task that takes it
(`AskedKnown`): what is unanswered is pending, or its task ended with the piece.  And a
good block is not replaced by another, since nothing wrong is held (`OnlyGood`).
Everything is said peer by peer (`Fine`), so that a step of one peer is looked at for that
peer, and for all through what it does to the share request and the orphans.
The orphans go from a task to the next as a sequence: `GetOrphans` writes the held blocks
in order, and the proof needs the rank of each (`Ranks`, `OrphansFilled`), and that setting
them one after the other, a recursive function, fills just those blocks (`Climb`,
`OwnFilled`, `SharedFilled`).  `BlameHolds` is the action property `BlameFounded`, from
`BlameReady`: a wrong block lies only with a peer that sent one or took over others'.

**`DiskCache_proofs`**: `CacheHolds`, `Spec => []CacheInv`, the whole of which the run
`cache` checks.  That finished pieces are right
in the wanted files is not inductive, since the wanted files change and files grow.
`WantedCovered` says that what is wanted is open, or known to have been missed;
`UnopenedEdges` that a finished piece of a file that never was open lies across its end
and is in the edge cache or on its way there (`edging`): between the two locks of
`WritePiece` it may be in neither cache; `StoredOrHidden` that between opening a file and
checking its edge the edge cache still hides the part that is not there, or will; `GrownBehind` that what is
stored of a file lies behind its last write, or is its last piece, which growth never
reaches; `BufferedWrong` that the read buffers have wrong bytes only of parts nobody
vouches for, or read between those two locks (`early`); `Transient` and `WithinFile` what does not outlive a stop and where the last
write can be.  That every piece the check of the edges looks at is an edge piece
(`UnalignedEnds`) is an assumption on where files end.  The order of the files (`Ordered`) is derived from the assumption on two
neighbours.  The theorem assumes `Step > 1`, pieces of at most 2 MB: with longer ones it is
false, which is how `cache_bigpieces` was found.  `Bounded` is the action property
`CacheBounded`, for any step: `OverflowLeft` relates what the overflow loop has left to do
to how full the cache is.

**`PeerWire_proofs`**: `WireHolds`, `Spec => []WireInv`.  That interest is kept
(`InterestKept`) and founded (`InterestFounded`) is not inductive: when the last
wanted piece of a peer is stored by another session, only the notice of
`BroadcastHavePiece` makes us look at our interest again, and it goes to peers that
have our bitfield.  `AllTold` says that every peer we are interested in has it, since
interest comes after its bitfield and ours goes out before or with that.
Nothing is said of how the mode of a session and the state of the download agree, since
the unlocked scan keeps them apart (`finish_race`): a session may be told to switch at any
moment (`ModeStep`).  What that costs is `needless`: a HAVE ALL to a peer that is not yet in
upload mode makes us interested when nothing is missing any more.  A handler or timer of a
peer leaves the part of all others alone (`Alone`), so it is looked at for its own
peer (`PeerKeeps`); the steps of sessions and user have a lemma each.
`SumExact` is `AvailExact`: the sum is the number of the others that have a piece, and one
if this peer has it (`CountWithout`), so each step need only be looked at for one peer.
`m_bitPieceSum` does not count below zero; that it never has to, but for the pieces of
`skew`, comes from the same equation (`InSum`).  `HonestHolds` is the action property
`HonestKept`, from `ClaimsShown`: what an address is recorded to have claimed was shown by
one of its peers, so a peer that shows fewer bits lacks one of those.

**`PeerLinks_proofs`**: `LinkTypes`, `LinksRecorded`, `LaunchedOnce`, `FewLinks`,
from `LinkInv`: an address is in the hands of, or being connected by, at most one
session, and its record says which (`HandOk`, `ConnectingOk`); a launched link that
was reported is recorded (`ConnectedOk`); no peer is in two places but while it is
moved (`Apart`).  `FewLinks` needs no counters of lists: the bound is kept by the
guards and the one attempt they allow.
`BooksHold` is `BooksExact`, from `LinkInv` and `Books`: the counters of attempts are
the attempts in the lists, in the hands of a session and lost (`Attempts`); those of
links are the links that were reported, by address and direction (`Connections`); and
`RoomLeft` says that the listener and a session that pushes a peer find room for at
most one more than the limit (`Room`).  The theorem holds in both phases of a task,
also while a download finishes or is reopened, which the run `links` leaves out.

**`Services_proofs`**, the upload: `UploadHolds`, `Spec => []UploadInv`, under `ServingAssumption`.
That no piece follows a choke on the wire is not inductive by itself: a piece is written
when we do not choke the peer, so the wire and the flag must agree.  `ChokeTold` says
that they do, counting what the peer has read and what is on its way, on each link that
is up; only those are served, since the speed control's clients are the links of the list,
each once (`TypeOK`; `Passes` and `Lined` follow them through the passes of a round).
That a request is owed once needs that no block is queued twice:
a request that is asked for again while the peer is choked, its old one still queued, must
not be taken (`Dropped`, `RequestRejected`).  What a message written, read or thrown away
does to one wire is said in lemmas of their own (`LineSent`, `LineTold`, `LineRead`,
`LineEmpty`), for any queue, over the last choke or unchoke before a place (`Heard`).
`NeverFinishedEarly` is the end of a download (`Completion`), from `FinishInv`: a scan at
piece `i` has seen that all wanted pieces before `i` are finished, which stays true since
pieces are never taken back; sessions are only called when the download is complete.

**`Services_proofs`**, the three parts of the DHT: `AnswersKnown`, `QueriesSpec => []QueriesInv`,
from `QueriesIInv`: no two requests that wait for an answer from one address have the
same packet number, and an answer on its way to one of them is from its node and has its
number (`SentInv`), so that it cannot be taken for the answer to another; what is queued
is well formed and announces no removed task (`QueueInv`).
`RemovedDiesOut` is the action property `SearchDies`, from the same invariant.
`OnePlaceEach` and `GrowsWithRoom` are `BucketInv` and the action property `BucketGrows`
(a bucket only grows in room, also when its limit was lowered; only proved):
every way `Update` and `UpdateNoResponse` go leaves a node one slot, but for the waiting
node the code gives a second (`twice`).  `StoreBacked` and `StoredStays` are `ServerInv`
and the action property `ItemsLast`: an item that goes was expired, or the one that
comes is of the same peer and no older, since the clock only rises.

**`Mse_proofs`**: `HandshakeSound`, `MseSpec => []HandshakeInv`, under `MseAssumption`,
whose pads are shorter than the limit because the code draws them with `rand() % 512`
(`BTPeer.cpp:3229`, 3432, 4047, 4181): a pad of exactly 512 would be refused.
What an end has read says little about what it will read, so the invariant `MseIInv`
speaks of the whole stream toward it, its buffer and what is on the way, which does not
change when the network delivers a piece of any size (`ReadStays`).
It has two parts.  `ModeInv` holds whatever happens: behind each HASH(req1) that B can
find stands a whole request, and behind each VC that A can find a whole answer
(`ModeB`, `ModeA`), so both set the same `full`.  `ShakeInv` holds while no key begins
with 19 and no keep-alive was sent into the handshake (`Undisturbed`): for each pair of
states of the ends it gives the layout of the streams and the place in the keystream of
every cell (`TowardB`, `TowardA`: a key and its pad, the request or the answer, what is
left of either, and then the session).  From that layout the search for HASH(req1) or the
VC finds the one there is (`FoundBehind`), since a pad is plain and no other cell has
that place; the buffer is never too long before it is found; and each decryption starts
at the place where the other end encrypted.

**`Threads_proofs`**: what the threads keep lists of.
`NothingLeftBehind`, `AppSpec => []ApplicationInv`: that a session that ended has no link
is not inductive, since the listener hands links to the sessions of a list.  `LinksEnd`
adds that a session is not in the list any more when it has left it, which is before it
ends, and that it never comes back.
`CalledWhileOpen`, `DealerSpec => []DealerInv`, from `DealerIInv`: the two lists hold a
socket once if it is open, this dealer's and not astray, and else not at all (`Listed`),
whatever the listener's push did to them (`Strays`, `Adds`, `Meets`, `Tears`); a live timer is that of
the attempt its socket is at (`WorldOK`); and each socket of a batch is still open when
its turn comes, because a batch holds it once and a handler closes no socket but its own
(`Batch`, `KeepsOthers`).  A handler makes several calls in a row, so each call is a lemma
on its own about any record of lists (`Closes`, `HandsOn`, `Opens`, `Writes`, `TimesOut`).
A free handle exists because there are as many as sockets (`HandleFree`).
What `Without` leaves, and how often each element, is proved for every sequence
(`WithoutLeaves`, `TimesWithout`) by going up the recursive function (`Upwards`).
`TrackersSafe`, `HandlesCounted`, `LeaksPaid`,
`NoEarlyAnnounce`, from `TrackersInv`: the count of handles is the number of
trackers that connect or were lost, and each state of a UDP tracker fits the timer
it minds and the packet it sent, with one failure kept in hand for the timer it will
forget (`UdpOK`).

Sets of numbers have a least one: that, from the library's `WFMin`, is how the proofs
do what induction would be needed for (the order of the files, the functions that go
through the orphans or a list), by the least counterexample.

Only model-checked: all liveness (temporal reasoning under fairness is out of the
prover's reach), and `FormatInv`, which speaks of the recursive encoding of
trees and of folds over files.

## Where the code differs from its comments

Each of these is a run that ends in a counterexample.

| run | what happens |
|---|---|
| `tasks_have` | a piece stored while a bitfield is being sent is neither in it nor announced (comment at `BTPeer.cpp:1807`) |
| `finish_race` | the scan that saw the last piece missing overwrites the flag of the one that saw it stored: the download never becomes an upload (`BTStorage.cpp:830`) |
| `cache_bigpieces` | with pieces of more than 2 MB a step of growth is one piece; the byte written to push the end of a big file forward then falls on the last byte of the piece stored last, which is finished and now wrong (`BTStorage.cpp:3599`, `3616`, `3631`; comments at `3426`, `3595`) |
| `trackers_handles` | a tracker whose server name cannot be looked up keeps its connecting handle (`TCPTracker.cpp:300`, `:313`) |

Also seen while modelling, without a run of their own; where a property would fail
because of one, its comment names the exception.

Tasks and completion:
- `GetPieceTask` chooses under one lock and registers under another, so two threads
  may ask for the same ordinary piece long before the ending mode (`BTStorage.cpp:629`,
  comment at l.665).
- `CheckOutOrphanData` (`BTPeer.cpp:2628`) leaves a count in `m_DownloadingMap`
  when orphans complete a piece: `CountExact` has it as `lost`.
- `GenPriorityBitSet` clears the priorities in place (`BTStorage.cpp:1237`), so that
  nothing is wanted until they are filled again; a piece
  verified meanwhile is thrown away by `WritePiece` (l.802) and fetched again.
- A switch of mode asked for while `SwitchMode` runs is forgotten (`PeerAdmin.cpp:905`),
  and the request is raised before the mode is set (l.261).

Blocks:
- The hand-out count of a shared block stops at 65535 and the block is passed over
  (`ShareRequest.cpp:179`); an unasked block makes it wrap (l.95): `Worn`.
- A share request that begins anew after a wrong piece does not fill its padding
  (`BTStorage.cpp:2363`); peers are asked for it.
- The test of `HaveAlien` is inverted (`BTPeer.cpp:1746`): when a piece is bad, blocks
  of others are dropped and the sender stays, or the sender is closed for its own.

Peers:
- Messages behind the one that closed a link are handled, and a refused bitfield is
  subtracted from sums it was never added to (`BTPeer.cpp:1325`, `1425`): `skew`.
- The number of bits shown is compared per address, so two clients behind one
  address, or one that starts afresh, look like a cheat (`PeerCenter.h:607`); so does one
  that set spare bits once and does not again, since they count (`BTPiece.cpp:218`).
- A HAVE ALL that comes when nothing is missing any more makes us interested
  (`BTPeer.cpp:2096`), until something new comes in: `needless`.
- Interest is taken back when no task was found, or kept after a change of
  priorities, until the peer says something new (`BTPeer.cpp:2471`): `gaveUp`, `repriced`.
- In a download a peer that gave less than it got may wait for ever (`BTPeer.cpp:2785`),
  and so may all when commands and pieces that are always allowed eat up the budget, for
  they have no limit (`SpeedControl.cpp:103`).  Of a block smaller than 4096 bytes
  nothing is counted (`BTPeer.cpp:2803`).
- `AdjustChoke` leaves interested peers beyond its number as they are; requests for
  allowed-fast pieces are dropped silently (`BTPeer.cpp:1545`).
- In the encrypted handshake a test is inverted (`BTPeer.cpp:3316`), a pad of exactly
  512 bytes is refused (`3529`), and a keep-alive may fall into it (`575`).

Links and trackers:
- An uploader that cannot create a socket keeps the address it took
  (`PeerAdmin.cpp:813`): `lost`.
- A UDP tracker acts on the action of an answer whatever it asked
  (`UDPTracker.cpp:265`); `Trackers` takes answers that fit.
- Four links to one address where the comment at `PeerCenter.h:553` speaks of three.
- `CTrackerCenter::SetEvent` (`TrackerCenter.cpp:190`) stores the event where no
  tracker reads it: "completed" is never announced.

Disk:
- A file selected again without being opened anew, opened for reading only, or not
  created (`BTStorage.cpp:1593`) is exempt from every check of its edges: `holed`.
- The flush at the end ignores errors (l.2603): `lost`.
- A piece is finished before the edge cache has it (l.819-826): who reads it in between
  may get what lies on disk: `edging`, `early`.

DHT:
- The first nodes are asked once ever (`DHTNode.cpp:507`); announcements are recorded by
  node key and looked up by hash (`570`, `755`); a search's follow-up may be queued
  after it was cancelled (`DHTThread.cpp:340`).
- A waiting node may get a second slot (`KBucket.cpp:207`): `twice`; whether a new entry
  counts as failed is an uninitialised value (`KBucketEntry.cpp:37`).
- A full store refuses to replace an item it has (`DataBase.cpp:55`).
- The answer to an announcement that was stored is built and never encoded (no
  `ToStream`): the sender gets an empty packet (`FrontServer.cpp:864-886`) and is never
  told.

Threads, sockets, UPnP:
- `deletejob` and `stopalljob` destroy a job without waiting (`benliud_bt.cpp:219`,
  `725`): `wild`.  A session that cannot start leaves its storage running
  (`BTJob.cpp:219`).
- The listener adds sockets to a dealer that runs, and the locks against that are
  commented out (`SockDealer.cpp:42`, 54, 202): a link may be lost, open and never
  called: `astray`.
- A refused connect is reported as `OnConnectOk` (`TCPClientSock.h:94`); write readiness
  is applied after handlers ran (`SockDealer.cpp:155`).
- The parser never clears its buffer (`UPnpNatParser.cpp:108`) and some answers
  make it loop for ever (`298`): `hung`; a late answer throws the mapper back
  (`UPnpNat.cpp:216`); the report goes to the first task of its kind (`375`).

Formats:
- `SetKey` cuts a key at its first NUL (`BenNode.cpp:387`): such a dictionary is not
  written as it was read, and an infohash made of it is another.  A length that goes
  beyond the end of the input is read all the same (l.697), which is not modelled.
- A path in a torrent that is no list is a file without a name (`TorrentFile.cpp:601`).
- Bits beyond the last piece are counted; an index beyond the end is "set"
  (`BTPiece.cpp`).  A torrent's number of pieces is never compared with its size
  (`TorrentFile.cpp:468`).

## What is not modelled

- Times: every timer may fire at any moment.  Bytes: blocks, messages, announces and
  answers are values that are right or wrong.  Ciphers and hashes, which are vendored.
- Which pieces are rare, which peer is dropped by credit or speed, distances between
  DHT keys and the tree of buckets: left open where they decide.
- What a broken list does to the process when two threads were in it at once.
- The lost updates of the unlocked byte budgets (`BTStorage.cpp:2725`,
  `BTListener.cpp:123`): they change how much goes out, not what.
- Peer exchange, extension messages, ports; the making of torrents; queries, settings
  and speeds of the plug-in interfaces; UDP sockets in `Dealer`; all of the window but
  its tasks.
- The SOCKS client, which is dead code here: `SetSocketProxy` is never called.
- `thirdparty` is vendored.

## What is left

Models: the tree of buckets, peer exchange, and a composition of `PieceTasks` with
`BlockRequests`, whose tasks are the same.
