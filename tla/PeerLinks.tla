----------------------------- MODULE PeerLinks ------------------------------
(***************************************************************************)
(* The links of a download: who is linked, who may be linked next, and how *)
(* many links there are.                                                   *)
(*                                                                         *)
(* CPeerCenter holds one TPeerDetail per address and the counters of the   *)
(* whole download, behind m_Mutex.  Each session thread has a CPeerAdmin   *)
(* with a list of connecting peers (only its own) and a list of connected  *)
(* peers (m_ConnectedPeerListMutex), which the listener thread pushes      *)
(* accepted peers into (TransferPeer).  A timer of the session thread goes *)
(* over both lists in rounds (CheckPeerConnection).                        *)
(*                                                                         *)
(* Abstracted: m_NextTry and m_BanedTime are "still running or not"; of    *)
(* m_Connective only its sign is kept; the order of LinkPriority is left   *)
(* open; a reason for closing is chosen where it is reported.              *)
(***************************************************************************)
EXTENDS Integers, FiniteSets, Sequences

CONSTANTS
    Sessions,           \* the session threads, SESSIONNUM of them
    SessionList,        \* m_SessionList: the order TransferPeer asks them in
    Addrs,              \* the addresses of peers
    Links,              \* CBTPeer objects
    NoAddr, NoLink,
    LinkMax,            \* GetLinkMax()
    UploadLinkMax,      \* GetUploadLinkMax()
    ConnectingLimit,    \* m_nConnectingLimit
    ConnectionLimit,    \* m_nConnectionLimit
    Phases              \* the values m_bDownloadFinish takes in this instance

ASSUME NoAddrAssumption == NoAddr \notin Addrs
ASSUME NoLinkAssumption == NoLink \notin Links
ASSUME LinksAssumption == IsFiniteSet(Links)
ASSUME SessionsAssumption == IsFiniteSet(Sessions) /\ Sessions # {}
ASSUME SessionListAssumption ==
    /\ SessionList \in Seq(Sessions)
    /\ SessionList # <<>>
ASSUME LimitsAssumption ==
    /\ LinkMax \in Nat
    /\ UploadLinkMax \in Nat
    /\ ConnectingLimit \in Nat
    /\ ConnectionLimit \in Nat
ASSUME PhasesAssumption == Phases \in SUBSET BOOLEAN

VARIABLES
    \* TPeerDetail of every address
    known,          \* m_iPort # 0
    good,           \* m_Connective > 0
    later,          \* m_NextTry > now
    banned,         \* m_BanedTime > now
    linking,        \* m_LinkingRecord
    linked,         \* m_LinkRecord
    out,            \* m_OutLinkCount
    in,             \* m_InLinkCount
    \* the counters of CPeerCenter
    nConnecting, sessConnecting, nConnection, sessConnection,
    \* the lists of CPeerAdmin, and their peers
    connecting, connected,
    addr,           \* the address of a peer
    mine,           \* !IsAccepted()
    state,          \* its link state
    \* the threads
    finish,         \* m_bDownloadFinish
    pc,             \* where the session thread is
    up,             \* m_bDownloadFinish as its round read it
    hand,           \* the address GetPeerInfoToLink gave it
    quota, tries,   \* the counters of the launch loops
    moving,         \* the peer CheckConnectedConnecting moves
    offer, offerAt, \* the peer the listener offers, and to which session
    holds,          \* the listener is inside TransferPeer, with the lock
    lost            \* history: addresses taken and neither linked nor given back

details == <<known, good, later, banned, linking, linked, out, in>>
counters == <<nConnecting, sessConnecting, nConnection, sessConnection>>
lists == <<connecting, connected>>
peers == <<addr, mine, state>>
loops == <<up, hand, quota, tries, moving>>
listener == <<offer, offerAt, holds>>
vars == <<details, counters, lists, peers, finish, pc, loops, listener, lost>>

SessionNum == Cardinality(Sessions)

DetailTypes ==
    /\ known \in [Addrs -> BOOLEAN]
    /\ good \in [Addrs -> BOOLEAN]
    /\ later \in [Addrs -> BOOLEAN]
    /\ banned \in [Addrs -> BOOLEAN]
    /\ linking \in [Addrs -> SUBSET Sessions]
    /\ linked \in [Addrs -> SUBSET Sessions]
    /\ out \in [Addrs -> Int]
    /\ in \in [Addrs -> Int]

CounterTypes ==
    /\ nConnecting \in Int
    /\ sessConnecting \in [Sessions -> Int]
    /\ nConnection \in Int
    /\ sessConnection \in [Sessions -> Int]
    /\ lost \in [Sessions -> Nat]

PeerTypes ==
    /\ connecting \in [Sessions -> SUBSET Links]
    /\ connected \in [Sessions -> SUBSET Links]
    /\ addr \in [Links -> Addrs \cup {NoAddr}]
    /\ mine \in [Links -> BOOLEAN]
    /\ state \in [Links -> {"none", "linking", "open", "failed", "closed"}]

ThreadTypes ==
    /\ finish \in [Sessions -> BOOLEAN]
    /\ pc \in [Sessions -> {"idle", "move", "push", "report", "reap",
                            "good", "any", "expire", "sweep"}]
    /\ up \in [Sessions -> BOOLEAN]
    /\ hand \in [Sessions -> Addrs \cup {NoAddr}]
    /\ quota \in [Sessions -> Int]
    /\ tries \in [Sessions -> Nat]
    /\ moving \in [Sessions -> Links \cup {NoLink}]

ListenerTypes ==
    /\ offer \in Links \cup {NoLink}
    /\ offerAt \in 1 .. Len(SessionList)
    /\ holds \in BOOLEAN

TypeOK == DetailTypes /\ CounterTypes /\ PeerTypes /\ ThreadTypes /\ ListenerTypes

\* A download may be finished when the job starts.
Init ==
    /\ known = [a \in Addrs |-> FALSE]
    /\ good = [a \in Addrs |-> FALSE]
    /\ later = [a \in Addrs |-> FALSE]
    /\ banned = [a \in Addrs |-> FALSE]
    /\ linking = [a \in Addrs |-> {}]
    /\ linked = [a \in Addrs |-> {}]
    /\ out = [a \in Addrs |-> 0]
    /\ in = [a \in Addrs |-> 0]
    /\ nConnecting = 0
    /\ sessConnecting = [s \in Sessions |-> 0]
    /\ nConnection = 0
    /\ sessConnection = [s \in Sessions |-> 0]
    /\ connecting = [s \in Sessions |-> {}]
    /\ connected = [s \in Sessions |-> {}]
    /\ addr = [l \in Links |-> NoAddr]
    /\ mine = [l \in Links |-> FALSE]
    /\ state = [l \in Links |-> "none"]
    /\ \E f \in Phases : finish = [s \in Sessions |-> f]
    /\ pc = [s \in Sessions |-> "idle"]
    /\ up = [s \in Sessions |-> FALSE]
    /\ hand = [s \in Sessions |-> NoAddr]
    /\ quota = [s \in Sessions |-> 0]
    /\ tries = [s \in Sessions |-> 0]
    /\ moving = [s \in Sessions |-> NoLink]
    /\ offer = NoLink
    /\ offerAt = 1
    /\ holds = FALSE
    /\ lost = [s \in Sessions |-> 0]

Goto(s, x) == pc' = [pc EXCEPT ![s] = x]

Create(l, a, out_) ==
    /\ addr' = [addr EXCEPT ![l] = a]
    /\ mine' = [mine EXCEPT ![l] = out_]

Delete(l) ==
    /\ addr' = [addr EXCEPT ![l] = NoAddr]
    /\ mine' = [mine EXCEPT ![l] = FALSE]
    /\ state' = [state EXCEPT ![l] = "none"]

-----------------------------------------------------------------------------
(* CPeerCenter: each operation runs behind m_Mutex.                        *)

\* Mutant: it does not matter that some session is linking to the address.
AvialableWhileLinking(s, a, connectable) ==
    /\ ~later[a]
    /\ ~banned[a]
    /\ connectable => good[a]
    /\ s \notin linked[a]
    /\ out[a] + in[a] < SessionNum
    /\ known[a]

AvialableForLink(s, a, connectable) ==
    /\ ~later[a]
    /\ ~banned[a]
    /\ connectable => good[a]
    /\ linking[a] = {}
    /\ s \notin linked[a]
    /\ out[a] + in[a] < SessionNum
    /\ known[a]

\* The addresses GetPeerInfoToLink may return.
Linkable(s, connectable) ==
    IF nConnecting < ConnectingLimit /\ sessConnecting[s] <= ConnectingLimit \div SessionNum
      THEN {a \in Addrs : AvialableForLink(s, a, connectable)}
      ELSE {}

GetPeerInfoToLink(s, a) ==
    /\ linking' = [linking EXCEPT ![a] = @ \cup {s}]
    /\ nConnecting' = nConnecting + 1
    /\ sessConnecting' = [sessConnecting EXCEPT ![s] = @ + 1]

\* The end of an attempt, whatever came of it.
NotConnecting(s, a) ==
    /\ linking' = [linking EXCEPT ![a] = @ \ {s}]
    /\ nConnecting' = nConnecting - 1
    /\ sessConnecting' = [sessConnecting EXCEPT ![s] = @ - 1]

GiveUpLink(s, a) ==
    /\ NotConnecting(s, a)
    /\ UNCHANGED <<known, good, later, banned, linked, out, in,
                   nConnection, sessConnection>>

LinkReportOk(s, a) ==
    /\ NotConnecting(s, a)
    /\ linked' = [linked EXCEPT ![a] = @ \cup {s}]
    /\ good' = [good EXCEPT ![a] = TRUE]
    /\ out' = [out EXCEPT ![a] = @ + 1]
    /\ later' = [later EXCEPT ![a] = TRUE]
    /\ nConnection' = nConnection + 1
    /\ sessConnection' = [sessConnection EXCEPT ![s] = @ + 1]
    /\ UNCHANGED <<known, banned, in>>

LinkReportFail(s, a) ==
    /\ NotConnecting(s, a)
    /\ good' = [good EXCEPT ![a] = FALSE]
    /\ later' = [later EXCEPT ![a] = TRUE]
    /\ UNCHANGED <<known, banned, linked, out, in, nConnection, sessConnection>>

\* LinkOkButNoRoomClose and LinkOkButPeerClose.  m_NextTry is capped by
\* 600*1000, which is no time from now but ten minutes after the machine
\* started, and so may be over already.
LinkOkButClose(s, a) ==
    /\ NotConnecting(s, a)
    /\ good' = [good EXCEPT ![a] = TRUE]
    /\ \E w \in BOOLEAN : later' = [later EXCEPT ![a] = w]
    /\ UNCHANGED <<known, banned, linked, out, in, nConnection, sessConnection>>

\* What a reason to close does to m_NextTry and m_BanedTime.  CR_NETERR of a
\* launched peer sets m_NextTry to 15*1000, without the present time.
Penalties(launched) == {"wait", "ban"} \cup (IF launched THEN {"none"} ELSE {})

\* Mutant: the record of the session is cleared for an accepted peer as well.
CloseForgets(s, a, launched) ==
    /\ \E p \in Penalties(launched) :
         /\ later' = IF p = "ban" THEN later ELSE [later EXCEPT ![a] = (p = "wait")]
         /\ banned' = IF p = "ban" THEN [banned EXCEPT ![a] = TRUE] ELSE banned
    /\ linked' = [linked EXCEPT ![a] = @ \ {s}]
    /\ IF launched
         THEN out' = [out EXCEPT ![a] = @ - 1] /\ in' = in
         ELSE in' = [in EXCEPT ![a] = @ - 1] /\ out' = out
    /\ nConnection' = nConnection - 1
    /\ sessConnection' = [sessConnection EXCEPT ![s] = @ - 1]
    /\ UNCHANGED <<known, good, linking, nConnecting, sessConnecting>>

CloseReport(s, a, launched) ==
    /\ \E p \in Penalties(launched) :
         /\ later' = IF p = "ban" THEN later ELSE [later EXCEPT ![a] = (p = "wait")]
         /\ banned' = IF p = "ban" THEN [banned EXCEPT ![a] = TRUE] ELSE banned
    /\ IF launched
         THEN /\ out' = [out EXCEPT ![a] = @ - 1]
              /\ linked' = [linked EXCEPT ![a] = @ \ {s}]
              /\ in' = in
         ELSE /\ in' = [in EXCEPT ![a] = @ - 1]
              /\ UNCHANGED <<out, linked>>
    /\ nConnection' = nConnection - 1
    /\ sessConnection' = [sessConnection EXCEPT ![s] = @ - 1]
    /\ UNCHANGED <<known, good, linking, nConnecting, sessConnecting>>

\* TPeerDetail::TryAccept
MayAccept(a) == in[a] <= 2 /\ out[a] + in[a] <= 2 /\ ~banned[a]

\* m_NextTry is set if the peer could not be connected twice.
TryAcceptPeerLink(s, a) ==
    /\ in' = [in EXCEPT ![a] = @ + 1]
    /\ \E w \in {FALSE, ~good[a]} : later' = [later EXCEPT ![a] = @ \/ w]
    /\ nConnection' = nConnection + 1
    /\ sessConnection' = [sessConnection EXCEPT ![s] = @ + 1]
    /\ UNCHANGED <<known, good, banned, linking, linked, out, nConnecting, sessConnecting>>

CheckAccept(a) == ~banned[a] /\ out[a] + in[a] <= 2

\* A tracker, the DHT or a peer tells of an address, or of a new port of it.
AddAvialablePeerInfo(a) ==
    /\ known' = [known EXCEPT ![a] = TRUE]
    /\ good' = [good EXCEPT ![a] = FALSE]
    /\ later' = [later EXCEPT ![a] = FALSE]
    /\ UNCHANGED <<banned, linking, linked, out, in, counters, lists, peers,
                   finish, pc, loops, listener, lost>>

\* Time passes.
NextTryOver(a) ==
    /\ later[a]
    /\ later' = [later EXCEPT ![a] = FALSE]
    /\ UNCHANGED <<known, good, banned, linking, linked, out, in, counters, lists,
                   peers, finish, pc, loops, listener, lost>>

BanOver(a) ==
    /\ banned[a]
    /\ banned' = [banned EXCEPT ![a] = FALSE]
    /\ UNCHANGED <<known, good, later, linking, linked, out, in, counters, lists,
                   peers, finish, pc, loops, listener, lost>>

\* CPeerCenter::DownloadFinish, by whichever thread finished the download.
CenterFinish ==
    /\ later' = [a \in Addrs |-> FALSE]
    /\ banned' = [a \in Addrs |-> FALSE]
    /\ UNCHANGED <<known, good, linking, linked, out, in, counters, lists, peers,
                   finish, pc, loops, listener, lost>>

\* CPeerAdmin::DownloadFinish, by whichever thread found the download finished
\* or, after the priorities changed, unfinished.
SetFinish(s, f) ==
    /\ finish' = [finish EXCEPT ![s] = f]
    /\ UNCHANGED <<details, counters, lists, peers, pc, loops, listener, lost>>

-----------------------------------------------------------------------------
(* The sockets of the peers of session s; its thread runs their callbacks  *)
(* between the rounds.                                                     *)

\* The connection is made, fails, or is made and closed at once.
Outcome(s, l) ==
    /\ pc[s] = "idle"
    /\ l \in connecting[s]
    /\ state[l] = "linking"
    /\ \E x \in {"open", "failed", "closed"} : state' = [state EXCEPT ![l] = x]
    /\ UNCHANGED <<details, counters, lists, addr, mine, finish, pc, loops, listener, lost>>

PeerCloses(s, l) ==
    /\ pc[s] = "idle"
    /\ l \in connecting[s] \cup connected[s]
    /\ state[l] = "open"
    /\ state' = [state EXCEPT ![l] = "closed"]
    /\ UNCHANGED <<details, counters, lists, addr, mine, finish, pc, loops, listener, lost>>

-----------------------------------------------------------------------------
(* One round of CheckPeerConnection, by the thread of session s.           *)

\* The listener holds m_ConnectedPeerListMutex of s.
Held(s) == holds /\ SessionList[offerAt] = s

Round(s) ==
    /\ pc[s] = "idle"
    /\ up' = [up EXCEPT ![s] = finish[s]]
    /\ Goto(s, "move")
    /\ UNCHANGED <<details, counters, lists, peers, finish, hand, quota, tries, moving,
                   listener, lost>>

\* CheckConnectedConnecting.  m_ConnectedPeerList.size() is read without its lock.
Ready(s) == {l \in connecting[s] : state[l] = "open"}
HasRoom(s) == Cardinality(connected[s]) < LinkMax

MoveNone(s) ==
    /\ pc[s] = "move"
    /\ Ready(s) = {}
    /\ Goto(s, "reap")
    /\ UNCHANGED <<details, counters, lists, peers, finish, loops, listener, lost>>

Move(s, l) ==
    /\ pc[s] = "move"
    /\ l \in Ready(s)
    /\ HasRoom(s)
    /\ moving' = [moving EXCEPT ![s] = l]
    /\ Goto(s, "push")
    /\ UNCHANGED <<details, counters, lists, peers, finish, up, hand, quota, tries,
                   listener, lost>>

Push(s) ==
    /\ pc[s] = "push"
    /\ ~Held(s)
    /\ connected' = [connected EXCEPT ![s] = @ \cup {moving[s]}]
    /\ Goto(s, "report")
    /\ UNCHANGED <<details, counters, connecting, peers, finish, loops, listener, lost>>

Report(s) ==
    /\ pc[s] = "report"
    /\ LinkReportOk(s, addr[moving[s]])
    /\ connecting' = [connecting EXCEPT ![s] = @ \ {moving[s]}]
    /\ moving' = [moving EXCEPT ![s] = NoLink]
    /\ Goto(s, "move")
    /\ UNCHANGED <<connected, peers, finish, up, hand, quota, tries, listener, lost>>

\* Mutant: the peers that just connected are left in the list.
MoveFullKeeps(s) ==
    /\ pc[s] = "move"
    /\ Ready(s) # {}
    /\ ~HasRoom(s)
    /\ ~Held(s)
    /\ \E S \in {{}} \cup {{l} : l \in connected[s]} :
         state' = [l \in Links |-> IF l \in S THEN "closed" ELSE state[l]]
    /\ Goto(s, "reap")
    /\ UNCHANGED <<details, counters, lists, addr, mine, finish, loops, listener, lost>>

\* No room: at most one connected peer is closed to make some, and all the
\* peers that just connected are closed too (CR_NOROOM).
MoveFull(s) ==
    /\ pc[s] = "move"
    /\ Ready(s) # {}
    /\ ~HasRoom(s)
    /\ ~Held(s)
    /\ \E S \in {{}} \cup {{l} : l \in connected[s]} :
         state' = [l \in Links |-> IF l \in Ready(s) \cup S THEN "closed" ELSE state[l]]
    /\ Goto(s, "reap")
    /\ UNCHANGED <<details, counters, lists, addr, mine, finish, loops, listener, lost>>

\* CheckClosedConnecting
Reap(s, l) ==
    /\ pc[s] = "reap"
    /\ l \in connecting[s]
    /\ \/ state[l] = "failed" /\ LinkReportFail(s, addr[l])
       \/ state[l] = "closed" /\ LinkOkButClose(s, addr[l])
    /\ connecting' = [connecting EXCEPT ![s] = @ \ {l}]
    /\ Delete(l)
    /\ UNCHANGED <<connected, finish, pc, loops, listener, lost>>

Reaped(s) == \A l \in connecting[s] : state[l] \notin {"failed", "closed"}

\* On to LaunchNewConnectionWhenNotFinish, which may launch three links even
\* where it has no room for them, or to CheckClosedConnection.
EndReap(s) ==
    /\ pc[s] = "reap"
    /\ Reaped(s)
    /\ IF up[s]
         THEN /\ ~Held(s)
              /\ Goto(s, "sweep")
              /\ UNCHANGED <<quota, tries>>
         ELSE /\ LET empty == LinkMax - Cardinality(connected[s])
                 IN quota' = [quota EXCEPT ![s] = IF empty <= 0 THEN 3 ELSE empty + 3]
              /\ tries' = [tries EXCEPT ![s] = 0]
              /\ Goto(s, "good")
    /\ UNCHANGED <<details, counters, lists, peers, finish, up, hand, moving, listener, lost>>

\* CheckClosedConnection, all of it behind m_ConnectedPeerListMutex.
Sweep(s, l) ==
    /\ pc[s] = "sweep"
    /\ l \in connected[s]
    /\ state[l] = "closed"
    /\ CloseReport(s, addr[l], mine[l])
    /\ connected' = [connected EXCEPT ![s] = @ \ {l}]
    /\ Delete(l)
    /\ UNCHANGED <<connecting, finish, pc, loops, listener, lost>>

EndSweep(s) ==
    /\ pc[s] = "sweep"
    /\ \A l \in connected[s] : state[l] # "closed"
    /\ IF up[s]
         THEN /\ quota' = [quota EXCEPT ![s] = UploadLinkMax - Cardinality(connected[s])]
              /\ tries' = [tries EXCEPT ![s] = 0]
              /\ Goto(s, "any")
         ELSE /\ Goto(s, "idle")
              /\ UNCHANGED <<quota, tries>>
    /\ UNCHANGED <<details, counters, lists, peers, finish, up, hand, moving, listener, lost>>

\* CloseTimeoutConnection, when the download is not finished.
Expire(s) ==
    /\ pc[s] = "expire"
    /\ ~Held(s)
    /\ \E S \in SUBSET {l \in connected[s] : state[l] = "open"} :
         state' = [l \in Links |-> IF l \in S THEN "closed" ELSE state[l]]
    /\ Goto(s, "sweep")
    /\ UNCHANGED <<details, counters, lists, addr, mine, finish, loops, listener, lost>>

-----------------------------------------------------------------------------
(* The launch loops, by the thread of session s.  While the download goes  *)
(* on, the peers known to accept links come first ("good"), then any; when *)
(* it is finished any peer comes first, and then up to two good ones.      *)

\* The condition of the loops, with the --c of the ones of an uploader.
MayPick(s) == hand[s] = NoAddr /\ (up[s] => quota[s] > 0)

Pick(s, a) ==
    /\ pc[s] \in {"good", "any"}
    /\ MayPick(s)
    /\ a \in Linkable(s, pc[s] = "good")
    /\ GetPeerInfoToLink(s, a)
    /\ hand' = [hand EXCEPT ![s] = a]
    /\ quota' = [quota EXCEPT ![s] = @ - 1]
    /\ tries' = IF up[s] /\ pc[s] = "good" THEN [tries EXCEPT ![s] = @ + 1] ELSE tries
    /\ UNCHANGED <<known, good, later, banned, linked, out, in, nConnection,
                   sessConnection, lists, peers, finish, pc, up, moving, listener, lost>>

\* The locals end with their function.
EndLaunch(s) ==
    /\ quota' = [quota EXCEPT ![s] = 0]
    /\ tries' = [tries EXCEPT ![s] = 0]
    /\ up' = [up EXCEPT ![s] = FALSE]
    /\ Goto(s, IF up[s] THEN "idle" ELSE "expire")

\* GetPeerInfoToLink has nobody, or no more links are wanted.
PickNone(s) ==
    /\ pc[s] \in {"good", "any"}
    /\ hand[s] = NoAddr
    /\ MayPick(s) => Linkable(s, pc[s] = "good") = {}
    /\ IF up[s] /\ pc[s] = "any"
         THEN /\ quota' = [quota EXCEPT ![s] = @ - 1]
              /\ Goto(s, "good")
              /\ UNCHANGED <<up, tries>>
         ELSE IF ~up[s] /\ pc[s] = "good" /\ quota[s] > 0
                THEN Goto(s, "any") /\ UNCHANGED <<up, quota, tries>>
                ELSE EndLaunch(s)
    /\ UNCHANGED <<details, counters, lists, peers, finish, hand, moving, listener, lost>>

TooMany(s) == IF up[s] THEN tries[s] > 2 ELSE quota[s] < 0

PutDown(s) == hand' = [hand EXCEPT ![s] = NoAddr]

TakeTooMany(s) ==
    /\ hand[s] # NoAddr
    /\ TooMany(s)
    /\ GiveUpLink(s, hand[s])
    /\ PutDown(s)
    /\ EndLaunch(s)
    /\ UNCHANGED <<lists, peers, finish, moving, listener, lost>>

TakeLink(s, l) ==
    /\ hand[s] # NoAddr
    /\ ~TooMany(s)
    /\ state[l] = "none"
    /\ Create(l, hand[s], TRUE)
    /\ state' = [state EXCEPT ![l] = "linking"]
    /\ connecting' = [connecting EXCEPT ![s] = @ \cup {l}]
    /\ PutDown(s)
    /\ UNCHANGED <<details, counters, connected, finish, pc, up, quota, tries, moving,
                   listener, lost>>

\* CreateSock fails.  An uploader deletes the peer and says nothing.
TakeFail(s) ==
    /\ hand[s] # NoAddr
    /\ ~TooMany(s)
    /\ IF up[s]
         THEN /\ lost' = [lost EXCEPT ![s] = @ + 1]
              /\ UNCHANGED <<details, counters>>
         ELSE /\ GiveUpLink(s, hand[s])
              /\ lost' = lost
    /\ PutDown(s)
    /\ UNCHANGED <<lists, peers, finish, pc, up, quota, tries, moving, listener>>

-----------------------------------------------------------------------------
(* The listener thread: a peer that connected to us told the hash of this  *)
(* download (CBTStorage::TransferPeer).                                    *)

GotHash(l, a) ==
    /\ offer = NoLink
    /\ state[l] = "none"
    /\ CheckAccept(a)
    /\ Create(l, a, FALSE)
    /\ state' = [state EXCEPT ![l] = "open"]
    /\ offer' = l
    /\ offerAt' = 1
    /\ UNCHANGED <<details, counters, lists, finish, pc, loops, holds, lost>>

Asked == SessionList[offerAt]

\* Of an uploader three times UploadLinkMax may be connected.
AcceptsMore(s) ==
    Cardinality(connected[s]) < IF finish[s] THEN 3 * UploadLinkMax ELSE LinkMax

\* CPeerAdmin::TransferPeer takes m_ConnectedPeerListMutex, then looks at the
\* length of the list and at the number of connections.
TransferBegin ==
    /\ offer # NoLink
    /\ ~holds
    /\ pc[Asked] # "sweep"
    /\ AcceptsMore(Asked)
    /\ nConnection < ConnectionLimit
    /\ holds' = TRUE
    /\ UNCHANGED <<details, counters, lists, peers, finish, pc, loops, offer, offerAt, lost>>

TransferOk ==
    /\ holds
    /\ MayAccept(addr[offer])
    /\ TryAcceptPeerLink(Asked, addr[offer])
    /\ connected' = [connected EXCEPT ![Asked] = @ \cup {offer}]
    /\ holds' = FALSE
    /\ offer' = NoLink
    /\ offerAt' = 1
    /\ UNCHANGED <<connecting, peers, finish, pc, loops, lost>>

TransferRefused ==
    /\ offer # NoLink
    /\ IF holds
         THEN ~MayAccept(addr[offer])
         ELSE /\ pc[Asked] # "sweep"
              /\ ~AcceptsMore(Asked) \/ nConnection >= ConnectionLimit
    /\ holds' = FALSE
    /\ IF offerAt < Len(SessionList)
         THEN /\ offerAt' = offerAt + 1
              /\ UNCHANGED <<offer, peers>>
         ELSE /\ offer' = NoLink
              /\ offerAt' = 1
              /\ Delete(offer)
    /\ UNCHANGED <<details, counters, lists, finish, pc, loops, lost>>

-----------------------------------------------------------------------------
SessionStep(s) ==
    \/ Round(s)
    \/ MoveNone(s)
    \/ \E l \in Links : Move(s, l)
    \/ Push(s)
    \/ Report(s)
    \/ MoveFull(s)
    \/ \E l \in Links : Reap(s, l)
    \/ EndReap(s)
    \/ \E l \in Links : Sweep(s, l)
    \/ EndSweep(s)
    \/ Expire(s)
    \/ \E a \in Addrs : Pick(s, a)
    \/ PickNone(s)
    \/ TakeTooMany(s)
    \/ \E l \in Links : TakeLink(s, l)
    \/ TakeFail(s)

SocketStep(s) == \E l \in Links : Outcome(s, l) \/ PeerCloses(s, l)

TransferStep == TransferBegin \/ TransferOk \/ TransferRefused

ListenerStep ==
    \/ \E l \in Links, a \in Addrs : GotHash(l, a)
    \/ TransferStep

OutsideStep ==
    \/ \E a \in Addrs : AddAvialablePeerInfo(a) \/ NextTryOver(a) \/ BanOver(a)
    \/ CenterFinish
    \/ \E s \in Sessions, f \in Phases : SetFinish(s, f)

Next ==
    \/ \E s \in Sessions : SessionStep(s) \/ SocketStep(s)
    \/ ListenerStep
    \/ OutsideStep

Spec == Init /\ [][Next]_vars

\* The threads run, and an attempt to connect ends: Connect starts a timer,
\* and the dealer of the thread serves the sockets and the timers in turn, so a
\* round cannot put off the end of an attempt for ever.
Fairness ==
    /\ \A s \in Sessions : WF_vars(SessionStep(s))
    /\ \A s \in Sessions, l \in Links : SF_vars(Outcome(s, l))
    /\ WF_vars(TransferStep)

FairSpec == Spec /\ Fairness

-----------------------------------------------------------------------------
(* Properties.                                                             *)

\* The attempts to link that session s has under way, and those it lost.
Underway(s) == Cardinality(connecting[s]) + (IF hand[s] # NoAddr THEN 1 ELSE 0) + lost[s]

\* The connected peers of session s whose link CPeerCenter has been told of.
Reported(s) == IF pc[s] = "report" THEN connected[s] \ {moving[s]} ELSE connected[s]
Told == [s \in Sessions |-> Reported(s)]

\* The members of the sets that f gives the sessions: what the download has.
AllOf(f) == UNION {f[s] : s \in Sessions}

\* The sessions with an address in their hands, and the attempts lost by each.
Hands == {s \in Sessions : hand[s] # NoAddr}
LostAttempts == AllOf([s \in Sessions |-> {s} \X (1 .. lost[s])])

\* Every attempt is counted once and given back once, whatever comes of it and
\* whatever order the threads report in; only an uploader loses some
\* (GetPeerInfoToLink, GiveUpLink, LinkReport, LinkOkButNoRoomClose,
\* LinkOkButPeerClose).  So the unsigned counters never wrap around.
ConnectingExact ==
    /\ \A s \in Sessions : sessConnecting[s] = Underway(s)
    /\ nConnecting = Cardinality(AllOf(connecting)) + Cardinality(Hands)
                       + Cardinality(LostAttempts)

\* A connected peer is counted once, be it launched or accepted, and taken off
\* once (LinkReport, TryAcceptPeerLink, CloseReport).
ConnectionExact ==
    /\ \A s \in Sessions : sessConnection[s] = Cardinality(Reported(s))
    /\ nConnection = Cardinality(AllOf(Told))

LinksTo(a, launched) == {l \in AllOf(Told) : addr[l] = a /\ mine[l] = launched}

\* What CPeerCenter believes of an address is what the lists of the sessions
\* hold: how many links there are in either direction, and which sessions
\* launched theirs (TPeerDetail: m_OutLinkCount, m_InLinkCount, m_LinkRecord).
BooksMatch ==
    \A a \in Addrs :
      /\ out[a] = Cardinality(LinksTo(a, TRUE))
      /\ in[a] = Cardinality(LinksTo(a, FALSE))
      /\ linked[a] = {s \in Sessions : Reported(s) \cap LinksTo(a, TRUE) # {}}

Launched(s, a) == {l \in connecting[s] \cup connected[s] : addr[l] = a /\ mine[l]}

\* A session never has two links it launched to one address, connected or
\* still connecting, and of all the sessions at most one is connecting to it
\* (AvialableForLink).
OneLaunched ==
    \A s, t \in Sessions, a \in Addrs :
      /\ \A l, m \in Launched(s, a) : l = m
      /\ \A l \in connecting[s], m \in connecting[t] : addr[l] = addr[m] => s = t

\* The address limit: the guards of the launch (fewer than SESSIONNUM links)
\* and of the accept (at most two) are tested at different moments, so an
\* attempt under way may come on top of three links.
MostLinks == IF SessionNum < 4 THEN 4 ELSE SessionNum
AddressBound ==
    \A a \in Addrs : out[a] + in[a] + (IF linking[a] = {} THEN 0 ELSE 1) <= MostLinks

\* The inductive invariant behind OneLaunched and AddressBound.

\* A peer is in one place: one list of one session, the hands of the listener,
\* or none; only the peer in the middle of a move is in two.
Apart ==
    /\ \A s \in Sessions : \A l \in connecting[s] \cup connected[s] :
         /\ state[l] # "none"
         /\ addr[l] \in Addrs
         /\ offer # l
         /\ \A t \in Sessions : t # s => l \notin connecting[t] \cup connected[t]
    /\ \A s \in Sessions : \A l \in connecting[s] \cap connected[s] :
         pc[s] = "report" /\ moving[s] = l
    /\ \A s \in Sessions :
         /\ pc[s] \in {"push", "report"} => moving[s] \in connecting[s]
         /\ pc[s] = "report" => moving[s] \in connected[s]
    /\ holds => offer # NoLink
    /\ offer # NoLink => state[offer] # "none" /\ addr[offer] \in Addrs /\ ~mine[offer]

\* An attempt is recorded as the only one for its address.
HandOk ==
    \A s \in Sessions :
      hand[s] # NoAddr =>
        /\ pc[s] \in {"good", "any"}
        /\ linking[hand[s]] = {s}
        /\ s \notin linked[hand[s]]

ConnectingOk ==
    \A s \in Sessions : \A l \in connecting[s] :
      /\ mine[l]
      /\ linking[addr[l]] = {s}
      /\ s \notin linked[addr[l]]
      /\ hand[s] # addr[l]
      /\ \A m \in connecting[s] : addr[l] = addr[m] => l = m

\* A link that was launched and reported is recorded, once.
ConnectedOk ==
    \A s \in Sessions : \A l \in connected[s] :
      mine[l] =>
        /\ s \in linked[addr[l]] \/ (pc[s] = "report" /\ moving[s] = l)
        /\ \A m \in connected[s] : mine[m] /\ addr[l] = addr[m] => l = m

LinkInv == TypeOK /\ Apart /\ HandOk /\ ConnectingOk /\ ConnectedOk /\ AddressBound

\* CheckConnectedConnecting reads the length of the list without its lock: the
\* listener may fill the list before it pushes, but it is one too many at most.
MostConnected ==
    IF TRUE \in Phases /\ LinkMax < 3 * UploadLinkMax THEN 3 * UploadLinkMax ELSE LinkMax
ListBound == \A s \in Sessions : Cardinality(connected[s]) <= MostConnected + 1

\* What makes ListBound inductive: the listener leaves room for the peer that
\* the session is about to push, if it pushes one.
RoomLeft ==
    /\ finish \in [Sessions -> Phases]
    /\ holds => Cardinality(connected[Asked]) < MostConnected
    /\ \A s \in Sessions : pc[s] = "push" => Cardinality(connected[s]) <= MostConnected

\* BooksExact: the counters, the records of the addresses and the lists of the
\* sessions tell the same story in every state, though three threads change
\* them under different locks, and no list outgrows its limit by more than one.
BooksExact ==
    TypeOK /\ ConnectingExact /\ ConnectionExact /\ BooksMatch /\ ListBound

\* An attempt to link comes to an end, and leaves the list of connecting peers:
\* it fails, it moves to the connected peers, or it is closed for want of room.
AttemptsEnd ==
    \A s \in Sessions, l \in Links : []<>(l \notin connecting[s])

=============================================================================
