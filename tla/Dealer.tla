------------------------------- MODULE Dealer -------------------------------
(***************************************************************************)
(* The loop every thread of the program runs (SockDealer.cpp,              *)
(* TimerDealer.cpp) and the TCP socket it drives (Sock.cpp,                *)
(* TCPClientSock.h): select over the registered sockets, OnRead for the    *)
(* readable ones, OnWrite for the writable ones, OnTimer for the timers    *)
(* that are due.  A handler may close its socket, connect it again or open *)
(* another one, and a timer of the owner may close any; the lists are only *)
(* marked meanwhile and cleaned before they are gone through again.        *)
(* The listener hands its sockets over from its own thread, and no lock    *)
(* guards the waiting list against that (SockDealer.cpp:42, 54 and 202).   *)
(***************************************************************************)
EXTENDS Naturals, Sequences, SequencesExt, FiniteSets, Lists

CONSTANTS
    Socks,
    Marked,           \* a marked entry
    Owner,          \* the client of a periodic timer, no socket
    MaxTimers       \* bound: connections started, and so their timers

DealerAssumption ==
    /\ IsFiniteSet(Socks) /\ Marked \notin Socks /\ Owner \notin Socks \cup {Marked}
    /\ MaxTimers \in Nat

Handles == 1..Cardinality(Socks)

VARIABLES
    sock,           \* socket -> its fields; handle 0 for -1, timer is m_nConnectTimeOut
    sockList, sockPending,  \* m_SocketList and m_PendingList of the sockets
    timers, fresh,  \* m_TimerList and m_PendingList of the timers
    counter,        \* m_nTimerCounter
    astray,         \* sockets that were to be added and that no list holds
    torn,           \* two threads met in m_PendingList: what is appended is not found
    phase,          \* where Dispatch is
    ready,          \* handles select found: readable and writable ones
    batch,          \* templist, or the timers still to be looked at
    open            \* handles whose connection stands

lists == <<sockList, sockPending, timers, fresh, counter, astray, torn>>
dealerVars == <<sock, lists, phase, ready, batch, open>>

Sock == [handle : Handles \cup {0}, here : BOOLEAN, read : BOOLEAN, write : BOOLEAN,
         timer : 0..MaxTimers, told : {"nothing", "ok", "fail"}]

---------------------------------------------------------------------------
(* The lists.  A state of socket and lists is a record, so that a handler  *)
(* can make several calls.                                                 *)

World == [sock |-> sock, sockList |-> sockList, sockPending |-> sockPending,
          timers |-> timers, fresh |-> fresh, counter |-> counter,
          astray |-> astray, torn |-> torn]

Becomes(w) ==
    /\ sock' = w.sock /\ sockList' = w.sockList /\ sockPending' = w.sockPending
    /\ timers' = w.timers /\ fresh' = w.fresh /\ counter' = w.counter
    /\ astray' = w.astray /\ torn' = w.torn
    /\ open' = open \cap {w.sock[s].handle : s \in Socks}

GoesAstray(w, S) == [w EXCEPT !.astray = @ \cup S]

AddSockClient(w, s) ==
    IF w.torn THEN GoesAstray(w, {s})
    ELSE [w EXCEPT !.sockPending = Append(@, s), !.astray = @ \ {s}]

\* An entry of the list is marked, a waiting one is removed.
RemoveSockClient(w, s) ==
    IF s \in ToSet(w.sockList)
    THEN [w EXCEPT !.sockList = [i \in DOMAIN @ |-> IF @[i] = s THEN Marked ELSE @[i]]]
    ELSE [w EXCEPT !.sockPending = Without(@, {s})]

StartTimer(w, s) ==
    [w EXCEPT !.counter = @ + 1,
              !.fresh = Append(@, [id |-> w.counter + 1, client |-> s])]

Numbered(ts, id) == {t \in ToSet(ts) : t.id = id}
Claimed(ts, s) == {t \in ToSet(ts) : t.client = s}

\* Timers of S are marked.
Unclaimed(ts, S) ==
    [i \in DOMAIN ts |-> IF ts[i] \in S THEN [ts[i] EXCEPT !.client = Marked] ELSE ts[i]]

\* Mutant: a timer that waits in the other list goes on.
RemoveTimerListed(w, id) == [w EXCEPT !.timers = Unclaimed(@, Numbered(@, id))]

RemoveTimer(w, id) ==
    [w EXCEPT !.timers = Unclaimed(@, Numbered(@, id)),
              !.fresh = Without(@, Numbered(@, id))]

RemoveTimerClient(w, s) ==
    [w EXCEPT !.timers = Unclaimed(@, Claimed(@, s)),
              !.fresh = Without(@, Claimed(@, s))]

---------------------------------------------------------------------------
(* The socket.                                                             *)

Shut(x) == [x EXCEPT !.handle = 0, !.read = FALSE, !.write = FALSE]

CloseSock(w, s) ==
    LET shut == [w EXCEPT !.sock[s] = Shut(@)]
    IN  RemoveTimerClient(RemoveSockClient(shut, s), s)

\* The lowest handle that is free, as POSIX has it.
FreeHandle(w) ==
    CHOOSE h \in Handles : /\ \A s \in Socks : w.sock[s].handle # h
                           /\ \A g \in 1..h-1 : \E s \in Socks : w.sock[s].handle = g

CreateSock(w, s) ==
    AddSockClient([w EXCEPT !.sock[s] = [Shut(@) EXCEPT !.handle = FreeHandle(w),
                                                        !.here = TRUE]], s)

\* The time-out of the connection is a one-shot timer.
Connect(w, s) ==
    LET asked == [w EXCEPT !.sock[s] = [@ EXCEPT !.write = TRUE, !.read = FALSE,
                                            !.timer = w.counter + 1, !.told = "nothing"]]
    IN  StartTimer(asked, s)

MayConnect(w, s) == w.sock[s].handle = 0 /\ w.counter < MaxTimers

\* SetDealer(NULL): the socket goes to another thread's dealer, open as it is.
SetNoDealer(w, s) ==
    RemoveTimerClient(RemoveSockClient([w EXCEPT !.sock[s].here = FALSE], s), s)

\* What a handler may do with its own socket: go on, close it, connect it anew,
\* hand it on, or open another.
Handled(w, s) ==
    {w, CloseSock(w, s), SetNoDealer(w, s)}
    \cup (IF w.counter < MaxTimers
          THEN {Connect(CreateSock(CloseSock(w, s), s), s)} ELSE {})
    \cup {Connect(CreateSock(w, t), t) : t \in {u \in Socks : MayConnect(w, u)}}

\* Connected: from now on the socket reads, and writes when it has something.
ConnectOk(x) == [x EXCEPT !.told = "ok", !.read = TRUE, !.write = FALSE]

\* The first OnWrite ends the attempt.
OnWrite(w, s) ==
    IF w.sock[s].timer # 0
    THEN {[RemoveTimer(w, w.sock[s].timer) EXCEPT !.sock[s] = ConnectOk([@ EXCEPT !.timer = 0])]}
    ELSE {[w EXCEPT !.sock[s].write = FALSE], CloseSock(w, s)}

\* The socket's own timer: the attempt is over.
OnConnectTimer(w, s) ==
    [CloseSock(w, s) EXCEPT !.sock[s] = [@ EXCEPT !.timer = 0, !.told = "fail"]]

---------------------------------------------------------------------------
(* DispatchEvent.                                                          *)

Cleaned == Without(sockList, {Marked}) \o sockPending

Readers == {s \in ToSet(Cleaned) : sock[s].read}
Writers == {s \in ToSet(Cleaned) : sock[s].write}

Masked(S) == {sock[s].handle : s \in S}

\* Those of S whose handle is among the handles found, in the list's order.
Among(found, S) == Without(Cleaned, {s \in Socks : s \notin S \/ sock[s].handle \notin found})

\* The waiting list is empty again, and whole, unless a push is still writing.
CleanClient ==
    /\ sockList' = Cleaned /\ sockPending' = <<>>
    /\ torn' \in {torn, FALSE}
    /\ UNCHANGED <<sock, timers, fresh, counter, astray, open>>

\* CleanClient, select and the first batch.  A connecting socket is writable once
\* its connection stands, an open one when its peer takes data.
Select ==
    /\ phase = "event"
    /\ CleanClient
    /\ \E r \in SUBSET (Masked(Readers) \cap open), w \in SUBSET (Masked(Writers) \cap open) :
            /\ ready' = [r |-> r, w |-> w]
            /\ batch' = Among(r, Readers)
            /\ phase' = IF r = {} /\ w = {} THEN "timer" ELSE "read"

Read ==
    /\ phase = "read" /\ batch # <<>>
    /\ \E w \in Handled(World, Head(batch)) : Becomes(w)
    /\ batch' = Tail(batch)
    /\ UNCHANGED <<phase, ready>>

\* CleanClient again, and the second batch, from the handles found before.
ReadDone ==
    /\ phase = "read" /\ batch = <<>>
    /\ CleanClient
    /\ batch' = Among(ready.w, Writers)
    /\ phase' = "write"
    /\ UNCHANGED ready

Write ==
    /\ phase = "write" /\ batch # <<>>
    /\ \E w \in OnWrite(World, Head(batch)) : Becomes(w)
    /\ batch' = Tail(batch)
    /\ UNCHANGED <<phase, ready>>

WriteDone ==
    /\ phase = "write" /\ batch = <<>>
    /\ phase' = "timer"
    /\ UNCHANGED <<sock, lists, ready, batch, open>>

---------------------------------------------------------------------------
(* DispatchTimer.                                                          *)

\* Mutant: the waiting timers are cleared before they are taken over.
FreshLost == Without(timers, Claimed(timers, Marked))

Current == Without(timers, Claimed(timers, Marked)) \o fresh

CleanTimers ==
    /\ phase = "timer"
    /\ timers' = Current /\ fresh' = <<>>
    /\ batch' = [i \in DOMAIN Current |-> Current[i].id]
    /\ phase' = "fire"
    /\ UNCHANGED <<sock, sockList, sockPending, counter, astray, torn, ready, open>>

Looked == CHOOSE t \in ToSet(timers) : t.id = Head(batch)

\* Not due, or its client went meanwhile.
SkipTimer ==
    /\ phase = "fire" /\ batch # <<>>
    /\ batch' = Tail(batch)
    /\ UNCHANGED <<sock, lists, phase, ready, open>>

\* The timer of a connection, erased once it has fired.
Fire ==
    /\ phase = "fire" /\ batch # <<>> /\ Looked.client \in Socks
    /\ LET w == OnConnectTimer(World, Looked.client)
       IN  Becomes([w EXCEPT !.timers = Without(@, Numbered(@, Head(batch)))])
    /\ batch' = Tail(batch)
    /\ UNCHANGED <<phase, ready>>

\* The owner's timer: it closes a socket, or opens one.
OwnerTimer ==
    /\ phase = "fire" /\ batch # <<>> /\ Looked.client = Owner
    /\ \E s \in Socks :
        \/ sock[s].handle # 0 /\ sock[s].here /\ Becomes(CloseSock(World, s))
        \/ MayConnect(World, s) /\ Becomes(Connect(CreateSock(World, s), s))
    /\ batch' = Tail(batch)
    /\ UNCHANGED <<phase, ready>>

FireDone ==
    /\ phase = "fire" /\ batch = <<>>
    /\ phase' = "event"
    /\ UNCHANGED <<sock, lists, ready, batch, open>>

---------------------------------------------------------------------------
(* Others.                                                                 *)

\* The network: a connection stands, or was refused, which select shows alike.
Establish(h) ==
    /\ \E s \in Socks : sock[s].handle = h
    /\ open' = open \cup {h}
    /\ UNCHANGED <<sock, lists, phase, ready, batch>>

\* A push of another thread that met a push, a removal or the cleaning of this
\* one: it may be lost, or take some of those that wait with it.
Met(w, s) ==
    {GoesAstray(w, {s})} \cup
    IF w.torn THEN {}
    ELSE {GoesAstray(AddSockClient([w EXCEPT !.sockPending = Without(@, T)], s), T) :
              T \in SUBSET ToSet(w.sockPending)}

\* Another thread hands over a connected socket (SetDealer), at any time and
\* without a lock; the list may be torn from then on.
SetDealer(s) ==
    /\ sock[s].handle # 0 /\ ~sock[s].here /\ sock[s].handle \in open
    /\ \E u \in Met([World EXCEPT !.sock[s].here = TRUE], s), t \in {torn, TRUE} :
            Becomes([u EXCEPT !.torn = t])
    /\ UNCHANGED <<phase, ready, batch>>

\* A socket that was handed on is closed by the other thread.
CloseElsewhere(s) ==
    /\ sock[s].handle # 0 /\ ~sock[s].here
    /\ Becomes([World EXCEPT !.sock[s] = Shut(@)])
    /\ UNCHANGED <<phase, ready, batch>>

---------------------------------------------------------------------------
DealerInit ==
    /\ sock = [s \in Socks |-> [handle |-> 0, here |-> TRUE, read |-> FALSE,
                                write |-> FALSE, timer |-> 0, told |-> "nothing"]]
    /\ sockList = <<>> /\ sockPending = <<>> /\ fresh = <<>> /\ counter = 0
    /\ astray = {} /\ torn = FALSE
    /\ timers = <<[id |-> 0, client |-> Owner]>>
    /\ phase = "event" /\ ready = [r |-> {}, w |-> {}] /\ batch = <<>> /\ open = {}

Dispatch ==
    \/ Select \/ Read \/ ReadDone \/ Write \/ WriteDone
    \/ CleanTimers \/ SkipTimer \/ Fire \/ OwnerTimer \/ FireDone

DealerNext ==
    \/ Dispatch
    \/ \E h \in Handles : Establish(h)
    \/ \E s \in Socks : SetDealer(s) \/ CloseElsewhere(s)

\* The thread goes round, and a timer that is looked at again and again comes due.
DealerFairness ==
    /\ WF_dealerVars(Dispatch)
    /\ \A s \in Socks : SF_dealerVars(Fire /\ Looked.client = s)

DealerSpec == DealerInit /\ [][DealerNext]_dealerVars
DealerFairSpec == DealerSpec /\ DealerFairness

---------------------------------------------------------------------------
(* Properties.                                                             *)

DealerTypeOK ==
    /\ sock \in [Socks -> Sock]
    /\ phase \in {"event", "read", "write", "timer", "fire"}
    /\ ToSet(sockList) \subseteq Socks \cup {Marked} /\ ToSet(sockPending) \subseteq Socks
    /\ open \subseteq Handles /\ counter \in 0..MaxTimers
    /\ astray \subseteq Socks /\ torn \in BOOLEAN

Times(seq, s) == Cardinality({i \in DOMAIN seq : seq[i] = s})

\* An open socket stands in the lists of its dealer once, unless it went astray
\* when two threads met there; a closed one or one that was handed on does not: it
\* is called at most once a round, and never after its Close, whatever was only
\* marked, still waited to be added or was lost (SockDealer.cpp:42, 51 and 196).
Registered ==
    \A s \in Socks :
        Times(sockList, s) + Times(sockPending, s) =
            IF sock[s].handle # 0 /\ sock[s].here /\ s \notin astray THEN 1 ELSE 0

\* The socket whose handler is called next is open.
NoDeadCall ==
    phase \in {"read", "write"} /\ batch # <<>> => sock[Head(batch)].handle # 0

\* A live timer of a socket is the time-out of its present attempt, so an attempt
\* is not failed after it was reported as a success, nor by the timer of an
\* earlier one (TCPClientSock.h:83 and 94, TimerDealer.cpp:58).
TimersFounded ==
    \A t \in ToSet(timers) \cup ToSet(fresh) :
        t.client \in Socks => sock[t.client].timer = t.id /\ sock[t.client].handle # 0

\* The sockets, the lists and the timers a call of the program or of the loops
\* leaves behind (SockDealer.cpp, TimerDealer.cpp, TCPClientSock.cpp).
DealerInv == DealerTypeOK /\ Registered /\ NoDeadCall /\ TimersFounded

\* Every attempt to connect ends: with a report, or because the socket was closed.
AttemptsReported ==
    \A s \in Socks : []<>(sock[s].told # "nothing" \/ sock[s].handle = 0 \/ ~sock[s].here)
=============================================================================
