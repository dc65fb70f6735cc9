------------------------------- MODULE Trackers -------------------------------
(***************************************************************************)
(* The trackers of a download (TrackerCenter.cpp, TCPTracker.cpp,          *)
(* UDPTracker.cpp).  One thread starts them and then runs all their        *)
(* handlers (CTrackerCenter::Entry), so a handler is one step.             *)
(*                                                                         *)
(* An HTTP tracker needs one of the Limit connecting handles before it     *)
(* connects, and has at most one timer: SetNextUpdate, Connect and         *)
(* OnConnectOk each arm one after removing the others.  A UDP tracker      *)
(* keeps the number of the timer it minds in m_TimerId; timers it forgets  *)
(* to remove keep firing and are ignored.                                  *)
(*                                                                         *)
(* Left out: times and back-off (any timer may fire), the contents of the  *)
(* answers, the event parameter, the user's Stop.                          *)
(***************************************************************************)
EXTENDS Naturals, FiniteSets

CONSTANTS
    HttpTrackers,   \* the announce URLs that begin with http
    UdpTrackers,    \* those that begin with udp, and the built-in one
    Limit,          \* _TCP_TRACKER_CONNECTING_LIMIT
    MaxFails        \* bound: the failures of a UDP tracker that are followed

ASSUME TrackersAssumption ==
    /\ IsFiniteSet(HttpTrackers)
    /\ HttpTrackers \cap UdpTrackers = {}
    /\ Limit \in Nat \ {0}
    /\ MaxFails \in Nat

VARIABLES
    starting,         \* the trackers Entry has not started yet
    connectingCount,  \* m_ConnectingCount
    status,           \* HTTP: m_Status
    timer,            \* HTTP: what its timer is for; "off": bad URL; "none": no timer
    state,            \* UDP: m_State
    asked,            \* UDP: the packet sent with the present m_nTransID
    hasId,            \* UDP: m_connectionID was received
    minds,            \* UDP: the kind of the timer m_TimerId names, or "none"
    stale,            \* UDP: repeating timers that m_TimerId does not name
    fails,            \* UDP: the failures so far (history)
    late              \* UDP: an error came for a connect given up (history)

http == <<connectingCount, status, timer>>
udp == <<state, asked, hasId, minds, stale, fails, late>>
vars == <<starting, http, udp>>

Timers == {"off", "none", "next", "connect", "answer"}
States == {"init", "connecting", "requesting", "error", "ok"}

TypeOK ==
    /\ starting \subseteq HttpTrackers \cup UdpTrackers
    /\ connectingCount \in 0 .. Limit
    /\ status \in [HttpTrackers -> {"waiting", "connecting", "sended"}]
    /\ timer \in [HttpTrackers -> Timers]
    /\ state \in [UdpTrackers -> States]
    /\ asked \in [UdpTrackers -> {"nothing", "connect", "announce"}]
    /\ hasId \in [UdpTrackers -> BOOLEAN]
    /\ minds \in [UdpTrackers -> {"none", "oneshot", "repeating"}]
    /\ stale \in [UdpTrackers -> Nat]
    /\ fails \in [UdpTrackers -> 0 .. MaxFails]
    /\ late \in [UdpTrackers -> BOOLEAN]

Init ==
    /\ starting = HttpTrackers \cup UdpTrackers
    /\ connectingCount = 0
    /\ status = [t \in HttpTrackers |-> "waiting"]
    /\ timer = [t \in HttpTrackers |-> "off"]
    /\ state = [u \in UdpTrackers |-> "init"]
    /\ asked = [u \in UdpTrackers |-> "nothing"]
    /\ hasId = [u \in UdpTrackers |-> FALSE]
    /\ minds = [u \in UdpTrackers |-> "none"]
    /\ stale = [u \in UdpTrackers |-> 0]
    /\ fails = [u \in UdpTrackers |-> 0]
    /\ late = [u \in UdpTrackers |-> FALSE]

\* Entry has left its loop over the announce URLs and dispatches.
Dispatching == starting = {} /\ UNCHANGED starting

-----------------------------------------------------------------------------
(* HTTP trackers.                                                          *)

\* Close removes the socket and every timer of the tracker.
SetNextUpdate(t) ==
    /\ status' = [status EXCEPT ![t] = "waiting"]
    /\ timer' = [timer EXCEPT ![t] = "next"]

GetConnectingHandle ==
    /\ connectingCount < Limit
    /\ connectingCount' = connectingCount + 1

ReleaseConnectingHandle == connectingCount' = connectingCount - 1

\* CreateSock or the name look-up inside Connect may fail; Update then has
\* neither a timer nor a socket that would ever call the tracker again.
Update(t) ==
    \/ /\ connectingCount >= Limit
       /\ SetNextUpdate(t)
       /\ UNCHANGED connectingCount
    \/ /\ GetConnectingHandle
       /\ \/ UNCHANGED status /\ timer' = [timer EXCEPT ![t] = "none"]
          \/ /\ status' = [status EXCEPT ![t] = "connecting"]
             /\ \E k \in {"none", "connect"} : timer' = [timer EXCEPT ![t] = k]

StartHttp(t) ==
    /\ t \in starting
    /\ starting' = starting \ {t}
    /\ \/ Update(t)
       \/ UNCHANGED http        \* the URL does not parse
    /\ UNCHANGED udp

\* OnTimer, when the time to update has come.
UpdateDue(t) ==
    /\ Dispatching
    /\ timer[t] = "next"
    /\ Update(t)
    /\ UNCHANGED udp

\* Mutant: the handle is not given back.
ConnectFailKeeps(t) ==
    /\ Dispatching
    /\ timer[t] = "connect"
    /\ SetNextUpdate(t)
    /\ UNCHANGED <<connectingCount, udp>>

OnConnectFail(t) ==
    /\ Dispatching
    /\ timer[t] = "connect"
    /\ ReleaseConnectingHandle
    /\ SetNextUpdate(t)
    /\ UNCHANGED udp

OnConnectOk(t) ==
    /\ Dispatching
    /\ timer[t] = "connect"
    /\ ReleaseConnectingHandle
    /\ status' = [status EXCEPT ![t] = "sended"]
    /\ timer' = [timer EXCEPT ![t] = "answer"]
    /\ UNCHANGED udp

\* The answer times out, or the server closes the link and OnClose reads what
\* came, good or bad: the tracker waits for its next turn.
Answered(t) ==
    /\ Dispatching
    /\ timer[t] = "answer"
    /\ SetNextUpdate(t)
    /\ UNCHANGED <<connectingCount, udp>>

\* OnClose finds a redirection and updates at once.
Redirected(t) ==
    /\ Dispatching
    /\ timer[t] = "answer"
    /\ Update(t)
    /\ UNCHANGED udp

-----------------------------------------------------------------------------
(* UDP trackers.                                                           *)

\* One more failure; the histories end at MaxFails.
Failure(u) ==
    /\ fails[u] < MaxFails
    /\ fails' = [fails EXCEPT ![u] = @ + 1]

\* AddTimer: m_TimerId names a new timer and forgets the one it named.
AddTimer(u, kind) ==
    /\ minds' = [minds EXCEPT ![u] = kind]
    /\ stale' = [stale EXCEPT ![u] = IF minds[u] = "repeating" THEN @ + 1 ELSE @]

\* RemoveTimer(m_TimerId) first.
ReplaceTimer(u, kind) ==
    /\ minds' = [minds EXCEPT ![u] = kind]
    /\ UNCHANGED stale

SendConnectPacket(u) ==
    /\ asked' = [asked EXCEPT ![u] = "connect"]
    /\ state' = [state EXCEPT ![u] = "connecting"]
    /\ AddTimer(u, "oneshot")

SendRequestPacket(u) ==
    /\ asked' = [asked EXCEPT ![u] = "announce"]
    /\ state' = [state EXCEPT ![u] = "requesting"]
    /\ ReplaceTimer(u, "repeating")

\* The URL, the name look-up and CreateSock may fail: the tracker stays unused.
StartUdp(u) ==
    /\ u \in starting
    /\ starting' = starting \ {u}
    /\ \/ SendConnectPacket(u) /\ UNCHANGED <<hasId, fails, late>>
       \/ UNCHANGED udp
    /\ UNCHANGED http

\* OnTimer of the timer that m_TimerId names.
ConnectAgain(u) ==
    /\ Dispatching
    /\ state[u] = "init" /\ minds[u] = "repeating"
    /\ SendConnectPacket(u)
    /\ UNCHANGED <<hasId, fails, late, http>>

\* Mutant: the timer is removed and no other is set.
ConnectTimeoutIdle(u) ==
    /\ Dispatching
    /\ state[u] = "connecting" /\ minds[u] = "oneshot"
    /\ Failure(u)
    /\ state' = [state EXCEPT ![u] = "init"]
    /\ ReplaceTimer(u, "none")
    /\ UNCHANGED <<asked, hasId, late, http>>

ConnectTimeout(u) ==
    /\ Dispatching
    /\ state[u] = "connecting" /\ minds[u] = "oneshot"
    /\ Failure(u)
    /\ state' = [state EXCEPT ![u] = "init"]
    /\ ReplaceTimer(u, "repeating")
    /\ UNCHANGED <<asked, hasId, late, http>>

RequestAgain(u) ==
    /\ Dispatching
    /\ state[u] \in {"ok", "error"} /\ minds[u] = "repeating"
    /\ SendRequestPacket(u)
    /\ UNCHANGED <<hasId, fails, late, http>>

RequestTimeout(u) ==
    /\ Dispatching
    /\ state[u] = "requesting" /\ minds[u] = "repeating"
    /\ Failure(u)
    /\ state' = [state EXCEPT ![u] = "error"]
    /\ AddTimer(u, "repeating")
    /\ UNCHANGED <<asked, hasId, late, http>>

\* OnRead drops an answer with another transaction number; the others answer
\* the last kind of packet sent, perhaps late or more than once.  (The code goes by
\* the action the answer names, UDPTracker.cpp:265; a server that names another
\* action than it was asked for is not modelled.)
Connected(u) ==
    /\ Dispatching
    /\ asked[u] = "connect"
    /\ hasId' = [hasId EXCEPT ![u] = TRUE]
    /\ SendRequestPacket(u)
    /\ UNCHANGED <<fails, late, http>>

Announced(u) ==
    /\ Dispatching
    /\ asked[u] = "announce"
    /\ state' = [state EXCEPT ![u] = "ok"]
    /\ ReplaceTimer(u, "repeating")
    /\ UNCHANGED <<asked, hasId, fails, late, http>>

ErrorAnswer(u) ==
    /\ Dispatching
    /\ asked[u] # "nothing"
    /\ Failure(u)
    /\ state' = [state EXCEPT ![u] = IF @ = "connecting" THEN "init" ELSE "error"]
    /\ late' = [late EXCEPT ![u] = @ \/ (asked[u] = "connect" /\ state[u] # "connecting")]
    /\ AddTimer(u, "repeating")
    /\ UNCHANGED <<asked, hasId, http>>

-----------------------------------------------------------------------------
HttpHandler(t) ==
    UpdateDue(t) \/ OnConnectFail(t) \/ OnConnectOk(t) \/ Answered(t) \/ Redirected(t)

UdpTimer(u) ==
    ConnectAgain(u) \/ ConnectTimeout(u) \/ RequestAgain(u) \/ RequestTimeout(u)

UdpAnswer(u) == Connected(u) \/ Announced(u) \/ ErrorAnswer(u)

Next ==
    \/ \E t \in HttpTrackers : StartHttp(t) \/ HttpHandler(t)
    \/ \E u \in UdpTrackers : StartUdp(u) \/ UdpTimer(u) \/ UdpAnswer(u)

Spec == Init /\ [][Next]_vars

\* Entry starts all the trackers, and CDealer::Dispatch runs every timer that
\* is due; each state of an HTTP tracker that lasts has a timer.
Fairness ==
    /\ \A t \in HttpTrackers : WF_vars(StartHttp(t)) /\ WF_vars(HttpHandler(t))
    /\ \A u \in UdpTrackers : WF_vars(StartUdp(u)) /\ WF_vars(UdpTimer(u))

FairSpec == Spec /\ Fairness

-----------------------------------------------------------------------------
(* Properties.                                                             *)

\* The trackers that Update left without a timer after it took a handle.
Lost == {t \in HttpTrackers : timer[t] = "none"}

Connecting == {t \in HttpTrackers : timer[t] = "connect"}

\* HandlesExact: m_ConnectingCount is the number of HTTP trackers whose
\* attempt to connect is under way, plus those that never come back from
\* Update; so it is never released more often than taken (the assertion in
\* ReleaseConnectingHandle) and nothing but a lost tracker uses up a handle.
HandlesExact == connectingCount = Cardinality(Connecting \cup Lost)

\* LeakPerFailure: a UDP tracker forgets at most one repeating timer per
\* failure, so a tracker that answers costs nothing however long it runs.
LeakPerFailure == \A u \in UdpTrackers : stale[u] <= fails[u]

\* IdFirst: a request goes out without a connection id only if the server's
\* error reached us after we had given the connect up ("Before announcing or
\* scraping, you have to obtain a connection ID", UDPTracker.h:56).
IdFirst ==
    \A u \in UdpTrackers : asked[u] = "announce" => hasId[u] \/ late[u]

\* AsksAgain: as long as a handle is left, HTTP trackers that want to connect
\* are not kept waiting while nobody connects, and a UDP tracker that was
\* started asks again, whatever goes wrong.
AsksAgain ==
    /\ []<>(\/ Connecting # {} \/ Cardinality(Lost) >= Limit
            \/ \A t \in HttpTrackers : timer[t] # "next")
    /\ \A u \in UdpTrackers :
        []<>(asked[u] = "nothing" \/ state[u] \in {"connecting", "requesting"})

\* HandlesReturned: when no attempt to connect is under way no handle is held
\* (the comments of both releases, TCPTracker.cpp:300 and 313: when connecting
\* failed, and when it succeeded, release the connecting right).
HandlesReturned == Connecting = {} => connectingCount = 0

\* The inductive invariant: the timer that m_TimerId names fits the state, and
\* the failures pay for the timers that were, and will be, forgotten.
UdpOK ==
    \A u \in UdpTrackers :
        /\ u \in starting => state[u] = "init"
        /\ asked[u] = "nothing" <=> minds[u] = "none"
        /\ asked[u] = "nothing" => state[u] = "init"
        /\ asked[u] # "nothing" =>
             minds[u] = IF state[u] = "connecting" THEN "oneshot" ELSE "repeating"
        /\ state[u] = "connecting" => asked[u] = "connect"
        /\ stale[u] + (IF state[u] = "init" /\ minds[u] # "none" THEN 1 ELSE 0) <= fails[u]
        /\ state[u] \in {"requesting", "ok"} => asked[u] = "announce"
        /\ state[u] = "error" => asked[u] = "announce" \/ late[u]

Unstarted == \A t \in starting \cap HttpTrackers : timer[t] = "off"

TrackersInv == TypeOK /\ Unstarted /\ HandlesExact /\ UdpOK /\ IdFirst
=============================================================================
