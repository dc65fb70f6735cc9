---------------------------- MODULE PortMapper ----------------------------
(***************************************************************************)
(* The UPnP plug-in: the search for a router (UPnpNatFinder.cpp), the      *)
(* reading of its description (UPnpNatParser.cpp), the list of tasks and   *)
(* their timers (UPnpNat.cpp), the connection each task makes              *)
(* (UPnpNatController.cpp), on a machine without an address of its own on  *)
(* the Internet (UPnpThread.cpp); the router is external.                  *)
(***************************************************************************)
EXTENDS Naturals, Sequences, SequencesExt, FiniteSetsExt

CONSTANTS
    Ports,
    MaxRetry,       \* 5
    MaxTasks        \* bound: tasks the two-minute timer leaves in the list

PortMapperAssumption == MaxRetry \in Nat /\ MaxTasks \in Nat

NoPort == 0

VARIABLES
    state,          \* _state: "discover", "getdescription", "ok"
    finder,         \* the finder's socket is open
    parser,         \* the parser's socket: "off", "connecting", "reading", "received"
    stale,          \* the parser's buffer holds bytes of an earlier connection
    hung,           \* the thread does not come back from the description
    timer,          \* m_discoverTimerID
    tasks,          \* m_TaskList
    asked           \* requests of the host: <<action, port>>

search == <<state, finder, parser, stale, hung, timer>>
work == <<tasks, asked>>
vars == <<search, work>>

---------------------------------------------------------------------------
(* Tasks.  A controller is "none", "connecting", "waiting" for the router  *)
(* or "done": closed and still there.                                      *)

NewTask(action, port) ==
    [action |-> action, port |-> port, retry |-> 0,
     at |-> IF state = "ok" THEN "connecting" ELSE "none"]

\* The host asks once.
addPortMapping(port) ==
    /\ <<"add", port>> \notin asked
    /\ asked' = asked \cup {<<"add", port>>}
    /\ tasks' = Append(tasks, NewTask("add", port))
    /\ UNCHANGED search

removePortMapping(port) ==
    /\ <<"add", port>> \in asked /\ <<"del", port>> \notin asked
    /\ asked' = asked \cup {<<"del", port>>}
    /\ tasks' = Append(tasks, NewTask("del", port))
    /\ UNCHANGED search

\* Every two minutes.
GetExternIp ==
    /\ ~hung /\ Len(tasks) < MaxTasks
    /\ tasks' = Append(tasks, NewTask("ip", NoPort))
    /\ UNCHANGED <<search, asked>>

Move(i, at) == tasks' = [tasks EXCEPT ![i].at = at]

Idle == {i \in DOMAIN tasks : tasks[i].at = "none"}
IdleDels == {i \in Idle : tasks[i].action = "del"}

\* One task a second, those that delete first.
ControlTimer ==
    /\ ~hung /\ state = "ok" /\ Idle # {}
    /\ Move(Min(IF IdleDels # {} THEN IdleDels ELSE Idle), "connecting")
    /\ UNCHANGED <<search, asked>>

\* The task a report is taken for: the first of its kind with a controller.
Meant(i) ==
    Min({j \in DOMAIN tasks :
            /\ tasks[j].at # "none"
            /\ tasks[j].action = tasks[i].action /\ tasks[j].port = tasks[i].port})

Retried(j, list) == [list EXCEPT ![j].at = "none", ![j].retry = @ + 1]

\* A failed deletion is not tried again.
Failed(j, list) ==
    IF tasks[j].action = "del" \/ tasks[j].retry > MaxRetry THEN RemoveAt(list, j)
    ELSE Retried(j, list)

\* NoticePortMapping and NoticeExternIP.  After a failed addition the port is
\* deleted as well.
Notice(i, ok) ==
    LET closed == [tasks EXCEPT ![i].at = "done"]
        left == IF ok THEN RemoveAt(closed, Meant(i)) ELSE Failed(Meant(i), closed)
    IN  tasks' = IF ~ok /\ tasks[i].action = "add"
                 THEN Append(left, NewTask("del", tasks[i].port)) ELSE left

OnConnectOk(i) ==
    /\ ~hung /\ tasks[i].at = "connecting" /\ Move(i, "waiting")
    /\ UNCHANGED <<search, asked>>

OnConnectFail(i) ==
    /\ ~hung /\ tasks[i].at = "connecting" /\ Notice(i, FALSE)
    /\ UNCHANGED <<search, asked>>

\* The router closes: with 2xx, or refused or broken off.
OnClose(i, ok) ==
    /\ ~hung /\ tasks[i].at = "waiting" /\ Notice(i, ok)
    /\ UNCHANGED <<search, asked>>

---------------------------------------------------------------------------
(* The search.                                                             *)

\* Whatever the first datagram says the socket is closed; so it is after 5 s.
FinderCloses ==
    /\ ~hung /\ finder /\ finder' = FALSE
    /\ UNCHANGED <<state, parser, stale, hung, timer, work>>

\* An answer with a code 2xx and a location.
ParseReponse == finder /\ state # "getdescription"

\* The parser is stopped and started; its buffer stays as it is.
OnGetDescriptionUrl ==
    /\ ~hung /\ ParseReponse
    /\ state' = "getdescription" /\ finder' = FALSE
    /\ parser' = "connecting" /\ stale' = (stale \/ parser = "received")
    /\ UNCHANGED <<hung, timer, work>>

\* Mutant: only when no device was found.
RestartsDiscover == state = "discover"

Restarts == state # "ok"

Start == state' = "discover" /\ finder' = TRUE /\ timer' = TRUE

\* After 15 s and more; the parser is left alone.
DiscoverTimer ==
    /\ ~hung /\ timer /\ ~finder
    /\ IF Restarts THEN Start ELSE timer' = FALSE /\ UNCHANGED <<state, finder>>
    /\ UNCHANGED <<parser, stale, hung, work>>

ParserMoves(from, to) == ~hung /\ parser = from /\ parser' = to

ParserConnects ==
    /\ ParserMoves("connecting", "reading")
    /\ UNCHANGED <<state, finder, stale, hung, timer, work>>

ParserReads ==
    /\ ParserMoves("reading", "received")
    /\ UNCHANGED <<state, finder, stale, hung, timer, work>>

\* No connection, or closed before anything came.
ParserFails ==
    /\ ParserMoves("connecting", "off") \/ ParserMoves("reading", "off")
    /\ UNCHANGED <<state, finder, stale, hung, timer, work>>

\* Cut off, not the description of a router, or behind what was there before.
ParserRefuses ==
    /\ ParserMoves("received", "off") /\ stale' = TRUE
    /\ UNCHANGED <<state, finder, hung, timer, work>>

OnGetControlUrl ==
    /\ ~stale /\ ParserMoves("received", "off")
    /\ state' = "ok" /\ stale' = TRUE
    /\ UNCHANGED <<finder, hung, timer, work>>

\* A device without a type: the loop does not come to the next one.
ParserHangs ==
    /\ ~stale /\ ParserMoves("received", "received") /\ hung' = TRUE
    /\ UNCHANGED <<state, finder, stale, timer, work>>

---------------------------------------------------------------------------
Init ==
    /\ state = "discover" /\ finder = TRUE /\ timer = TRUE
    /\ parser = "off" /\ stale = FALSE /\ hung = FALSE
    /\ tasks = <<[action |-> "ip", port |-> NoPort, retry |-> 0, at |-> "none"]>>
    /\ asked = {}

IsAdd(i, p) == tasks[i].action = "add" /\ tasks[i].port = p

Controller(i) ==
    OnConnectOk(i) \/ OnConnectFail(i) \/ \E ok \in BOOLEAN : OnClose(i, ok)

Next ==
    \/ \E p \in Ports : addPortMapping(p) \/ removePortMapping(p)
    \/ GetExternIp \/ ControlTimer
    \/ \E i \in DOMAIN tasks : Controller(i)
    \/ FinderCloses \/ OnGetDescriptionUrl \/ DiscoverTimer
    \/ ParserConnects \/ ParserReads \/ ParserFails \/ ParserRefuses
    \/ OnGetControlUrl \/ ParserHangs

\* The timers fire, a connection is made or given up after 6 s, a router that has
\* a request closes the connection, and one that is searched for time and again
\* answers.
Fairness ==
    /\ WF_vars(ControlTimer) /\ WF_vars(DiscoverTimer) /\ WF_vars(FinderCloses)
    /\ \A p \in Ports : WF_vars(\E i \in DOMAIN tasks : IsAdd(i, p) /\ Controller(i))
    /\ SF_vars(OnGetDescriptionUrl) /\ SF_vars(ParserConnects) /\ SF_vars(ParserReads)
    /\ WF_vars(OnGetControlUrl)

Spec == Init /\ [][Next]_vars
FairSpec == Spec /\ Fairness

---------------------------------------------------------------------------
\* A router that answers is found, unless the parser's buffer is spoilt or its
\* loop does not end: the search starts again when any of its steps came to
\* nothing (UPnpNat.cpp:212-222).
Found == []<>(state = "ok" \/ stale \/ hung)

Adding(p) == \E i \in DOMAIN tasks : IsAdd(i, p)

\* While the router is known every addition comes to an end, done or given up,
\* whatever other tasks go on: "set to NULL will start again" (UPnpNat.cpp:477).
AddEnds ==
    <>[](state = "ok" /\ ~hung) => \A p \in Ports : []<>~Adding(p)
=============================================================================
