---------------------------- MODULE MCLiveness -----------------------------
(* What the services must do in the end, for TLC, one service at a time:     *)
(* `service` says which one runs, and the others stand still where they      *)
(* begin.  Trackers is extended, so that its assumption is checked; PeerLinks  *)
(* has a module of its own for its other instances.                          *)
EXTENDS Trackers, Sequences, TLC

CONSTANTS
    Services,                   \* the services of a run
    Marked, Owner, NoAddr, NoLink,
    a,                          \* an address
    f, n,                       \* peers
    s1, s2,                     \* sockets, sessions
    t1, t2,                     \* tasks
    l1, l2,                     \* links
    p1, p2                      \* peers of two sessions

VARIABLES
    service,    \* the one that runs
    msOffer, nineteen, wire, buf, msBusy, msState, enc, dec, full, padLen,
    iaLen, got, sentShake, msLink, messages, keepAlives,
    uploadMode, behind, peerList, clients, have, choking, interested, requests,
    svOut, heard, owed, budget, pass, turn,
    listed, running, searched, jobs, listening, job, jobTold, storage,
    storageTold, session, sessionTold, registered, sessions, linkAt, shaking,
    wild,
    sock, sockList, sockPending, timers, fresh, counter, astray, torn, phase, ready, batch, open,
    pmState, finder, parser, pmStale, hung, pmTimer, tasks, pmAsked,
    known, good, later, banned, linking, linked, plOut, in, nConnecting,
    sessConnecting, nConnection, sessConnection, connecting, connected, addr,
    mine, plState, finish, pc, up, hand, quota, tries, moving, plOffer,
    offerAt, holds, lost,
    coFinished, flag, complete, mode, switch, members, upload, coPc, at, todo,
    round

----------------------------------------------------------------------------
(* Instances.                                                              *)

\* Mse: our own initiator, a plain link, and clients with other habits.
PadMax == 2
Pads == {0, 1}
Skip == 100
Offer(crypt, drop, provide, ia) ==
    [crypt |-> crypt, drop |-> drop, provide |-> provide, ia |-> ia]
Ours == Offer(TRUE, FALSE, 3, TRUE)
Offers == {Ours, Offer(FALSE, FALSE, 3, TRUE),
           Offer(TRUE, TRUE, 2, TRUE), Offer(TRUE, FALSE, 1, TRUE),
           Offer(TRUE, FALSE, 2, FALSE), Offer(TRUE, FALSE, 1, FALSE)}
Nineteens == BOOLEAN
MaxMessages == 1
MaxKeepAlives == 1

\* Serving: two peers without the fast extension, both unchoked, want one piece.
Peers == {f, n}
Order == <<n, f>>
Pieces == {1}
Fast == {}
Brothers == {}
AllowedFast == (f :> {}) @@ (n :> {})
UploadPlaces == 2
RequestSize == 1
Rate == 1
Room == 2

\* Application.
Tasks == {t1, t2}
SessionNum == 2
Links == {}
MaxRunning == 1

\* Dealer.
Socks == {s1, s2}
MaxTimers == 3

\* PortMapper.
Ports == {1}
MaxRetry == 0
MaxTasks == 1

\* PeerLinks: two peers of one address, in both phases of a task.
Sessions == {s1}
SessionList == <<s1>>
Addrs == {a}
Objects == {l1, l2}
LinkMax == 1
UploadLinkMax == 1
ConnectingLimit == 2
ConnectionLimit == 2
Phases == BOOLEAN

MS == INSTANCE Mse WITH
        offer <- msOffer, busy <- msBusy, state <- msState, link <- msLink
SV == INSTANCE Serving WITH
        UploadLinkMax <- UploadPlaces, Limit <- Rate, out <- svOut
AP == INSTANCE Application
DL == INSTANCE Dealer
PM == INSTANCE PortMapper WITH
        state <- pmState, stale <- pmStale, timer <- pmTimer, asked <- pmAsked
PL == INSTANCE PeerLinks WITH
        Links <- Objects, out <- plOut, state <- plState, offer <- plOffer
CO == INSTANCE Completion WITH
        Sessions <- {s1, s2}, SessionList <- <<s1, s2>>, Contacts <- {p1, p2},
        SessionOf <- (p1 :> s1) @@ (p2 :> s2), LastPiece <- 2, Wanted <- {1, 2},
        finished <- coFinished, pc <- coPc

ASSUME LivenessAssumption ==
    /\ MS!MseAssumption /\ SV!ServingAssumption
    /\ AP!ApplicationAssumption /\ DL!DealerAssumption /\ PM!PortMapperAssumption

----------------------------------------------------------------------------
(* One service runs.                                                       *)

msVars ==
    <<msOffer, nineteen, wire, buf, msBusy, msState, enc, dec, full, padLen,
      iaLen, got, sentShake, msLink, messages, keepAlives>>
svVars ==
    <<uploadMode, behind, peerList, clients, have, choking, interested, requests,
      svOut, heard, owed, budget, pass, turn>>
apVars ==
    <<listed, running, searched, jobs, listening, job, jobTold, storage,
      storageTold, session, sessionTold, registered, sessions, linkAt, shaking,
      wild>>
dlVars ==
    <<sock, sockList, sockPending, timers, fresh, counter, astray, torn, phase, ready, batch, open>>
pmVars ==
    <<pmState, finder, parser, pmStale, hung, pmTimer, tasks, pmAsked>>
plVars ==
    <<known, good, later, banned, linking, linked, plOut, in, nConnecting,
      sessConnecting, nConnection, sessConnection, connecting, connected, addr,
      mine, plState, finish, pc, up, hand, quota, tries, moving, plOffer,
      offerAt, holds, lost>>
coVars ==
    <<coFinished, flag, complete, mode, switch, members, upload, coPc, at,
      todo, round>>

\* A service that does not run begins in one way only.
LiveInit ==
    /\ service \in Services
    /\ MS!MseInit /\ SV!ServingInit /\ AP!AppInit /\ DL!DealerInit /\ PM!Init /\ PL!Init
    /\ CO!Init /\ Init
    /\ service # "handshake" => msOffer = Ours /\ ~nineteen
    /\ service # "serving" => ~uploadMode
    /\ service # "links" => \A s \in Sessions : ~finish[s]

Rest ==
    /\ UNCHANGED service
    /\ IF service = "handshake" THEN TRUE ELSE UNCHANGED msVars
    /\ IF service = "serving" THEN TRUE ELSE UNCHANGED svVars
    /\ IF service = "application" THEN TRUE ELSE UNCHANGED apVars
    /\ IF service = "sockets" THEN TRUE ELSE UNCHANGED dlVars
    /\ IF service = "mapper" THEN TRUE ELSE UNCHANGED pmVars
    /\ IF service = "links" THEN TRUE ELSE UNCHANGED plVars
    /\ IF service = "completion" THEN TRUE ELSE UNCHANGED coVars
    /\ IF service = "trackers" THEN TRUE ELSE UNCHANGED vars

LiveNext ==
    \/ service = "handshake" /\ MS!MseNext /\ Rest
    \/ service = "serving" /\ SV!ServingNext /\ Rest
    \/ service = "application" /\ AP!AppNext /\ Rest
    \/ service = "sockets" /\ DL!DealerNext /\ Rest
    \/ service = "mapper" /\ PM!Next /\ Rest
    \/ service = "links" /\ PL!Next /\ Rest
    \/ service = "completion" /\ CO!Next /\ Rest
    \/ service = "trackers" /\ Next /\ Rest

live == <<service, msVars, svVars, apVars, dlVars, pmVars, plVars, coVars, vars>>

\* What has to happen if it is possible again and again.  The service that runs
\* never changes, so one formula serves one action of each.
Repeated(k) ==
    \/ service = "serving" /\ k \in 1..Cardinality(Peers)
         /\ SV!Refill /\ SV!Idle /\ clients # <<>> /\ Head(clients) = Order[k]
         /\ Rest
    \/ service = "sockets" /\ k \in 1..2
         /\ DL!Fire /\ DL!Looked.client = <<s1, s2>>[k] /\ Rest
    \/ service = "mapper"
         /\ \/ k = 1 /\ PM!OnGetDescriptionUrl
            \/ k = 2 /\ PM!ParserConnects
            \/ k = 3 /\ PM!ParserReads
         /\ Rest
    \/ service = "links" /\ k \in 1..2 /\ PL!Outcome(s1, <<l1, l2>>[k]) /\ Rest

\* The fairness of each service, for the one that runs.
LiveFairness ==
    /\ WF_msVars(service = "handshake" /\ MS!MoveToConnectedList)
    /\ WF_msVars(service = "handshake" /\ MS!SendPublicKey)
    /\ WF_msVars(service = "handshake" /\ MS!ProcessA)
    /\ WF_msVars(service = "handshake" /\ MS!ProcessB)
    /\ WF_msVars(service = "handshake" /\ MS!LateHandshake)
    /\ \A e \in MS!Ends :
        /\ WF_msVars(service = "handshake" /\ MS!DoRead(e))
        /\ WF_msVars(service = "handshake" /\ MS!PeerEnded(e))
    /\ WF_svVars(service = "serving" /\ SV!SpeedControl)
    /\ WF_svVars(service = "serving" /\ SV!Refill)
    /\ \A p \in Peers : WF_svVars(service = "serving" /\ SV!PeerReads(p))
    /\ \A t \in Tasks :
        /\ WF_apVars(service = "application" /\ ~wild /\ AP!JobThread(t))
        /\ WF_apVars(service = "application" /\ ~wild /\ AP!StorageThread(t))
        /\ \A s \in AP!Numbers :
            WF_apVars(service = "application" /\ ~wild /\ AP!SessionThread(t, s))
    /\ WF_dlVars(service = "sockets" /\ DL!Dispatch)
    /\ WF_pmVars(service = "mapper" /\ PM!ControlTimer)
    /\ WF_pmVars(service = "mapper" /\ PM!DiscoverTimer)
    /\ WF_pmVars(service = "mapper" /\ PM!FinderCloses)
    /\ WF_pmVars(service = "mapper" /\ PM!OnGetControlUrl)
    /\ \A p \in Ports : WF_pmVars(service = "mapper" /\
            \E i \in DOMAIN tasks : PM!IsAdd(i, p) /\ PM!Controller(i))
    /\ \A s \in Sessions : WF_plVars(service = "links" /\ PL!SessionStep(s))
    /\ WF_plVars(service = "links" /\ PL!TransferStep)
    /\ \A s \in {s1, s2} :
        /\ WF_coVars(service = "completion" /\ CO!Writing(s))
        /\ WF_coVars(service = "completion" /\ CO!SwitchMode(s))
    /\ \A t \in HttpTrackers :
        /\ WF_vars(service = "trackers" /\ StartHttp(t))
        /\ WF_vars(service = "trackers" /\ HttpHandler(t))
    /\ \A u \in UdpTrackers :
        /\ WF_vars(service = "trackers" /\ StartUdp(u))
        /\ WF_vars(service = "trackers" /\ UdpTimer(u))
    /\ \A k \in 1..3 : SF_live(Repeated(k))

LiveSpec == LiveInit /\ [][LiveNext]_live /\ LiveFairness

----------------------------------------------------------------------------
(* Properties.                                                             *)

\* A job that is told to stop ends (BTJob.cpp:151).
StopsEnd == AP!StopsEnd

\* A router that answers is found, and what is asked of it is done or given up
\* (UPnpNat.cpp:212 and 477).
MapperEnds == ([]<>(service # "mapper") \/ PM!Found) /\ PM!AddEnds

\* A queued request of a peer is served (SpeedControl.cpp:220).
Served == SV!Served

\* The handshake never stalls: both ends finish it or the link is closed.
ShakesDone == []<>(service # "handshake") \/ MS!ShakesDone

\* Every attempt of a socket to connect is reported (TCPClientSock.h:83).
AttemptsReported == DL!AttemptsReported

\* An attempt to link leaves the list of connecting peers (PeerAdmin.cpp:763).
AttemptsEnd == PL!AttemptsEnd

\* Every session hears that the download is finished (BTStorage.cpp:838).
AllSwitch == CO!AllSwitch
=============================================================================
