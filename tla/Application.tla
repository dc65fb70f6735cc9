---------------------------- MODULE Application ----------------------------
(***************************************************************************)
(* Tasks from the window to the threads that do the work: MainFrm.cpp and  *)
(* PlugInManager.cpp, the job list of the BitTorrent plug-in               *)
(* (benliud_bt.cpp), a job's thread (BTJob.cpp), its storage thread        *)
(* (BTStorage.cpp) and session threads (BTSession.cpp), and the listener   *)
(* that hands accepted links to the sessions (BTListener.cpp,              *)
(* BTListenPeerAdmin.cpp).                                                 *)
(*                                                                         *)
(* deletejob destroys a job's object whatever its threads do.  Once a      *)
(* thread has lost the object it works on the program's behaviour is       *)
(* undefined, and the model stops there (wild).                            *)
(***************************************************************************)
EXTENDS Naturals, FiniteSets, Sequences, Lists

CONSTANTS
    Tasks,
    SessionNum,     \* SESSIONNUM
    Links,          \* connections other peers make
    MaxRunning,     \* 3
    NoLink

ApplicationAssumption ==
    /\ IsFiniteSet(Tasks) /\ IsFiniteSet(Links)
    /\ SessionNum \in Nat \ {0} /\ MaxRunning \in Nat \ {0}
    /\ NoLink \notin Links

Numbers == 1..SessionNum

Away == <<"away">>
AtListener == <<"listener">>
Closed == <<"closed">>

VARIABLES
    listed,         \* m_TaskItems of the window
    running,        \* ... those with the mark `running`
    searched,       \* infohashes the DHT plug-in searches for
    jobs,          \* btJOB
    listening,        \* the listener is there
    job,            \* task -> where the job's thread is
    jobTold,           \* task -> m_bStop of the job
    storage,        \* task -> where the storage's thread is
    storageTold,
    session,        \* task -> number -> where the session's thread is
    sessionTold,
    registered,     \* m_JobMap of the listener
    sessions,       \* m_SessionList of each storage
    linkAt,           \* link -> where it is: Away, AtListener, Closed or <<task, number>>
    shaking,           \* the link whose handshake the listener's thread is in
    wild            \* a thread has lost its object

window == <<listed, running, searched>>
jobThreads == <<job, jobTold, storage, storageTold, session, sessionTold>>
listener == <<listening, registered, linkAt, shaking>>
appVars == <<window, jobs, jobThreads, listener, sessions, wild>>

Owned(t, s) == {l \in Links : linkAt[l] = <<t, s>>}

---------------------------------------------------------------------------
(* The plug-in's exported functions.                                       *)

Alive(t) ==
    \/ job[t] \notin {"none", "quit", "failed"}
    \/ storage[t] \notin {"none", "ended"}
    \/ \E s \in Numbers : session[t][s] \notin {"none", "ended"}

Forgotten(t) == jobs \ {t}

\* Stop, which marks the job and does not wait, and delete.
DeleteJob(t) ==
    /\ jobs' = Forgotten(t)
    /\ wild' = Alive(t)
    /\ job' = [job EXCEPT ![t] = "none"]
    /\ UNCHANGED <<jobTold, storage, storageTold, session, sessionTold, sessions>>

\* stopjob, exported to the host: "mark the stop and leave , wait the stop notice".
StopJob(t) ==
    /\ t \in jobs
    /\ jobTold' = [jobTold EXCEPT ![t] = TRUE]
    /\ UNCHANGED <<window, jobs, job, storage, storageTold, session, sessionTold,
                   listener, sessions, wild>>

---------------------------------------------------------------------------
(* The window.                                                             *)

\* Starting the tasks of S; those of Ok start.
Start(S, Ok) ==
    /\ searched' = searched \cup S
    /\ running' = running \cup Ok
    /\ jobs' = jobs \cup Ok
    /\ job' = [t \in Tasks |-> IF t \in Ok THEN "init" ELSE job[t]]
    /\ jobTold' = [t \in Tasks |-> jobTold[t] /\ t \notin Ok]
    /\ storage' = [t \in Tasks |-> IF t \in Ok THEN "none" ELSE storage[t]]
    /\ storageTold' = [t \in Tasks |-> storageTold[t] /\ t \notin Ok]
    /\ session' = [t \in Tasks |-> IF t \in Ok THEN [s \in Numbers |-> "none"] ELSE session[t]]
    /\ sessionTold' = [t \in Tasks |->
            IF t \in Ok THEN [s \in Numbers |-> FALSE] ELSE sessionTold[t]]
    /\ sessions' = [t \in Tasks |-> IF t \in Ok THEN <<>> ELSE sessions[t]]

\* The file can be read, it is a torrent, the task is not in the list.  Whatever
\* else goes wrong returns before the list is touched.
Acceptable(t) == listening /\ t \notin listed

\* Every task that does not run, those the user has stopped too, when fewer than
\* MaxRunning run: what is started is not counted.
ScheduleTask(S, Ok) ==
    IF Cardinality(running) >= MaxRunning
    THEN Ok = {} /\ UNCHANGED <<running, searched, jobs, jobThreads, sessions>>
    ELSE Ok \subseteq S \ running /\ Start(S \ running, Ok)

OnMenuOpen(t, Ok) ==
    /\ Acceptable(t)
    /\ listed' = listed \cup {t}
    /\ ScheduleTask(listed', Ok)
    /\ UNCHANGED <<listener, wild>>

OnMenuRun(t, ok) ==
    /\ listening /\ t \in listed \ running
    /\ Start({t}, IF ok THEN {t} ELSE {})
    /\ UNCHANGED <<listed, listener, wild>>

OnMenuStop(t) ==
    /\ t \in running
    /\ DeleteJob(t)
    /\ searched' = searched \ {t} /\ running' = running \ {t}
    /\ UNCHANGED <<listed, listener>>

\* A task that does not run may be searched for still.
OnMenuDelete(t) ==
    /\ t \in listed
    /\ listed' = listed \ {t} /\ running' = running \ {t}
    /\ IF t \in running THEN DeleteJob(t) /\ searched' = searched \ {t}
       ELSE UNCHANGED <<jobs, jobThreads, sessions, searched, wild>>
    /\ UNCHANGED listener

\* Every job is stopped and deleted; its item stays.
StopAllJob ==
    /\ wild' = (\E t \in jobs : Alive(t))
    /\ job' = [t \in Tasks |-> IF t \in jobs THEN "none" ELSE job[t]]
    /\ UNCHANGED <<jobs, jobTold, storage, storageTold, session, sessionTold, sessions>>

\* StopServices: the jobs, then the listener, whose thread is waited for and whose
\* links are deleted.
OnMenuQuit ==
    /\ listening /\ shaking = NoLink
    /\ listening' = FALSE /\ searched' = {}
    /\ StopAllJob
    /\ linkAt' = [l \in Links |-> IF linkAt[l] = AtListener THEN Closed ELSE linkAt[l]]
    /\ UNCHANGED <<listed, running, registered, shaking>>

---------------------------------------------------------------------------
(* The thread of a job.                                                    *)

JobStep(t, from, to) == job[t] = from /\ job' = [job EXCEPT ![t] = to]
NotJob == <<window, jobs, jobTold, listener, wild>>

\* Init: reading the torrent and opening the files may fail, before any other
\* thread is there.
InitJob(t) ==
    /\ \/ /\ JobStep(t, "init", "failed") /\ UNCHANGED storage
       \/ /\ JobStep(t, "init", "start") /\ storage' = [storage EXCEPT ![t] = "check"]
    /\ UNCHANGED <<NotJob, storageTold, session, sessionTold, sessions>>

\* The sessions are started in order; Init gives up when a thread does not start,
\* and leaves the others alone.
StartSession(t) ==
    \E s \in Numbers :
        /\ session[t][s] = "none" /\ \A r \in 1..(s - 1) : session[t][r] # "none"
        /\ sessions' = [sessions EXCEPT ![t] = Append(@, s)]
        /\ \/ /\ JobStep(t, "start", IF s = SessionNum THEN "run" ELSE "start")
              /\ session' = [session EXCEPT ![t][s] = "run"]
           \/ JobStep(t, "start", "failed") /\ UNCHANGED session
        /\ UNCHANGED <<NotJob, storage, storageTold, sessionTold>>

\* Mutant: the last session is not told.
ToldSessionsButOne(t) == [s \in Numbers |-> s < SessionNum]

ToldSessions(t) == [s \in Numbers |-> TRUE]

StopSessions(t) ==
    /\ jobTold[t] /\ JobStep(t, "run", "join")
    /\ sessionTold' = [sessionTold EXCEPT ![t] = ToldSessions(t)]
    /\ UNCHANGED <<NotJob, storage, storageTold, session, sessions>>

Joined(t) ==
    /\ \A s \in Numbers : session[t][s] = "ended"
    /\ JobStep(t, "join", "close")
    /\ storageTold' = [storageTold EXCEPT ![t] = TRUE]
    /\ UNCHANGED <<NotJob, storage, session, sessionTold, sessions>>

\* The trackers are stopped and the files closed when the storage's thread is over.
QuitJob(t) ==
    /\ storage[t] = "ended" /\ JobStep(t, "close", "quit")
    /\ UNCHANGED <<NotJob, storage, storageTold, session, sessionTold, sessions>>

---------------------------------------------------------------------------
(* The thread of the storage.                                              *)

StorageStep(t, from, to) ==
    /\ storage[t] = from /\ storage' = [storage EXCEPT ![t] = to]
    /\ UNCHANGED <<window, jobs, job, jobTold, storageTold, session, sessionTold,
                   listening, linkAt, shaking, sessions, wild>>

\* JobInit, then the job is there for the listener.
RegisteTask(t) ==
    /\ StorageStep(t, "check", "run")
    /\ registered' = registered \cup {t}

UnregisteTask(t) ==
    /\ storageTold[t] /\ StorageStep(t, "run", "flush")
    /\ registered' = registered \ {t}

\* What the cache holds is written.
EndStorage(t) == StorageStep(t, "flush", "ended") /\ UNCHANGED registered

---------------------------------------------------------------------------
(* The thread of a session.                                                *)

SessionStep(t, s, from, to) ==
    /\ session[t][s] = from /\ session' = [session EXCEPT ![t][s] = to]
    /\ UNCHANGED <<window, jobs, job, jobTold, storage, storageTold, sessionTold,
                   listening, registered, shaking, wild>>

\* Mutant: the session leaves the list after its links were closed.
LeaveLate(t, s) == sessions

\* Under the lock of the list.
LeaveList(t, s) == [sessions EXCEPT ![t] = Without(@, {s})]

UnregisteSession(t, s) ==
    /\ sessionTold[t][s] /\ SessionStep(t, s, "run", "left")
    /\ sessions' = LeaveList(t, s)
    /\ UNCHANGED linkAt

\* PeerAdmin.Stop: every link is closed and deleted.
EndSession(t, s) ==
    /\ SessionStep(t, s, "left", "ended")
    /\ linkAt' = [l \in Links |-> IF l \in Owned(t, s) THEN Closed ELSE linkAt[l]]
    /\ UNCHANGED sessions

\* The peer has gone and the timer deletes its link, be it in a call of the
\* listener's thread.
CheckClosedConnection(t, s, l) ==
    /\ session[t][s] = "run" /\ l \in Owned(t, s)
    /\ linkAt' = [linkAt EXCEPT ![l] = Closed]
    /\ wild' = (shaking = l)
    /\ UNCHANGED <<window, jobs, jobThreads, listening, registered, shaking, sessions>>

---------------------------------------------------------------------------
(* The listener's thread.                                                  *)

NotLinks == <<window, jobs, jobThreads, listening, registered, sessions, wild>>

\* A socket that is accepted; a second one of the same address is closed.
NewAccept(l) ==
    /\ listening /\ linkAt[l] = Away
    /\ linkAt' = [linkAt EXCEPT ![l] = AtListener]
    /\ UNCHANGED <<NotLinks, shaking>>

\* The first session of the list that takes the link; nobody may.
Takers(t) == {<<t, sessions[t][i]>> : i \in DOMAIN sessions[t]}

\* LinkGotHash, under the locks of the jobs and of the sessions: the link is
\* handed over in the midst of its own handshake.
LinkGotHash(l, t) ==
    /\ listening /\ shaking = NoLink /\ linkAt[l] = AtListener /\ t \in registered
    /\ \E to \in Takers(t) : linkAt' = [linkAt EXCEPT ![l] = to]
    /\ shaking' = l
    /\ UNCHANGED NotLinks

\* Unknown hash, or no room in any session.
LinkRefused(l) ==
    /\ listening /\ shaking = NoLink /\ linkAt[l] = AtListener
    /\ linkAt' = [linkAt EXCEPT ![l] = Closed]
    /\ UNCHANGED <<NotLinks, shaking>>

\* The handshake is answered.
HandshakeDone ==
    /\ shaking # NoLink /\ shaking' = NoLink
    /\ UNCHANGED <<NotLinks, linkAt>>

---------------------------------------------------------------------------
AppInit ==
    /\ listed = {} /\ running = {} /\ searched = {} /\ jobs = {}
    /\ listening = TRUE
    /\ job = [t \in Tasks |-> "none"] /\ jobTold = [t \in Tasks |-> FALSE]
    /\ storage = [t \in Tasks |-> "none"] /\ storageTold = [t \in Tasks |-> FALSE]
    /\ session = [t \in Tasks |-> [s \in Numbers |-> "none"]]
    /\ sessionTold = [t \in Tasks |-> [s \in Numbers |-> FALSE]]
    /\ registered = {} /\ sessions = [t \in Tasks |-> <<>>]
    /\ linkAt = [l \in Links |-> Away] /\ shaking = NoLink
    /\ wild = FALSE

JobThread(t) ==
    InitJob(t) \/ StartSession(t) \/ StopSessions(t) \/ Joined(t) \/ QuitJob(t)
StorageThread(t) == RegisteTask(t) \/ UnregisteTask(t) \/ EndStorage(t)
SessionThread(t, s) == UnregisteSession(t, s) \/ EndSession(t, s)

User ==
    \/ \E t \in Tasks, Ok \in SUBSET Tasks : OnMenuOpen(t, Ok)
    \/ \E t \in Tasks, ok \in BOOLEAN : OnMenuRun(t, ok)
    \/ \E t \in Tasks : OnMenuStop(t) \/ OnMenuDelete(t) \/ StopJob(t)
    \/ OnMenuQuit

AppNext ==
    /\ ~wild
    /\ \/ User
       \/ \E t \in Tasks :
            \/ JobThread(t) \/ StorageThread(t)
            \/ \E s \in Numbers :
                \/ SessionThread(t, s)
                \/ \E l \in Links : CheckClosedConnection(t, s, l)
       \/ \E l \in Links :
            NewAccept(l) \/ LinkRefused(l) \/ \E t \in Tasks : LinkGotHash(l, t)
       \/ HandshakeDone

\* Every thread that can run does.
AppFairness ==
    \A t \in Tasks :
        /\ WF_appVars(~wild /\ JobThread(t)) /\ WF_appVars(~wild /\ StorageThread(t))
        /\ \A s \in Numbers : WF_appVars(~wild /\ SessionThread(t, s))

AppSpec == AppInit /\ [][AppNext]_appVars
AppFairSpec == AppSpec /\ AppFairness

---------------------------------------------------------------------------
AppTypeOK ==
    /\ running \subseteq listed /\ jobs \subseteq Tasks /\ searched \subseteq Tasks
    /\ registered \subseteq Tasks /\ shaking \in Links \cup {NoLink}
    /\ jobTold \in [Tasks -> BOOLEAN] /\ wild \in BOOLEAN

\* While the program is up the window and the plug-in agree on what runs, though
\* each keeps a list of its own and a start may fail half-way: a task that is
\* shown as stopped has no threads left behind (MainFrm.cpp:1456, 1587,
\* benliud_bt.cpp:226, 297).
WindowAgrees == listening => running = jobs

\* No link is left open by a session that has ended, also when the listener handed
\* it over while the session was stopping: a session leaves the list before it
\* closes its links (BTSession.cpp:180, BTStorage.cpp:2991).
NoLinkLeftBehind ==
    \A t \in Tasks, s \in Numbers :
        ~wild /\ session[t][s] = "ended" /\ job[t] # "none" => Owned(t, s) = {}

\* The window's books and the links of the sessions, between any two steps of
\* the threads.
ApplicationInv == AppTypeOK /\ WindowAgrees /\ NoLinkLeftBehind

\* A job that is told to stop ends, its sessions and its storage before it
\* (BTJob.cpp:151), unless its object was taken away.
StopsEnd ==
    \A t \in Tasks : []<>(~jobTold[t] \/ job[t] \in {"quit", "failed", "none"} \/ wild)
=============================================================================
