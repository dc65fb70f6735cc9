----------------------------- MODULE DhtQueries -----------------------------
(***************************************************************************)
(* The requests our DHT node sends (FrontServer.cpp, DHTNode.cpp,          *)
(* DHTThread.cpp): the searched infohashes (m_TaskList), the priority      *)
(* queue the send timer empties, the requests that wait for an answer      *)
(* (m_PendingRequestList), the pool of active nodes, and the network,      *)
(* which loses, delays and repeats answers.  Tasks are added and removed   *)
(* by the user's thread, all the rest runs on the DHT thread.              *)
(*                                                                         *)
(* A node stands for its key and its address.  The routing table is the    *)
(* module KBucket; here it only decides which nodes are asked.             *)
(***************************************************************************)
EXTENDS Naturals, FiniteSets, Bags

CONSTANTS
    Nodes,
    IpOf,           \* address of a node; nodes behind one router share it
    Hashes,         \* infohashes
    Dist,           \* hash -> node -> distance
    Sids,           \* packet numbers '0'..'9'
    InitNodes,      \* m_InitialNode: the fixed nodes
    NoKey,           \* no hash, no key
    K,              \* nodes a search starts with (8)
    MaxQueue,       \* bound: requests in the queue
    MaxSent         \* bound: requests sent

DhtAssumption ==
    /\ IsFiniteSet(Nodes) /\ InitNodes \subseteq Nodes
    /\ DOMAIN IpOf = Nodes /\ NoKey \notin Nodes \cup Hashes
    /\ Dist \in [Hashes -> [Nodes -> Nat]]
    /\ IsFiniteSet(Sids) /\ K \in Nat \ {0}
    /\ MaxQueue \in Nat /\ MaxSent \in Nat

Types == {"ping", "find", "get", "announce"}
Requests == [type : Types, dest : Nodes, key : Nodes \cup {NoKey},
             target : Hashes \cup {NoKey}]

VARIABLES
    tasks,          \* hash -> "none", "get" or "announce"
    removing,       \* the hash RemoveTask still has to cancel
    boot,           \* m_InitialNode
    booted,         \* m_AllNodes: initial nodes that were asked
    queue,          \* bag of requests, m_PriorityQueue
    pending,        \* sent requests with their packet number and their place
                    \* in the order of sending
    sent,           \* requests sent
    net,            \* answers on their way
    pool,           \* m_NodePool
    follow,         \* requests an answer leads to, about to be queued
    asked,          \* addresses in m_FindNodes
    record,         \* m_AnnounceRecord: its keys are those of nodes
    values,         \* hashes with peers in m_TaskDatabase
    mixed           \* an answer met a request while its own was waiting

user == <<tasks, removing>>
start == <<boot, booted>>
memory == <<asked, record, values>>
queriesVars == <<user, start, queue, pending, sent, net, pool, follow, memory, mixed>>

---------------------------------------------------------------------------
(* The queue.                                                              *)

Priority == [ping |-> 8, find |-> 6, get |-> 7, announce |-> 8]

DoRequest(S) ==
    /\ queue' = queue (+) SetToBag(S)
    /\ BagCardinality(queue') <= MaxQueue

Ask(type, n, key, target) ==
    [type |-> type, dest |-> n, key |-> key, target |-> target]

Foremost(r) == \A q \in BagToSet(queue) : Priority[q.type] <= Priority[r.type]

\* Mutant: only the requests to the very same node are looked at.
UsedByNode(r) == {p.sid : p \in {q \in pending : q.dest = r.dest}}

\* The numbers of the requests that wait at the address of r.
Used(r) == {p.sid : p \in {q \in pending : IpOf[q.dest] = IpOf[r.dest]}}

\* The first number that is free.
Free(r) == {s \in Sids \ Used(r) : \A t \in Sids \ Used(r) : s <= t}

\* The send timer: one request a tick, the rate of the lowest level.  A request
\* that finds no number is dropped.
DoWaitingRequest ==
    \E r \in BagToSet(queue) :
        /\ Foremost(r)
        /\ queue' = queue (-) SetToBag({r})
        /\ IF Free(r) = {} THEN UNCHANGED <<pending, sent>>
           ELSE \E s \in Free(r) :
                    /\ sent < MaxSent
                    /\ sent' = sent + 1
                    /\ pending' = pending \cup
                        {[type |-> r.type, dest |-> r.dest, key |-> r.key,
                          target |-> r.target, sid |-> s, no |-> sent]}
        /\ UNCHANGED <<user, start, net, pool, follow, memory, mixed>>

---------------------------------------------------------------------------
(* The user's tasks.                                                       *)

AddTask(h, announce) ==
    /\ removing = NoKey
    /\ tasks' = [tasks EXCEPT ![h] = IF announce THEN "announce" ELSE "get"]
    /\ UNCHANGED <<removing, start, queue, pending, sent, net, pool, follow, memory, mixed>>

\* RemoveTask takes the lock of the list, then that of the queue.
RemoveGetPeersTask(h) ==
    /\ removing = NoKey
    /\ tasks' = [tasks EXCEPT ![h] = "none"] /\ removing' = h
    /\ UNCHANGED <<start, queue, pending, sent, net, pool, follow, memory, mixed>>

Cancels(r) == r.type \in {"get", "announce"} /\ r.target = removing

CancelTask ==
    /\ removing # NoKey
    /\ queue' = [r \in {q \in BagToSet(queue) : ~Cancels(q)} |-> queue[r]]
    /\ removing' = NoKey
    /\ UNCHANGED <<tasks, start, pending, sent, net, pool, follow, memory, mixed>>

\* The task takes the peers that were found.
GetPeers(h) ==
    /\ h \in values
    /\ values' = values \ {h}
    /\ UNCHANGED <<user, start, queue, pending, sent, net, pool, follow, asked, record, mixed>>

---------------------------------------------------------------------------
(* The timers of the DHT thread.                                           *)

\* m_AllNodes forgets nothing: an initial node is asked once, answered or not.
IsUsedAddr(n) == n \in booted

\* The fixed nodes are asked for our own key; their keys are not known.
BootUp ==
    /\ \E n \in boot : ~IsUsedAddr(n)
    /\ DoRequest({Ask("find", n, NoKey, NoKey) : n \in {o \in boot : ~IsUsedAddr(o)}})
    /\ boot' = {} /\ booted' = booted \cup boot
    /\ UNCHANGED <<user, pending, sent, net, pool, follow, memory, mixed>>

\* Nothing was left to ask: the host names are resolved again while the table
\* holds fewer than six nodes.
AddFixNodes ==
    /\ \A n \in boot : IsUsedAddr(n)
    /\ boot' = InitNodes
    /\ UNCHANGED <<user, booted, queue, pending, sent, net, pool, follow, memory, mixed>>

\* The K nodes of a set of nodes that are closest to h; all when there are fewer.
Closest(h, S) == {n \in S : Cardinality({m \in S : Dist[h][m] < Dist[h][n]}) < K}

\* Every search is due: nextget lies 60 ticks of 100 ns ahead.
DoGetPeersJob ==
    /\ {h \in Hashes : tasks[h] # "none"} # {}
    /\ Cardinality(pool) >= K
    /\ DoRequest({Ask("get", x[1], x[1], x[2]) : x \in
            {x \in pool \X Hashes : tasks[x[2]] # "none" /\ x[1] \in Closest(x[2], pool)}})
    /\ UNCHANGED <<user, start, pending, sent, net, pool, follow, memory, mixed>>

\* RefreshBucket and PingCheck: the table asks a node it has heard of.
TableAsks(n, type) ==
    /\ n \in pool
    /\ DoRequest({Ask(type, n, n, NoKey)})
    /\ UNCHANGED <<user, start, pending, sent, net, pool, follow, memory, mixed>>

\* The node leaves the pool by the key the request was made with.
NoResponse(p) == pool' = pool \ {p.key}

\* The time-out timer.
GiveUp(p) ==
    /\ pending' = pending \ {p}
    /\ NoResponse(p)
    /\ UNCHANGED <<user, start, queue, sent, net, follow, memory, mixed>>

---------------------------------------------------------------------------
(* The network.  An answer may arrive long after its request was given up. *)

NodeAnswers(p) ==
    /\ net' = net \cup {[from |-> p.dest, sid |-> p.sid, no |-> p.no]}
    /\ UNCHANGED <<user, start, queue, pending, sent, pool, follow, memory, mixed>>

Lose(m) ==
    /\ net' = net \ {m}
    /\ UNCHANGED <<user, start, queue, pending, sent, pool, follow, memory, mixed>>

\* A node may answer from another port, so the address alone is compared.
Matches(m, p) == IpOf[p.dest] = IpOf[m.from] /\ p.sid = m.sid

\* Takes answer m off the network and the request it meets off the list.
Meets(m, p) ==
    /\ Matches(m, p)
    /\ pending' = pending \ {p}
    /\ net' = net \ {m}
    /\ mixed' = (mixed \/ (p.no # m.no /\ \E q \in pending : q.no = m.no))

Unknown(m) ==
    /\ ~\E p \in pending : Matches(m, p)
    /\ net' = net \ {m}
    /\ UNCHANGED <<user, start, queue, pending, sent, pool, follow, memory, mixed>>

\* An error, or an answer without what its type must have: the request is over.
OnError(m, p) ==
    /\ Meets(m, p)
    /\ UNCHANGED <<user, start, queue, sent, pool, follow, memory>>

\* DoAnnounceJob: the lookup by infohash never meets a node's key.
Announces(h, n) ==
    IF tasks[h] = "announce" /\ <<h, IpOf[n]>> \notin record
    THEN {Ask("announce", n, NoKey, h)} ELSE {}

AddActiveNode(n) == pool' = pool \cup {n}

\* An answered ping; a find_node without nodes does the same.
PingResponse(m, p) ==
    /\ p.type \in {"ping", "find"}
    /\ Meets(m, p)
    /\ AddActiveNode(p.dest)
    /\ UNCHANGED <<user, start, queue, sent, follow, memory>>

\* Of one address one node is asked, and once.
RecordNodeForFindNode(S) ==
    /\ \A n \in S : IpOf[n] \notin asked
    /\ \A n, o \in S : IpOf[n] = IpOf[o] => n = o
    /\ asked' = asked \cup {IpOf[n] : n \in S}

\* S: the offered nodes whose bucket has room and does not hold them.
FindNodeResponse(m, p, S) ==
    /\ p.type = "find"
    /\ Meets(m, p)
    /\ RecordNodeForFindNode(S)
    /\ DoRequest({Ask("find", n, n, p.target) : n \in S})
    /\ AddActiveNode(p.dest)
    /\ UNCHANGED <<user, start, sent, follow, record, values>>

\* Mutant: whether the task is still there is not looked up.
FollowedAnyway(h) == TRUE

\* The user may have removed the task meanwhile.
Followed(h) == tasks[h] # "none"

\* Offered node n is worth asking after an answer of node `from`.
Nearer(h, from, n) ==
    /\ \E o \in Closest(h, pool \cup {from}) : Dist[h][n] <= Dist[h][o]
    /\ Dist[h][n] <= Dist[h][from]
    /\ n \notin pool \cup {from}

\* Nodes that are closer, with a token or without.
GetPeersNodes(m, p, S, token) ==
    /\ p.type = "get" /\ S # {}
    /\ Meets(m, p)
    /\ DoRequest(IF token /\ \E n \in S : Dist[p.target][p.dest] < Dist[p.target][n]
                 THEN Announces(p.target, p.dest) ELSE {})
    /\ follow' = {Ask("get", n, n, p.target) :
                    n \in {o \in S : Followed(p.target) /\ Nearer(p.target, p.dest, o)}}
    /\ AddActiveNode(p.dest)
    /\ UNCHANGED <<user, start, sent, memory>>

\* The requests are queued after the list's lock was given back.
FollowUp ==
    /\ follow # {}
    /\ DoRequest(follow)
    /\ follow' = {}
    /\ UNCHANGED <<user, start, pending, sent, net, pool, memory, mixed>>

\* Peers, with a token or without.
GetPeersValues(m, p, token) ==
    /\ p.type = "get"
    /\ Meets(m, p)
    /\ values' = values \cup {p.target}
    /\ DoRequest(IF token THEN Announces(p.target, p.dest) ELSE {})
    /\ AddActiveNode(p.dest)
    /\ UNCHANGED <<user, start, sent, follow, asked, record>>

\* Neither nodes nor peers: only the token is used.
GetPeersToken(m, p) ==
    /\ p.type = "get"
    /\ Meets(m, p)
    /\ DoRequest(Announces(p.target, p.dest))
    /\ UNCHANGED <<user, start, sent, pool, follow, memory>>

\* The record is kept under the key of the node.
Recorded(n) == record' = record \cup {<<n, IpOf[n]>>}

AnnouncePeerResponse(m, p) ==
    /\ p.type = "announce"
    /\ Meets(m, p)
    /\ Recorded(p.dest)
    /\ AddActiveNode(p.dest)
    /\ UNCHANGED <<user, start, queue, sent, follow, asked, values>>

OnResponse(m, p) ==
    \/ OnError(m, p) \/ PingResponse(m, p)
    \/ \E S \in SUBSET Nodes : FindNodeResponse(m, p, S)
    \/ \E S \in SUBSET Nodes, token \in BOOLEAN : GetPeersNodes(m, p, S, token)
    \/ \E token \in BOOLEAN : GetPeersValues(m, p, token)
    \/ GetPeersToken(m, p) \/ AnnouncePeerResponse(m, p)

\* The timers of the node.
NodeTimers ==
    \/ BootUp \/ AddFixNodes \/ DoGetPeersJob
    \/ \E n \in Nodes, type \in {"ping", "find"} : TableAsks(n, type)

\* One pass of the DHT thread through its dealer.
DealerPass ==
    \/ NodeTimers \/ DoWaitingRequest
    \/ \E p \in pending : GiveUp(p)
    \/ \E m \in net : Unknown(m) \/ \E p \in pending : OnResponse(m, p)

---------------------------------------------------------------------------
QueriesInit ==
    /\ tasks = [h \in Hashes |-> "none"] /\ removing = NoKey
    /\ boot = InitNodes /\ booted = {} /\ queue = EmptyBag
    /\ pending = {} /\ sent = 0 /\ net = {} /\ pool = {} /\ follow = {}
    /\ asked = {} /\ record = {} /\ values = {} /\ mixed = FALSE

QueriesNext ==
    \/ \E h \in Hashes, announce \in BOOLEAN : AddTask(h, announce)
    \/ \E h \in Hashes : RemoveGetPeersTask(h)
    \/ CancelTask
    \/ \E h \in Hashes : GetPeers(h)
    \/ FollowUp
    \/ follow = {} /\ DealerPass
    \/ \E p \in pending : NodeAnswers(p)
    \/ \E m \in net : Lose(m)

QueriesSpec == QueriesInit /\ [][QueriesNext]_queriesVars

---------------------------------------------------------------------------
(* Properties.                                                             *)

QueriesTypeOK ==
    /\ tasks \in [Hashes -> {"none", "get", "announce"}]
    /\ removing \in Hashes \cup {NoKey}
    /\ boot \subseteq Nodes /\ booted \subseteq Nodes /\ pool \subseteq Nodes /\ follow \subseteq Requests
    /\ IsABag(queue) /\ BagToSet(queue) \subseteq Requests
    /\ \A p \in pending : p.sid \in Sids
    /\ sent \in 0..MaxSent /\ values \subseteq Hashes /\ mixed \in BOOLEAN

\* While a request waits, its answer is never taken for that of another one, be
\* it sent to another port of the same address: the packet number is chosen so
\* that "only then the original request is found" (FrontServer.cpp:1207).
AnswersMeet == ~mixed

\* Once RemoveTask has returned no announcement of the task is queued, though
\* answers to its searches still arrive: DoAnnounceJob looks the task up and
\* queues under one lock, and CancelTask takes out what was queued before
\* (DHTThread.cpp:468, DHTNode.cpp:570, FrontServer.cpp:1392).
NoAnnounceAfterRemove ==
    \A r \in BagToSet(queue) :
        r.type = "announce" => tasks[r.target] # "none" \/ removing = r.target

\* Copies of r that wait to be sent, or to be queued.
Waiting(r) == (IF BagIn(r, queue) THEN queue[r] ELSE 0) + IF r \in follow THEN 1 ELSE 0

\* A search that was removed dies out: no answer leads to a new request for it,
\* however many of its requests are still on their way ("the task may be deleted
\* meanwhile, so test before recursing", DHTThread.cpp:338).
DiesOut ==
    \A r \in BagToSet(queue') \cup follow' :
        r.target # NoKey /\ tasks[r.target] = "none" => Waiting(r)' <= Waiting(r)

\* The requests, and what may never become of a search.
QueriesInv == QueriesTypeOK /\ AnswersMeet /\ NoAnnounceAfterRemove
\* No step of the searches or of the network revives a removed one.
SearchDies == [][DiesOut]_queriesVars
=============================================================================
