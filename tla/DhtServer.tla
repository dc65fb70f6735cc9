----------------------------- MODULE DhtServer -----------------------------
(***************************************************************************)
(* What our DHT node does for others (FrontServer.cpp:230-887,             *)
(* DataBase.cpp, DHTThread.cpp:555): a node that asks for the peers of a   *)
(* hash gets a token, and with the token it may announce itself.  Tokens   *)
(* and announced peers expire on one timer; the user may switch the        *)
(* service off meanwhile.                                                  *)
(*                                                                         *)
(* A token is the hash of an address and a time, here the pair of the two. *)
(* Time is counted in periods of the timer.                                *)
(***************************************************************************)
EXTENDS Naturals, FiniteSets

CONSTANTS
    Ips, Ports,     \* addresses of the nodes that ask
    Infohashes,
    TokenLife,      \* 30 s in periods of 10 s
    ItemLife,       \* 10 minutes in periods of 10 s
    ItemLimit,      \* ITEM_LIMIT
    SampleMax,      \* peers in an answer (50)
    MaxClock        \* bound: periods

ServerAssumption ==
    /\ TokenLife \in Nat /\ ItemLife \in Nat /\ ItemLimit \in Nat /\ MaxClock \in Nat
    /\ SampleMax \in Nat

VARIABLES
    clock,
    tokens,         \* m_TokenMap
    items,          \* m_Database; `by` is the token an item was announced with
    total,          \* m_nTotalItems
    asServer,       \* m_bAsServer
    known,          \* addresses of the good nodes of the routing table
    reply           \* the last answer: what it says and the peers it hands out

store == <<tokens, items, total>>
serverVars == <<clock, store, asServer, known, reply>>

Tokens == [ip : Ips, port : Ports, time : 0..MaxClock]
Says == {"nothing", "pong", "entry", "nodes", "values", "empty",
         "no_argument", "no_method", "no_node",
         "no_service", "bad_token", "not_stored"}

---------------------------------------------------------------------------
(* Answers go through the priority queue of the module DhtQueries.         *)

SendResponsePacket(says, peers) == reply' = [says |-> says, peers |-> peers]

ResponseError(why) == SendResponsePacket(why, {})

\* The asking node comes into the table, unless its bucket is full.
UpdateForRequest(ip) == known' \in {known, known \cup {ip}}

ResponsePing ==
    /\ SendResponsePacket("pong", {})
    /\ UNCHANGED store

\* The table holds the target itself, or nodes near it, or none.
FindNodeReply ==
    \/ known # {} /\ SendResponsePacket("entry", {})
    \/ known # {} /\ SendResponsePacket("nodes", {})
    \/ known = {} /\ ResponseError("no_node")

ResponseFindNode == FindNodeReply /\ UNCHANGED store

\* GenToken: made for every well-formed get_peers, whatever the answer.
GenToken(ip, port) == [ip |-> ip, port |-> port, time |-> clock]

\* All the peers of the hash when they are fewer than SampleMax; else some of
\* them, and the count is looked at only after one more was taken.
Sample(h) ==
    LET peers == {i \in items : i.hash = h}
    IN  IF Cardinality(peers) < SampleMax THEN {peers}
        ELSE {S \in SUBSET peers : Cardinality(S) <= SampleMax + 1}

\* Peers are looked up only when the near nodes are no better than we are.
GetPeersReply(h) ==
    \/ \E S \in Sample(h) \ {{}} : SendResponsePacket("values", S)
    \/ known # {} /\ SendResponsePacket("nodes", {})
    \/ known = {} /\ ResponseError("no_node")

\* Left out: that an address asks, announces and asks again within one period.
\* The time in a token is in milliseconds, so the second token is another one.
ResponseGetPeers(ip, port, h) ==
    /\ GenToken(ip, port) \notin {i.by : i \in items}
    /\ tokens' = tokens \cup {GenToken(ip, port)}
    /\ GetPeersReply(h)
    /\ UNCHANGED <<items, total>>

---------------------------------------------------------------------------
(* Announcements.                                                          *)

CheckToken(t, ip, port) == t \in tokens /\ t.ip = ip /\ t.port = port

\* The same peer for the same hash; the port is the one it listens on.
Same(h, ip, lport) == {i \in items : i.hash = h /\ i.ip = ip /\ i.lport = lport}

\* Mutant: an item that replaces an old one is counted like a new one.
CountedTwice(h, ip, lport) == total + 1

Counted(h, ip, lport) == total - Cardinality(Same(h, ip, lport)) + 1

\* Mutant: the old item of the peer is taken out before the room is looked at.
StoreRefusedLate(h, ip, lport) ==
    /\ total >= ItemLimit
    /\ items' = items \ Same(h, ip, lport)
    /\ total' = total - Cardinality(Same(h, ip, lport))
    /\ ResponseError("not_stored")

\* A full data base stores nothing, not even an item that replaces an old one.
StoreRefused(h, ip, lport) ==
    /\ total >= ItemLimit
    /\ UNCHANGED <<items, total>>
    /\ ResponseError("not_stored")

\* The good answer is put together and never written out (no ToStream): what is
\* sent is an empty packet.
Store(h, ip, lport, t) ==
    \/ StoreRefused(h, ip, lport)
    \/ /\ total < ItemLimit
       /\ items' = (items \ Same(h, ip, lport)) \cup
                    {[hash |-> h, ip |-> ip, lport |-> lport, time |-> clock, by |-> t]}
       /\ total' = Counted(h, ip, lport)
       /\ SendResponsePacket("empty", {})

\* A token is gone also when nothing is stored.
DoPeerAnnounceTask(ip, port, t, h, lport) ==
    \/ ~asServer /\ ResponseError("no_service") /\ UNCHANGED store
    \/ asServer /\ ~CheckToken(t, ip, port) /\ ResponseError("bad_token") /\ UNCHANGED store
    \/ /\ asServer /\ CheckToken(t, ip, port)
       /\ tokens' = tokens \ {t}
       /\ Store(h, ip, lport, t)

\* Anyone may present a token.
ResponseAnnouncePeers(ip, port, h) ==
    \/ ResponseError("no_argument") /\ UNCHANGED store
    \/ \E t \in Tokens, lport \in Ports : DoPeerAnnounceTask(ip, port, t, h, lport)

\* Whoever asks with its key becomes known, also when its question was not
\* understood; without arguments the handler returns before that.
OnRequest(ip, port, h) ==
    /\ \/ /\ ResponsePing \/ ResponseFindNode \/ ResponseGetPeers(ip, port, h)
             \/ ResponseAnnouncePeers(ip, port, h)
          /\ UpdateForRequest(ip)
       \/ /\ ResponseError("no_argument") \/ ResponseError("no_method")
          /\ UNCHANGED <<store, known>>
    /\ UNCHANGED <<clock, asServer>>

\* The node went bad or stopped answering (module KBucket).
Forget(ip) ==
    /\ known' = known \ {ip}
    /\ UNCHANGED <<clock, store, asServer, reply>>

---------------------------------------------------------------------------
(* The timer: items first, then tokens.                                    *)

Expired == {i \in items : clock' - i.time > ItemLife}

Silence == [says |-> "nothing", peers |-> {}]

Kept(t) == clock' - t.time <= TokenLife

ExpireTimer ==
    /\ clock < MaxClock /\ clock' = clock + 1
    /\ items' = items \ Expired
    /\ total' = total - Cardinality(Expired)
    /\ tokens' = {t \in tokens : Kept(t)}
    /\ reply' = Silence
    /\ UNCHANGED <<asServer, known>>

SetOptions ==
    /\ asServer' = ~asServer
    /\ UNCHANGED <<clock, store, known, reply>>

---------------------------------------------------------------------------
ServerInit ==
    /\ clock = 0 /\ tokens = {} /\ items = {} /\ total = 0
    /\ asServer = TRUE /\ known = {} /\ reply = Silence

ServerNext ==
    \/ \E ip \in Ips, port \in Ports, h \in Infohashes : OnRequest(ip, port, h)
    \/ \E ip \in known : Forget(ip)
    \/ ExpireTimer \/ SetOptions

ServerSpec == ServerInit /\ [][ServerNext]_serverVars

---------------------------------------------------------------------------
ServerTypeOK ==
    /\ clock \in 0..MaxClock /\ tokens \subseteq Tokens
    /\ IsFiniteSet(items) /\ total \in Nat /\ asServer \in BOOLEAN /\ known \subseteq Ips
    /\ \A i \in items : i.hash \in Infohashes /\ i.ip \in Ips /\ i.by \in Tokens
                       /\ i.time \in 0..clock
    /\ reply.says \in Says

\* Whoever is handed out as a peer asked for a token from the address it
\* announced, not long before (a timer period is added to the 30 s), and used
\* it once: DataBase.cpp:176 and 235, DHTThread.cpp:572.
ItemsBacked ==
    /\ \A i \in items : i.by.ip = i.ip /\ i.time - i.by.time <= TokenLife
    /\ \A i, j \in items : i.by = j.by => i = j

\* m_nTotalItems is the number of items, though it is counted in Store and in
\* Expire by ones: it decides whether a peer is stored at all (DataBase.cpp:55).
TotalExact == total = Cardinality(items)

\* A peer that announced itself is handed out for its ten minutes: its item goes
\* when they are over or when a newer one of the same peer takes its place, and
\* neither a full data base nor a refused announcement costs anybody his.  What
\* comes in is answered by the empty packet, never by an error
\* (DataBase.cpp:52-90, 141, FrontServer.cpp:837-886).
PeersLast ==
    /\ \A i \in items \ items' :
          \/ i \in Expired
          \/ \E j \in items' : /\ j.hash = i.hash /\ j.ip = i.ip /\ j.lport = i.lport
                               /\ j.time >= i.time
    /\ items' \subseteq items \/ reply'.says = "empty"

\* The data base, and how its items come and go.
ServerInv == ServerTypeOK /\ ItemsBacked /\ TotalExact
\* No step of the thread or of a sender takes out an item before its time.
ItemsLast == [][PeersLast]_serverVars
=============================================================================
