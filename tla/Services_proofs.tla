--------------------------- MODULE Services_proofs ---------------------------
(* The DHT node, for any nodes, keys, limits and lifetimes: the buckets of   *)
(* its routing table (KBucket), what it keeps for others (DhtServer) and     *)
(* what it asks of others (DhtQueries).  Then what a session gives, for any  *)
(* peers, pieces and limits: every request taken is answered for once, no    *)
(* piece follows a choke on the wire (Serving), and nobody is told too early *)
(* that the download is finished (Completion).                               *)
EXTENDS KBucket, DhtServer, DhtQueries, Completion, Serving, SequenceTheorems,
        FiniteSetTheorems, TLAPS

-----------------------------------------------------------------------------
(* Buckets.                                                                *)

\* RemoveAt closes the gap.
LEMMA RemovedAt ==
  ASSUME NEW T, NEW s \in Seq(T), NEW k \in 1 .. Len(s)
  PROVE /\ RemoveAt(s, k) \in Seq(T) /\ Len(RemoveAt(s, k)) = Len(s) - 1
        /\ DOMAIN RemoveAt(s, k) = 1 .. (Len(s) - 1)
        /\ \A i \in 1 .. (Len(s) - 1) :
                RemoveAt(s, k)[i] = IF i < k THEN s[i] ELSE s[i + 1]
<1> DEFINE f == SubSeq(s, 1, k - 1)
           g == SubSeq(s, k + 1, Len(s))
           r == RemoveAt(s, k)
<1>1. PICK n \in Nat : n = Len(s)
  OBVIOUS
<1>2. k \in Nat /\ k >= 1 /\ k <= n
  BY <1>1
<1>3. \A i \in 1 .. n : s[i] \in T
  BY <1>1
<1>4. /\ f \in Seq(T) /\ Len(f) = IF 1 <= k - 1 THEN (k - 1) - 1 + 1 ELSE 0
      /\ \A i \in 1 .. (k - 1) - 1 + 1 : f[i] = s[1 + i - 1]
  BY <1>1, <1>2, <1>3, SubSeqProperties
<1>5. /\ g \in Seq(T) /\ Len(g) = IF k + 1 <= n THEN n - (k + 1) + 1 ELSE 0
      /\ \A i \in 1 .. n - (k + 1) + 1 : g[i] = s[(k + 1) + i - 1]
  BY <1>1, <1>2, <1>3, SubSeqProperties
<1>6. r = f \o g
  BY DEF RemoveAt
<1> HIDE DEF f, g, r
<1>7. /\ f \o g \in Seq(T) /\ Len(f \o g) = Len(f) + Len(g)
      /\ \A i \in 1 .. Len(f) + Len(g) :
            (f \o g)[i] = IF i <= Len(f) THEN f[i] ELSE g[i - Len(f)]
  BY <1>4, <1>5, ConcatProperties
<1>8. Len(f) = k - 1
  BY <1>2, <1>4
<1>9. Len(g) = n - k
  <2>1. CASE k = n
    BY <1>2, <1>5, <2>1
  <2>2. CASE k # n
    <3>1. k + 1 <= n /\ n - (k + 1) + 1 = n - k
      BY <1>1, <1>2, <2>2
    <3> QED
      BY <1>5, <3>1
  <2> QED
    BY <2>1, <2>2
<1>10. r \in Seq(T) /\ Len(r) = n - 1
  <2>1. Len(f) + Len(g) = n - 1
    BY <1>2, <1>8, <1>9
  <2> QED
    BY <1>6, <1>7, <2>1
<1>11. ASSUME NEW i \in 1 .. (n - 1) PROVE r[i] = IF i < k THEN s[i] ELSE s[i + 1]
  <2>1. CASE i < k
    <3>1. i \in 1 .. (k - 1) - 1 + 1 /\ 1 + i - 1 = i /\ i <= Len(f) /\ i \in 1 .. Len(f) + Len(g)
      BY <1>1, <1>2, <1>8, <1>9, <2>1
    <3> QED
      BY <1>4, <1>6, <1>7, <2>1, <3>1
  <2>2. CASE ~(i < k)
    <3>1. /\ ~(i <= Len(f)) /\ i \in 1 .. Len(f) + Len(g)
          /\ i - Len(f) \in 1 .. n - (k + 1) + 1 /\ (k + 1) + (i - Len(f)) - 1 = i + 1
      BY <1>1, <1>2, <1>8, <1>9, <2>2
    <3>2. r[i] = g[i - Len(f)] /\ g[i - Len(f)] = s[(k + 1) + (i - Len(f)) - 1]
      BY <1>5, <1>6, <1>7, <3>1
    <3> QED
      BY <2>2, <3>1, <3>2
  <2> QED
    BY <2>1, <2>2
<1>12. DOMAIN r = 1 .. (n - 1)
  BY <1>10
<1> QED
  BY <1>1, <1>10, <1>11, <1>12 DEF r

\* No key stands in s twice.
OneKey(s) == \A i, j \in DOMAIN s : s[i].key = s[j].key => i = j

\* An entry goes, and what is left has its keys but one.
LEMMA Gone ==
  ASSUME NEW s \in Seq(Entries), NEW k \in DOMAIN s
  PROVE /\ RemoveAt(s, k) \in Seq(Entries) /\ Len(RemoveAt(s, k)) = Len(s) - 1
        /\ KeysIn(RemoveAt(s, k)) \subseteq KeysIn(s)
        /\ OneKey(s) => OneKey(RemoveAt(s, k)) /\ s[k].key \notin KeysIn(RemoveAt(s, k))
<1> DEFINE r == RemoveAt(s, k)
<1>1. PICK n \in Nat : n = Len(s) /\ DOMAIN s = 1 .. n
  OBVIOUS
<1>2. /\ r \in Seq(Entries) /\ Len(r) = n - 1 /\ DOMAIN r = 1 .. (n - 1)
      /\ \A i \in 1 .. (n - 1) : r[i] = IF i < k THEN s[i] ELSE s[i + 1]
  BY <1>1, RemovedAt
<1> HIDE DEF r
<1> DEFINE place(i) == IF i < k THEN i ELSE i + 1
<1>3. \A i \in 1 .. (n - 1) : place(i) \in 1 .. n /\ place(i) # k /\ r[i] = s[place(i)]
  BY <1>1, <1>2
<1>4. \A i, j \in 1 .. (n - 1) : place(i) = place(j) => i = j
  BY <1>1
<1> HIDE DEF place
<1>5. KeysIn(r) \subseteq KeysIn(s)
  BY <1>1, <1>2, <1>3 DEF KeysIn
<1>6. OneKey(s) => OneKey(r) /\ s[k].key \notin KeysIn(r)
  BY <1>1, <1>2, <1>3, <1>4 DEF OneKey, KeysIn
<1> QED
  BY <1>1, <1>2, <1>5, <1>6 DEF r

\* An entry is put at the end.
LEMMA PutLast ==
  ASSUME NEW s \in Seq(Entries), NEW e \in Entries
  PROVE /\ Append(s, e) \in Seq(Entries) /\ Len(Append(s, e)) = Len(s) + 1
        /\ OneKey(s) /\ e.key \notin KeysIn(s) => OneKey(Append(s, e))
<1>1. PICK n \in Nat : n = Len(s) /\ DOMAIN s = 1 .. n
  OBVIOUS
<1> DEFINE r == Append(s, e)
<1>2. /\ r \in Seq(Entries) /\ Len(r) = n + 1 /\ DOMAIN r = 1 .. (n + 1)
      /\ \A i \in 1 .. n : r[i] = s[i]
      /\ r[n + 1] = e
  BY <1>1
<1> HIDE DEF r
<1>3. ASSUME OneKey(s), e.key \notin KeysIn(s) PROVE OneKey(r)
  <2>1. SUFFICES ASSUME NEW i \in 1 .. (n + 1), NEW j \in 1 .. (n + 1), r[i].key = r[j].key
                 PROVE  i = j
    BY <1>2 DEF OneKey
  <2>2. \A l \in 1 .. n : r[l].key # e.key
    BY <1>1, <1>2, <1>3 DEF KeysIn
  <2>3. CASE i \in 1 .. n /\ j \in 1 .. n
    BY <1>1, <1>2, <1>3, <2>1, <2>3 DEF OneKey
  <2>4. i \in 1 .. n \/ i = n + 1
    BY <1>1
  <2>5. j \in 1 .. n \/ j = n + 1
    BY <1>1
  <2> QED
    BY <1>2, <2>1, <2>2, <2>3, <2>4, <2>5
<1> QED
  BY <1>1, <1>2, <1>3 DEF r

\* A node that is known gets a new entry for its old one.
LEMMA KnownKept ==
  ASSUME BucketInv, NEW k \in Keys, UpdateKnown(k)
  PROVE  BucketInv' /\ GrowsInRoom
<1>1. PICK i \in DOMAIN entries, e \in Copies(k) :
        FirstOf(k, i) /\ entries' = Append(RemoveAt(entries, i), e)
  BY DEF UpdateKnown
<1>2. UNCHANGED <<waiting, slot, twice>> /\ entries \in Seq(Entries)
  BY DEF UpdateKnown, BucketInv, BucketTypeOK
<1>3. e \in Entries /\ e.key = k /\ entries[i].key = k
  BY <1>1 DEF Copies, Fresh, FirstOf
<1>4. Len(entries) \in Nat
  BY <1>2
<1> DEFINE r == RemoveAt(entries, i)
<1>5. /\ r \in Seq(Entries) /\ Len(r) = Len(entries) - 1
      /\ OneKey(entries) => OneKey(r) /\ k \notin KeysIn(r)
  BY <1>2, <1>3, Gone
<1> HIDE DEF r
<1>6. /\ Append(r, e) \in Seq(Entries) /\ Len(Append(r, e)) = Len(r) + 1
      /\ OneKey(r) /\ k \notin KeysIn(r) => OneKey(Append(r, e))
  BY <1>3, <1>5, PutLast
<1>7. entries' = Append(r, e)
  BY <1>1 DEF r
<1>8. Len(entries') = Len(entries)
  BY <1>4, <1>5, <1>6, <1>7
<1> QED
  BY <1>2, <1>4, <1>5, <1>6, <1>7, <1>8
     DEF BucketInv, BucketTypeOK, OneEntry, OneKey, GrowsInRoom

\* A stranger gets in where there is room, or for a bad entry.
LEMMA StrangerIn ==
  ASSUME BucketInv, NEW k \in Keys, UpdateRoom(k) \/ UpdateReplace(k)
  PROVE  BucketInv' /\ GrowsInRoom
<1>1. PICK s \in Seq(Entries), e \in Copies(k) :
        /\ entries' = Append(s, e) /\ KeysIn(s) \subseteq KeysIn(entries)
        /\ OneKey(entries) => OneKey(s)
        /\ (s = entries /\ Len(entries) < slot) \/ Len(s) = Len(entries) - 1
  <2>1. CASE UpdateRoom(k)
    BY <2>1 DEF UpdateRoom, BucketInv, BucketTypeOK
  <2>2. CASE UpdateReplace(k)
    <3>1. PICK s \in CleanBadEntry, e \in Copies(k) : entries' = Append(s, e)
      BY <2>2 DEF UpdateReplace
    <3>2. PICK i \in DOMAIN entries : s = RemoveAt(entries, i)
      BY <3>1 DEF CleanBadEntry
    <3>3. entries \in Seq(Entries)
      BY DEF BucketInv, BucketTypeOK
    <3> QED
      BY <3>1, <3>2, <3>3, Gone
  <2> QED
    BY <2>1, <2>2
<1>2. /\ UNCHANGED <<waiting, slot, twice>> /\ k \notin KeysIn(entries)
      /\ entries \in Seq(Entries)
  BY DEF UpdateRoom, UpdateReplace, Stranger, IsContain, BucketInv, BucketTypeOK
<1>3. e \in Entries /\ e.key = k
  BY DEF Copies, Fresh
<1>4. /\ Append(s, e) \in Seq(Entries) /\ Len(Append(s, e)) = Len(s) + 1
      /\ OneKey(s) /\ k \notin KeysIn(s) => OneKey(Append(s, e))
  BY <1>3, PutLast
<1>5. Len(entries) \in Nat
  BY <1>2
<1>6. GrowsInRoom
  BY <1>1, <1>4, <1>5 DEF GrowsInRoom
<1> QED
  BY <1>1, <1>2, <1>4, <1>6 DEF BucketInv, BucketTypeOK, OneEntry, OneKey

\* A node that does not answer is marked, or its place goes to one that waits:
\* when that one has an entry already, `twice` is set.
LEMMA PlaceTaken ==
  ASSUME BucketInv, NEW k \in Keys, UpdateNoResponse(k)
  PROVE  BucketInv' /\ GrowsInRoom
<1>1. PICK i \in DOMAIN entries :
        /\ UNCHANGED slot
        /\ \/ /\ \E bad \in BOOLEAN : entries' = [entries EXCEPT ![i].bad = bad]
              /\ UNCHANGED <<waiting, twice>>
           \/ /\ waiting # <<>>
              /\ \E e \in Copies(Head(waiting)) : entries' = TakesPlace(i, e)
              /\ twice' = (twice \/ Head(waiting) \in KeysIn(RemoveAt(entries, i)))
              /\ waiting' = Tail(waiting)
  BY DEF UpdateNoResponse
<1>2. entries \in Seq(Entries) /\ waiting \in Seq(Keys) /\ twice \in BOOLEAN /\ slot \in Limits
  BY DEF BucketInv, BucketTypeOK
<1>3. PICK n \in Nat : n = Len(entries) /\ DOMAIN entries = 1 .. n
  BY <1>2
<1>4. ASSUME NEW bad \in BOOLEAN, entries' = [entries EXCEPT ![i].bad = bad],
             UNCHANGED <<waiting, twice>>
      PROVE  BucketInv' /\ GrowsInRoom
  <2>1. /\ entries' \in Seq(Entries) /\ DOMAIN entries' = 1 .. n /\ Len(entries') = n
        /\ \A j \in 1 .. n : entries'[j].key = entries[j].key
    <3>1. \A j \in 1 .. n : entries[j] \in Entries
      BY <1>2, <1>3
    <3>2. [entries[i] EXCEPT !.bad = bad] \in Entries
      BY <1>3, <3>1 DEF Entries
    <3>3. entries' = [entries EXCEPT ![i] = [entries[i] EXCEPT !.bad = bad]]
      BY <1>4
    <3>4. \A j \in 1 .. n : entries'[j] = IF j = i THEN [entries[i] EXCEPT !.bad = bad] ELSE entries[j]
      BY <1>3, <3>3
    <3>5. [entries[i] EXCEPT !.bad = bad].key = entries[i].key
      BY <1>3, <3>1 DEF Entries
    <3>6. entries' \in Seq(Entries) /\ DOMAIN entries' = 1 .. n /\ Len(entries') = n
      BY <1>2, <1>3, <3>2, <3>3
    <3> QED
      BY <3>4, <3>5, <3>6
  <2> QED
    BY <1>1, <1>2, <1>3, <1>4, <2>1 DEF BucketInv, BucketTypeOK, OneEntry, GrowsInRoom
<1>5. ASSUME waiting # <<>>, NEW e \in Copies(Head(waiting)), entries' = TakesPlace(i, e),
             twice' = (twice \/ Head(waiting) \in KeysIn(RemoveAt(entries, i))),
             waiting' = Tail(waiting)
      PROVE  BucketInv' /\ GrowsInRoom
  <2> DEFINE r == RemoveAt(entries, i)
  <2>1. Head(waiting) \in Keys /\ Tail(waiting) \in Seq(Keys)
    BY <1>2, <1>5
  <2>2. e \in Entries /\ e.key = Head(waiting)
    BY <1>5 DEF Copies, Fresh
  <2>3. r \in Seq(Entries) /\ Len(r) = n - 1 /\ (OneKey(entries) => OneKey(r))
    BY <1>2, <1>3, Gone
  <2>4. entries' = Append(r, e)
    BY <1>5 DEF TakesPlace
  <2>5. twice' = (twice \/ e.key \in KeysIn(r))
    BY <1>5, <2>2
  <2> HIDE DEF r
  <2>6. /\ Append(r, e) \in Seq(Entries) /\ Len(Append(r, e)) = Len(r) + 1
        /\ OneKey(r) /\ e.key \notin KeysIn(r) => OneKey(Append(r, e))
    BY <2>2, <2>3, PutLast
  <2>7. Len(entries') = Len(entries)
    BY <1>3, <2>3, <2>4, <2>6
  <2>8. OneEntry'
    BY <2>3, <2>4, <2>5, <2>6 DEF BucketInv, OneEntry, OneKey
  <2>9. twice' \in BOOLEAN
    BY <1>2, <2>5
  <2>10. BucketTypeOK'
    BY <1>1, <1>2, <1>5, <2>1, <2>4, <2>6, <2>9 DEF BucketTypeOK
  <2> QED
    BY <1>3, <2>7, <2>8, <2>10 DEF BucketInv, GrowsInRoom
<1> QED
  BY <1>1, <1>4, <1>5

\* The steps that add nothing.
LEMMA BucketAside ==
  ASSUME BucketAssumption, BucketInv,
         \/ \E k \in Keys : UpdateWait(k)
         \/ \E i \in DOMAIN entries : Ages(i)
         \/ NeedRefresh \/ IsSlotFull \/ SetSlotLimit \/ UNCHANGED bucketVars
  PROVE  BucketInv' /\ GrowsInRoom
<1>1. entries \in Seq(Entries) /\ waiting \in Seq(Keys) /\ twice \in BOOLEAN /\ slot \in Limits
  BY DEF BucketInv, BucketTypeOK
<1>2. PICK n \in Nat : n = Len(entries) /\ DOMAIN entries = 1 .. n
  BY <1>1
<1>3. ASSUME UNCHANGED <<entries, twice>>, waiting' \in Seq(Keys), slot' \in Limits
      PROVE  BucketInv' /\ GrowsInRoom
  BY <1>1, <1>2, <1>3 DEF BucketInv, BucketTypeOK, OneEntry, GrowsInRoom
<1>4. CASE \E k \in Keys : UpdateWait(k)
  <2>1. PICK k \in Keys : waiting' = Append(waiting, k) /\ UNCHANGED <<entries, slot, twice>>
    BY <1>4 DEF UpdateWait
  <2>2. waiting' \in Seq(Keys)
    BY <1>1, <2>1
  <2> QED
    BY <1>1, <1>3, <2>1, <2>2
<1>5. CASE \E i \in DOMAIN entries : Ages(i)
  <2>1. PICK i \in 1 .. n : /\ entries' = [entries EXCEPT ![i].old = TRUE]
                            /\ UNCHANGED <<waiting, slot, twice>>
    BY <1>2, <1>5 DEF Ages
  <2>2. \A j \in 1 .. n : entries[j] \in Entries
    BY <1>1, <1>2
  <2> DEFINE e == [entries[i] EXCEPT !.old = TRUE]
  <2>3. e \in Entries /\ e.key = entries[i].key
    BY <2>2 DEF Entries
  <2>4. entries' = [entries EXCEPT ![i] = e]
    BY <2>1
  <2> HIDE DEF e
  <2>5. entries' \in Seq(Entries) /\ DOMAIN entries' = 1 .. n /\ Len(entries') = n
    BY <1>1, <1>2, <2>3, <2>4
  <2>6. \A j \in 1 .. n : entries'[j].key = entries[j].key
    BY <1>2, <2>3, <2>4
  <2> QED
    BY <1>1, <1>2, <2>1, <2>5, <2>6 DEF BucketInv, BucketTypeOK, OneEntry, GrowsInRoom
<1>6. CASE NeedRefresh
  <2>1. PICK m \in 1 .. Len(waiting) : /\ waiting' = SubSeq(waiting, m + 1, Len(waiting))
                                       /\ UNCHANGED <<entries, slot, twice>>
    BY <1>6 DEF NeedRefresh
  <2>2. waiting' \in Seq(Keys)
    BY <1>1, <2>1
  <2> QED
    BY <1>1, <1>3, <2>1, <2>2
<1>7. CASE IsSlotFull
  <2>1. PICK i \in DOMAIN entries : entries' = RemoveAt(entries, i)
    BY <1>7 DEF IsSlotFull, CleanBadEntry
  <2>2. UNCHANGED <<waiting, slot, twice>>
    BY <1>7 DEF IsSlotFull
  <2>3. entries' \in Seq(Entries) /\ Len(entries') = n - 1 /\ (OneKey(entries) => OneKey(entries'))
    BY <1>1, <1>2, <2>1, Gone
  <2> QED
    BY <1>1, <1>2, <2>2, <2>3 DEF BucketInv, BucketTypeOK, OneEntry, OneKey, GrowsInRoom
<1>8. CASE SetSlotLimit
  BY <1>1, <1>3, <1>8 DEF SetSlotLimit
<1>9. CASE UNCHANGED bucketVars
  BY <1>1, <1>3, <1>9 DEF bucketVars
<1> QED
  BY <1>4, <1>5, <1>6, <1>7, <1>8, <1>9

LEMMA BucketStep ==
  ASSUME BucketAssumption, BucketInv, [BucketNext]_bucketVars
  PROVE  BucketInv' /\ GrowsInRoom
BY KnownKept, StrangerIn, PlaceTaken, BucketAside DEF BucketNext, Update

LEMMA BucketStart ==
  ASSUME BucketAssumption, BucketInit
  PROVE  BucketInv
<1>1. entries = <<>> /\ waiting = <<>> /\ slot \in Limits /\ twice = FALSE
  BY DEF BucketInit
<1>2. entries \in Seq(Entries) /\ waiting \in Seq(Keys) /\ DOMAIN entries = {}
  BY <1>1
<1> QED
  BY <1>1, <1>2 DEF BucketInv, BucketTypeOK, OneEntry

\* A node has one entry in its bucket, unless one that waited took a place while it
\* had one already, for any keys and limits (KBucket.cpp:207).
THEOREM OnePlaceEach ==
  ASSUME BucketAssumption
  PROVE  BucketSpec => []BucketInv
<1>1. BucketInit => BucketInv
  BY BucketStart
<1>2. BucketInv /\ [BucketNext]_bucketVars => BucketInv'
  BY BucketStep
<1> QED
  BY <1>1, <1>2, PTL DEF BucketSpec

\* A bucket grows only while it has room, be its limit lowered or raised meanwhile
\* (KBucket.cpp:78 and 206).
THEOREM GrowsWithRoom ==
  ASSUME BucketAssumption
  PROVE  BucketSpec => BucketGrows
<1>1. BucketInit => BucketInv
  BY BucketStart
<1>2. BucketInv /\ [BucketNext]_bucketVars => BucketInv' /\ [GrowsInRoom]_bucketVars
  BY BucketStep
<1> QED
  BY <1>1, <1>2, PTL DEF BucketSpec, BucketGrows

-----------------------------------------------------------------------------
(* What the node keeps for others.                                         *)

\* A token is young and is no item's any more.
TokensFresh ==
    \A t \in tokens :
        /\ t.time <= clock /\ clock - t.time <= TokenLife
        /\ \A i \in items : i.by # t

StoreInv == ServerInv /\ TokensFresh

\* Nothing is stored and no token is made: an answer, or the tokens that grow old.
LEMMA StoreSame ==
  ASSUME StoreInv, UNCHANGED <<clock, items, total>>, tokens' \subseteq tokens,
         asServer' \in BOOLEAN, known' \subseteq Ips, reply'.says \in Says
  PROVE  StoreInv'
BY DEF StoreInv, ServerInv, ServerTypeOK, ItemsBacked, TotalExact, TokensFresh

\* It is one of the answers.
Harmless == reply'.says \in Says

LEMMA HarmlessSays ==
  ASSUME NEW what, NEW S, SendResponsePacket(what, S), what \in Says
  PROVE  Harmless
BY DEF SendResponsePacket, Harmless

LEMMA HarmlessErrors ==
  ASSUME \/ ResponseError("no_argument") \/ ResponseError("no_method")
         \/ ResponseError("no_node") \/ ResponseError("no_service")
         \/ ResponseError("bad_token") \/ ResponseError("not_stored")
  PROVE  Harmless
<1>1. /\ "no_argument" \in Says /\ "no_method" \in Says /\ "no_node" \in Says
      /\ "no_service" \in Says /\ "bad_token" \in Says /\ "not_stored" \in Says
  BY DEF Says
<1> QED
  BY <1>1, HarmlessSays DEF ResponseError

LEMMA HarmlessReplies ==
  ASSUME \/ ResponsePing \/ ResponseFindNode
         \/ \E h \in Infohashes : GetPeersReply(h)
  PROVE  Harmless
<1>1. "pong" \in Says /\ "entry" \in Says /\ "nodes" \in Says /\ "values" \in Says
  BY DEF Says
<1>2. CASE ResponsePing
  BY <1>1, <1>2, HarmlessSays DEF ResponsePing
<1>3. CASE ResponseFindNode
  BY <1>1, <1>3, HarmlessSays, HarmlessErrors DEF ResponseFindNode, FindNodeReply
<1>4. CASE \E h \in Infohashes : GetPeersReply(h)
  BY <1>1, <1>4, HarmlessSays, HarmlessErrors DEF GetPeersReply
<1> QED
  BY <1>2, <1>3, <1>4

\* A step that says nothing of importance and stores nothing.
LEMMA StoreQuiet ==
  ASSUME StoreInv, Harmless, UNCHANGED <<clock, items, total>>, tokens' \subseteq tokens,
         asServer' \in BOOLEAN, known' \subseteq Ips
  PROVE  StoreInv' /\ PeersLast
BY StoreSame DEF Harmless, PeersLast

\* A request that stores nothing; get_peers makes one token.
LEMMA Asked ==
  ASSUME ServerAssumption, StoreInv,
         NEW ip \in Ips, NEW port \in Ports, NEW h \in Infohashes,
         ResponseGetPeers(ip, port, h), UpdateForRequest(ip), UNCHANGED <<clock, asServer>>
  PROVE  StoreInv' /\ PeersLast
<1> DEFINE g == GenToken(ip, port)
<1>1. /\ g \notin {i.by : i \in items} /\ tokens' = tokens \cup {g}
      /\ UNCHANGED <<items, total>> /\ GetPeersReply(h)
  BY DEF ResponseGetPeers
<1>2. g \in Tokens /\ g.time = clock /\ clock \in Nat
  BY DEF GenToken, Tokens, StoreInv, ServerInv, ServerTypeOK
<1>3. reply'.says \in Says
  BY <1>1, HarmlessReplies DEF Harmless
<1>4. known' \subseteq Ips
  BY DEF UpdateForRequest, StoreInv, ServerInv, ServerTypeOK
<1> HIDE DEF g
<1>5. TokensFresh'
  <2>1. clock' = clock /\ clock - clock <= TokenLife
    BY <1>2 DEF ServerAssumption
  <2>2. ASSUME NEW t \in tokens'
        PROVE  t.time <= clock /\ clock - t.time <= TokenLife /\ \A i \in items : i.by # t
    BY <1>1, <1>2, <2>1, <2>2 DEF StoreInv, TokensFresh
  <2> QED
    BY <1>1, <2>1, <2>2 DEF TokensFresh
<1> QED
  BY <1>1, <1>2, <1>3, <1>4, <1>5
     DEF StoreInv, ServerInv, ServerTypeOK, ItemsBacked, TotalExact, PeersLast

\* An announcement with a good token, for which there is room.
LEMMA Stored ==
  ASSUME ServerAssumption, StoreInv,
         NEW ip \in Ips, NEW port \in Ports, NEW h \in Infohashes, NEW lport \in Ports,
         NEW t, CheckToken(t, ip, port), tokens' = tokens \ {t},
         UNCHANGED <<clock, asServer>>, known' \subseteq Ips,
         items' = (items \ Same(h, ip, lport)) \cup
                    {[hash |-> h, ip |-> ip, lport |-> lport, time |-> clock, by |-> t]},
         total' = Counted(h, ip, lport), reply'.says \in Says, reply'.says = "empty"
  PROVE  StoreInv' /\ PeersLast
<1> DEFINE n == [hash |-> h, ip |-> ip, lport |-> lport, time |-> clock, by |-> t]
           S == Same(h, ip, lport)
<1>1. /\ n.hash = h /\ n.ip = ip /\ n.lport = lport /\ n.time = clock /\ n.by = t
      /\ items' = (items \ S) \cup {n} /\ n \notin items \ S /\ S \subseteq items
  BY DEF Same
<1>2. t \in tokens /\ t.ip = ip /\ t \in Tokens /\ clock \in Nat /\ IsFiniteSet(items)
  BY DEF CheckToken, StoreInv, ServerInv, ServerTypeOK
<1>3. total = Cardinality(items) /\ total' = total - Cardinality(S) + 1
  BY DEF StoreInv, ServerInv, TotalExact, Counted
<1> HIDE DEF n, S
<1>4. IsFiniteSet(items') /\ total' = Cardinality(items') /\ total' \in Nat
  <2>1. IsFiniteSet(S) /\ Cardinality(S) \in Nat
    BY <1>1, <1>2, FS_Subset, FS_CardinalityType
  <2>2. IsFiniteSet(items \ S) /\ items \cap S = S
    BY <1>1, <1>2, FS_Subset
  <2>3. Cardinality(items \ S) = Cardinality(items) - Cardinality(S)
    BY <1>2, <2>1, <2>2, FS_Difference
  <2>4. Cardinality(items') = Cardinality(items \ S) + 1 /\ IsFiniteSet(items')
    <3>1. PICK R : R = items \ S
      OBVIOUS
    <3>2. IsFiniteSet(R) /\ n \notin R /\ items' = R \cup {n}
      BY <1>1, <2>2, <3>1
    <3> QED
      BY <3>1, <3>2, FS_AddElement
  <2>5. Cardinality(items') \in Nat
    BY <2>4, FS_CardinalityType
  <2>6. Cardinality(items) \in Nat
    BY <1>2, FS_CardinalityType
  <2> QED
    BY <1>3, <2>1, <2>3, <2>4, <2>5, <2>6
<1>5. /\ t.time <= clock /\ clock - t.time <= TokenLife
      /\ \A i \in items : i.by # t
  BY <1>2 DEF StoreInv, TokensFresh
<1>6. ItemsBacked'
  BY <1>1, <1>2, <1>5 DEF StoreInv, ServerInv, ItemsBacked
<1>7. TokensFresh'
  BY <1>1, <1>5 DEF StoreInv, TokensFresh
<1>8. ServerTypeOK'
  <2>1. \A i \in items' : i.hash \in Infohashes /\ i.ip \in Ips /\ i.by \in Tokens /\ i.time \in 0..clock
    BY <1>1, <1>2 DEF StoreInv, ServerInv, ServerTypeOK
  <2> QED
    BY <1>2, <1>4, <2>1 DEF StoreInv, ServerInv, ServerTypeOK
<1>9. PeersLast
  <2>1. ASSUME NEW i \in items \ items'
        PROVE  i.hash = n.hash /\ i.ip = n.ip /\ i.lport = n.lport /\ n.time >= i.time
    <3>1. i \in S /\ i \in items
      BY <1>1, <2>1
    <3>2. i.hash = h /\ i.ip = ip /\ i.lport = lport
      BY <3>1 DEF S, Same
    <3>3. i.time \in 0..clock
      BY <3>1 DEF StoreInv, ServerInv, ServerTypeOK
    <3> QED
      BY <1>1, <1>2, <3>2, <3>3
  <2>2. n \in items'
    BY <1>1
  <2> QED
    BY <2>1, <2>2 DEF PeersLast
<1> QED
  BY <1>4, <1>6, <1>7, <1>8, <1>9 DEF StoreInv, ServerInv, TotalExact

\* Any announcement.
LEMMA Announced ==
  ASSUME ServerAssumption, StoreInv,
         NEW ip \in Ips, NEW port \in Ports, NEW h \in Infohashes,
         ResponseAnnouncePeers(ip, port, h), UpdateForRequest(ip), UNCHANGED <<clock, asServer>>
  PROVE  StoreInv' /\ PeersLast
<1>1. known' \subseteq Ips /\ asServer' \in BOOLEAN
  BY DEF UpdateForRequest, StoreInv, ServerInv, ServerTypeOK
<1>2. CASE Harmless /\ UNCHANGED <<items, total>> /\ tokens' \subseteq tokens
  BY <1>1, <1>2, StoreQuiet
<1>3. CASE ResponseError("no_argument") /\ UNCHANGED store
  BY <1>2, <1>3, HarmlessErrors DEF store
<1>4. ASSUME NEW t \in Tokens, NEW lport \in Ports, DoPeerAnnounceTask(ip, port, t, h, lport)
      PROVE  StoreInv' /\ PeersLast
  <2>1. CASE (ResponseError("no_service") \/ ResponseError("bad_token")) /\ UNCHANGED store
    BY <1>2, <2>1, HarmlessErrors DEF store
  <2>2. CASE CheckToken(t, ip, port) /\ tokens' = tokens \ {t} /\ Store(h, ip, lport, t)
    <3>1. CASE StoreRefused(h, ip, lport)
      BY <1>2, <2>2, <3>1, HarmlessErrors DEF StoreRefused
    <3>2. CASE ~StoreRefused(h, ip, lport)
      <4>1. /\ items' = (items \ Same(h, ip, lport)) \cup
                    {[hash |-> h, ip |-> ip, lport |-> lport, time |-> clock, by |-> t]}
            /\ total' = Counted(h, ip, lport) /\ SendResponsePacket("empty", {})
        BY <2>2, <3>2 DEF Store
      <4>2. reply'.says \in Says /\ reply'.says = "empty"
        BY <4>1 DEF SendResponsePacket, Says
      <4> QED
        BY <1>1, <2>2, <4>1, <4>2, Stored
    <3> QED
      BY <3>1, <3>2
  <2> QED
    BY <1>4, <2>1, <2>2 DEF DoPeerAnnounceTask
<1> QED
  BY <1>3, <1>4 DEF ResponseAnnouncePeers

\* Items and tokens expire on one timer.
LEMMA Expiry ==
  ASSUME ServerAssumption, StoreInv, ExpireTimer
  PROVE  StoreInv' /\ PeersLast
<1>1. /\ clock' = clock + 1 /\ clock' \in 0..MaxClock /\ clock \in Nat
      /\ items' = items \ Expired /\ total' = total - Cardinality(Expired)
      /\ tokens' = {t \in tokens : Kept(t)}
      /\ reply' = Silence /\ UNCHANGED <<asServer, known>>
  BY DEF ExpireTimer, StoreInv, ServerInv, ServerTypeOK, ServerAssumption
<1>2. Expired \subseteq items /\ IsFiniteSet(items) /\ total = Cardinality(items)
  BY DEF Expired, StoreInv, ServerInv, ServerTypeOK, TotalExact
<1>3. IsFiniteSet(items') /\ total' = Cardinality(items') /\ total' \in Nat
  <2>1. PICK E : E = Expired
    OBVIOUS
  <2>2. IsFiniteSet(E) /\ Cardinality(E) \in Nat /\ items \cap E = E
    BY <1>2, <2>1, FS_Subset, FS_CardinalityType
  <2>3. IsFiniteSet(items \ E) /\ Cardinality(items \ E) = Cardinality(items) - Cardinality(E)
    BY <1>2, <2>2, FS_Difference
  <2> QED
    BY <1>1, <1>2, <2>1, <2>3, FS_CardinalityType
<1>4. TokensFresh'
  <2>1. ASSUME NEW t \in tokens'
        PROVE  t.time <= clock' /\ clock' - t.time <= TokenLife /\ \A i \in items' : i.by # t
    <3>1. t \in tokens /\ clock' - t.time <= TokenLife
      BY <1>1 DEF Kept
    <3>2. t \in Tokens /\ t.time <= clock
      BY <3>1 DEF StoreInv, ServerInv, ServerTypeOK, TokensFresh
    <3>3. t.time <= clock'
      BY <1>1, <3>2 DEF Tokens
    <3> QED
      BY <1>1, <3>1, <3>3 DEF StoreInv, TokensFresh
  <2> QED
    BY <2>1 DEF TokensFresh
<1>5. reply'.says \in Says
  BY <1>1 DEF Silence, Says
<1>6. ServerTypeOK'
  BY <1>1, <1>2, <1>3, <1>5 DEF StoreInv, ServerInv, ServerTypeOK
<1>7. ItemsBacked'
  BY <1>1 DEF StoreInv, ServerInv, ItemsBacked
<1>8. PeersLast
  <2>1. items' \subseteq items /\ \A i \in items \ items' : i \in Expired
    BY <1>1
  <2> QED
    BY <2>1 DEF PeersLast
<1> QED
  BY <1>3, <1>4, <1>6, <1>7, <1>8 DEF StoreInv, ServerInv, TotalExact

\* A request.
LEMMA Requested ==
  ASSUME ServerAssumption, StoreInv,
         NEW ip \in Ips, NEW port \in Ports, NEW h \in Infohashes, OnRequest(ip, port, h)
  PROVE  StoreInv' /\ PeersLast
<1>1. UNCHANGED <<clock, asServer>>
  BY DEF OnRequest
<1>2. asServer \in BOOLEAN /\ known \subseteq Ips
  BY DEF StoreInv, ServerInv, ServerTypeOK
<1>3. CASE (ResponsePing \/ ResponseFindNode) /\ UpdateForRequest(ip)
  <2>1. UNCHANGED store /\ Harmless
    BY <1>3, HarmlessReplies DEF ResponsePing, ResponseFindNode
  <2>2. known' \subseteq Ips
    BY <1>2, <1>3 DEF UpdateForRequest
  <2> QED
    BY <1>1, <1>2, <2>1, <2>2, StoreQuiet DEF store
<1>4. CASE (ResponseError("no_argument") \/ ResponseError("no_method")) /\ UNCHANGED <<store, known>>
  <2>1. Harmless
    BY <1>4, HarmlessErrors
  <2> QED
    BY <1>1, <1>2, <1>4, <2>1, StoreQuiet DEF store
<1>5. CASE ResponseGetPeers(ip, port, h) /\ UpdateForRequest(ip)
  BY <1>1, <1>5, Asked
<1>6. CASE ResponseAnnouncePeers(ip, port, h) /\ UpdateForRequest(ip)
  BY <1>1, <1>6, Announced
<1> QED
  BY <1>3, <1>4, <1>5, <1>6 DEF OnRequest

\* The steps that leave the store alone.
LEMMA ServerAside ==
  ASSUME StoreInv, (\E ip \in known : Forget(ip)) \/ SetOptions \/ UNCHANGED serverVars
  PROVE  StoreInv' /\ (PeersLast \/ UNCHANGED serverVars)
<1>1. UNCHANGED store /\ UNCHANGED clock /\ UNCHANGED reply
  BY DEF Forget, SetOptions, serverVars
<1>2. known' \subseteq Ips /\ asServer' \in BOOLEAN
  BY DEF Forget, SetOptions, serverVars, StoreInv, ServerInv, ServerTypeOK
<1>3. reply'.says \in Says
  BY <1>1 DEF StoreInv, ServerInv, ServerTypeOK
<1>4. StoreInv'
  BY <1>1, <1>2, <1>3, StoreSame DEF store
<1> QED
  BY <1>1, <1>4 DEF store, PeersLast

LEMMA ServerStep ==
  ASSUME ServerAssumption, StoreInv, [ServerNext]_serverVars
  PROVE  StoreInv' /\ [PeersLast]_serverVars
<1>1. CASE \E ip \in Ips, port \in Ports, h \in Infohashes : OnRequest(ip, port, h)
  BY <1>1, Requested
<1>2. CASE (\E ip \in known : Forget(ip)) \/ SetOptions \/ UNCHANGED serverVars
  BY <1>2, ServerAside
<1>3. CASE ExpireTimer
  BY <1>3, Expiry
<1> QED
  BY <1>1, <1>2, <1>3 DEF ServerNext

LEMMA ServerStart ==
  ASSUME ServerAssumption, ServerInit
  PROVE  StoreInv
<1>1. IsFiniteSet({}) /\ Cardinality({}) = 0
  BY FS_EmptySet
<1> QED
  BY <1>1 DEF ServerInit, StoreInv, ServerInv, ServerTypeOK, ItemsBacked, TotalExact,
              TokensFresh, Silence, Says, ServerAssumption

\* Who is handed out as a peer used a token of its own, once and in time, and the
\* items are counted right, for any lifetimes and limits (DataBase.cpp:52-235).
THEOREM StoreBacked ==
  ASSUME ServerAssumption
  PROVE  ServerSpec => []ServerInv
<1>1. ServerInit => StoreInv
  BY ServerStart
<1>2. StoreInv /\ [ServerNext]_serverVars => StoreInv'
  BY ServerStep
<1>3. StoreInv => ServerInv
  BY DEF StoreInv
<1> QED
  BY <1>1, <1>2, <1>3, PTL DEF ServerSpec

\* Who announced itself is handed out until its time is over or it announces itself
\* again, however full the data base is, for any lifetimes and limits
\* (DataBase.cpp:52-172).
THEOREM StoredStays ==
  ASSUME ServerAssumption
  PROVE  ServerSpec => ItemsLast
<1>1. ServerInit => StoreInv
  BY ServerStart
<1>2. StoreInv /\ [ServerNext]_serverVars => StoreInv' /\ [PeersLast]_serverVars
  BY ServerStep
<1> QED
  BY <1>1, <1>2, PTL DEF ServerSpec, ItemsLast

-----------------------------------------------------------------------------
(* Queries.                                                                *)

\* Copies of e in a bag.
CountIn(e, B) == IF BagIn(e, B) THEN B[e] ELSE 0

\* One more of each element of S.
LEMMA BagAdds ==
  ASSUME NEW B, IsABag(B), NEW S
  PROVE  /\ IsABag(B (+) SetToBag(S))
         /\ BagToSet(B (+) SetToBag(S)) = BagToSet(B) \cup S
         /\ \A e : CountIn(e, B (+) SetToBag(S)) =
                    CountIn(e, B) + (IF e \in S THEN 1 ELSE 0)
<1> DEFINE sum == B (+) SetToBag(S)
           val(e) == (IF e \in DOMAIN B THEN B[e] ELSE 0) + (IF e \in S THEN 1 ELSE 0)
<1>1. sum = [e \in DOMAIN B \cup S |-> val(e)]
  BY DEF (+), SetToBag
<1>2. \A e \in DOMAIN B : B[e] \in Nat /\ B[e] > 0
  BY DEF IsABag
<1>3. \A e \in DOMAIN B \cup S : val(e) \in Nat /\ val(e) > 0
  BY <1>2
<1>4. \A e : e \notin DOMAIN B \cup S => val(e) = 0
  OBVIOUS
<1>5. IsABag(sum) /\ DOMAIN sum = DOMAIN B \cup S
  <2> HIDE DEF val
  <2> QED
    BY <1>1, <1>3 DEF IsABag
<1>6. \A e : CountIn(e, sum) = val(e)
  <2> HIDE DEF val, sum
  <2> QED
    BY <1>1, <1>4 DEF CountIn, BagIn, BagToSet
<1>7. \A e : CountIn(e, B) = IF e \in DOMAIN B THEN B[e] ELSE 0
  BY DEF CountIn, BagIn, BagToSet
<1> HIDE DEF sum
<1> QED
  BY <1>5, <1>6, <1>7 DEF BagToSet, sum

\* One less of r.
LEMMA BagLoses ==
  ASSUME NEW B, IsABag(B), NEW r
  PROVE  /\ IsABag(B (-) SetToBag({r}))
         /\ BagToSet(B (-) SetToBag({r})) \subseteq BagToSet(B)
         /\ \A e : CountIn(e, B (-) SetToBag({r})) <= CountIn(e, B)
<1> DEFINE less == [e \in DOMAIN B |-> IF e = r THEN B[e] - 1 ELSE B[e]]
           rest == B (-) SetToBag({r})
<1>1. rest = [e \in {d \in DOMAIN less : less[d] > 0} |-> less[e]]
  BY DEF (-), SetToBag
<1>2. \A e \in DOMAIN B : B[e] \in Nat /\ B[e] > 0
  BY DEF IsABag
<1>3. DOMAIN less = DOMAIN B /\ \A e \in DOMAIN B : less[e] \in Int /\ less[e] <= B[e]
  BY <1>2
<1> HIDE DEF less, rest
<1>4. DOMAIN rest \subseteq DOMAIN B /\ \A e \in DOMAIN rest : rest[e] = less[e] /\ less[e] > 0
  BY <1>1, <1>3
<1>5. IsABag(rest)
  <2>1. \A e \in DOMAIN rest : rest[e] \in {k \in Nat : k > 0}
    BY <1>3, <1>4
  <2>2. rest = [e \in DOMAIN rest |-> rest[e]]
    BY <1>1
  <2> QED
    BY <2>1, <2>2 DEF IsABag
<1>6. \A e : CountIn(e, rest) <= CountIn(e, B)
  BY <1>2, <1>3, <1>4 DEF CountIn, BagIn, BagToSet
<1> QED
  BY <1>4, <1>5, <1>6 DEF BagToSet, rest

\* Requests of a search name the search, the others none.
Targeted(r) ==
    IF r.type \in {"get", "announce"} THEN r.target \in Hashes ELSE r.target = NoKey

\* What is to be sent, and the searches it is sent for.
QueueInv ==
    /\ tasks \in [Hashes -> {"none", "get", "announce"}]
    /\ removing \in Hashes \cup {NoKey}
    /\ boot \subseteq Nodes /\ booted \subseteq Nodes /\ pool \subseteq Nodes
    /\ values \subseteq Hashes
    /\ IsABag(queue) /\ BagToSet(queue) \subseteq Requests /\ follow \subseteq Requests
    /\ \A r \in BagToSet(queue) \cup follow : Targeted(r)
    /\ \A r \in follow : r.type = "get"
    /\ NoAnnounceAfterRemove

\* What was sent: its numbers tell the requests of one address apart, and an answer
\* carries those of its request.
SentInv ==
    /\ sent \in 0..MaxSent /\ mixed = FALSE
    /\ pending \subseteq [type : Types, dest : Nodes, key : Nodes \cup {NoKey},
                           target : Hashes \cup {NoKey}, sid : Sids, no : Nat]
    /\ net \subseteq [from : Nodes, sid : Sids, no : Nat]
    /\ \A p \in pending : p.no < sent /\ Targeted(p)
    /\ \A m \in net : m.no < sent
    /\ \A p, q \in pending : p.no = q.no => p = q
    /\ \A p, q \in pending : IpOf[p.dest] = IpOf[q.dest] /\ p.sid = q.sid => p = q
    /\ \A m \in net, q \in pending : m.no = q.no => q.dest = m.from /\ q.sid = m.sid

\* What a step asks for: it is well formed, and no removed search asks.
AskedWell(S) ==
    \A r \in S : /\ r \in Requests /\ Targeted(r)
                 /\ r.target \in Hashes => tasks[r.target] # "none"

\* Requests that are asked for join the queue.
LEMMA QueueGrows ==
  ASSUME QueueInv, NEW S, AskedWell(S), queue' = queue (+) SetToBag(S), UNCHANGED user
  PROVE  /\ IsABag(queue') /\ BagToSet(queue') = BagToSet(queue) \cup S
         /\ BagToSet(queue') \subseteq Requests
         /\ \A r \in BagToSet(queue') : Targeted(r)
         /\ NoAnnounceAfterRemove'
         /\ \A r : CountIn(r, queue') = CountIn(r, queue) + (IF r \in S THEN 1 ELSE 0)
<1>1. IsABag(queue)
  BY DEF QueueInv
<1>2. /\ IsABag(queue') /\ BagToSet(queue') = BagToSet(queue) \cup S
      /\ \A r : CountIn(r, queue') = CountIn(r, queue) + (IF r \in S THEN 1 ELSE 0)
  BY <1>1, BagAdds
<1>3. \A r \in BagToSet(queue') : r \in Requests /\ Targeted(r)
  BY <1>2 DEF QueueInv, AskedWell
<1>4. ASSUME NEW r \in BagToSet(queue'), r.type = "announce"
      PROVE  tasks'[r.target] # "none" \/ removing' = r.target
  <2>1. r.target \in Hashes
    BY <1>3, <1>4 DEF Targeted
  <2> QED
    BY <1>2, <1>4, <2>1 DEF QueueInv, NoAnnounceAfterRemove, AskedWell, user
<1> QED
  BY <1>2, <1>3, <1>4 DEF NoAnnounceAfterRemove

\* A search that was removed gets no request by it.
LEMMA AskedDiesOut ==
  ASSUME QueueInv, NEW S, AskedWell(S), queue' = queue (+) SetToBag(S),
         UNCHANGED <<user, follow>>
  PROVE  DiesOut
<1>1. IsABag(queue)
  BY DEF QueueInv
<1>2. /\ BagToSet(queue') = BagToSet(queue) \cup S
      /\ \A r : CountIn(r, queue') = CountIn(r, queue) + (IF r \in S THEN 1 ELSE 0)
  BY <1>1, BagAdds
<1>3. \A r : CountIn(r, queue) \in Nat
  BY <1>1 DEF CountIn, BagIn, BagToSet, IsABag
<1>4. ASSUME NEW r \in BagToSet(queue') \cup follow',
             r.target # NoKey, tasks[r.target] = "none"
      PROVE  Waiting(r)' <= Waiting(r)
  <2>1. r \in Requests
    BY <1>2 DEF QueueInv, AskedWell
  <2>2. r \notin S
    BY <1>4, <2>1 DEF Requests, AskedWell
  <2>3. CountIn(r, queue') = CountIn(r, queue)
    BY <1>2, <1>3, <2>2
  <2> QED
    BY <1>3, <2>3 DEF Waiting, CountIn
<1> QED
  BY <1>4 DEF DiesOut

\* The queue has no more of anything, and nothing new follows.
LEMMA FewerDiesOut ==
  ASSUME QueueInv, IsABag(queue'), follow' \subseteq follow,
         \A r : CountIn(r, queue') <= CountIn(r, queue)
  PROVE  DiesOut
<1>1. \A r : CountIn(r, queue) \in Nat /\ CountIn(r, queue') \in Nat
  BY DEF CountIn, BagIn, BagToSet, IsABag, QueueInv
<1>2. \A r : Waiting(r)' <= Waiting(r)
  BY <1>1 DEF Waiting, CountIn
<1> QED
  BY <1>2 DEF DiesOut

\* Nothing is asked.
LEMMA QueueQuiet ==
  ASSUME QueueInv, UNCHANGED <<user, start, queue, follow>>,
         pool' \subseteq Nodes, values' \subseteq Hashes
  PROVE  QueueInv' /\ DiesOut
<1>1. QueueInv'
  BY DEF QueueInv, NoAnnounceAfterRemove, user, start
<1>2. \A r : CountIn(r, queue) \in Nat
  BY DEF CountIn, BagIn, BagToSet, IsABag, QueueInv
<1>3. IsABag(queue') /\ follow' \subseteq follow /\ \A r : CountIn(r, queue') <= CountIn(r, queue)
  BY <1>2 DEF QueueInv
<1> QED
  BY <1>1, <1>3, FewerDiesOut

\* Requests are asked and nothing follows.
LEMMA QueueAsked ==
  ASSUME QueueInv, NEW S, AskedWell(S), DoRequest(S), UNCHANGED <<user, follow>>,
         boot' \subseteq Nodes, booted' \subseteq Nodes,
         pool' \subseteq Nodes, values' \subseteq Hashes
  PROVE  QueueInv' /\ DiesOut
<1>1. queue' = queue (+) SetToBag(S)
  BY DEF DoRequest
<1>2. /\ IsABag(queue') /\ BagToSet(queue') \subseteq Requests
      /\ \A r \in BagToSet(queue') : Targeted(r)
      /\ NoAnnounceAfterRemove'
  BY <1>1, QueueGrows
<1>3. DiesOut
  BY <1>1, AskedDiesOut
<1>4. QueueInv'
  BY <1>2 DEF QueueInv, user, Targeted
<1> QED
  BY <1>3, <1>4

-----------------------------------------------------------------------------
(* What was sent.                                                          *)

\* Nothing is sent, requests are given up, answers lost.
LEMMA SentShrinks ==
  ASSUME SentInv, pending' \subseteq pending, net' \subseteq net, UNCHANGED <<sent, mixed>>
  PROVE  SentInv'
BY DEF SentInv, Targeted

\* The answer that meets a request is the answer to it, if its own still waits.
LEMMA AnswerMeets ==
  ASSUME SentInv, NEW m \in net, NEW p \in pending, Meets(m, p), UNCHANGED sent
  PROVE  SentInv'
<1>1. ASSUME p.no # m.no, NEW q \in pending, q.no = m.no
      PROVE  FALSE
  <2>1. q.dest = m.from /\ q.sid = m.sid
    BY <1>1 DEF SentInv
  <2>2. IpOf[p.dest] = IpOf[q.dest] /\ p.sid = q.sid
    BY <2>1 DEF Meets, Matches
  <2> QED
    BY <1>1, <2>2 DEF SentInv
<1>2. mixed' = mixed
  BY <1>1 DEF Meets, SentInv
<1>3. pending' \subseteq pending /\ net' \subseteq net
  BY DEF Meets
<1> QED
  BY <1>2, <1>3, SentShrinks

\* A node answers a request that waits.
LEMMA AnswerSent ==
  ASSUME SentInv, NEW p \in pending, NodeAnswers(p)
  PROVE  SentInv'
<1> DEFINE m == [from |-> p.dest, sid |-> p.sid, no |-> p.no]
<1>1. net' = net \cup {m} /\ UNCHANGED <<pending, sent, mixed>>
  BY DEF NodeAnswers
<1>2. m \in [from : Nodes, sid : Sids, no : Nat] /\ m.no < sent
  BY DEF SentInv
<1>3. \A q \in pending : m.no = q.no => q.dest = m.from /\ q.sid = m.sid
  BY DEF SentInv
<1> QED
  BY <1>1, <1>2, <1>3 DEF SentInv, Targeted

\* A request is sent under a number that is free at its address.
LEMMA RequestSent ==
  ASSUME DhtAssumption, SentInv, NEW r \in Requests, Targeted(r), NEW s \in Free(r), sent < MaxSent,
         sent' = sent + 1,
         pending' = pending \cup {[type |-> r.type, dest |-> r.dest, key |-> r.key,
                                   target |-> r.target, sid |-> s, no |-> sent]},
         UNCHANGED <<net, mixed>>
  PROVE  SentInv'
<1> DEFINE n == [type |-> r.type, dest |-> r.dest, key |-> r.key,
                 target |-> r.target, sid |-> s, no |-> sent]
<1>1. sent \in Nat /\ sent' \in 0..MaxSent /\ MaxSent \in Nat
  BY DEF SentInv, DhtAssumption
<1>2. s \in Sids /\ \A q \in pending : IpOf[q.dest] = IpOf[r.dest] => q.sid # s
  BY DEF Free, Used
<1>3. n \in [type : Types, dest : Nodes, key : Nodes \cup {NoKey},
              target : Hashes \cup {NoKey}, sid : Sids, no : Nat]
  BY <1>1, <1>2 DEF Requests
<1>4. n.no = sent /\ n.dest = r.dest /\ n.sid = s /\ Targeted(n)
  BY DEF Targeted
<1>5. pending' = pending \cup {n}
  OBVIOUS
<1> HIDE DEF n
<1>6. pending' \subseteq [type : Types, dest : Nodes, key : Nodes \cup {NoKey},
                          target : Hashes \cup {NoKey}, sid : Sids, no : Nat]
  BY <1>3, <1>5 DEF SentInv
<1>7. \A p \in pending : p.no \in Nat /\ p.no < sent /\ p.no # n.no
  BY <1>1, <1>4 DEF SentInv
<1>8. \A p \in pending' : p.no < sent' /\ Targeted(p)
  BY <1>1, <1>4, <1>5, <1>7 DEF SentInv
<1>9. \A m \in net : m.no \in Nat /\ m.no < sent
  BY DEF SentInv
<1>10. \A p, q \in pending' : p.no = q.no => p = q
  BY <1>5, <1>7 DEF SentInv
<1>11. \A p, q \in pending' : IpOf[p.dest] = IpOf[q.dest] /\ p.sid = q.sid => p = q
  BY <1>2, <1>4, <1>5 DEF SentInv
<1>12. \A m \in net', q \in pending' : m.no = q.no => q.dest = m.from /\ q.sid = m.sid
  BY <1>1, <1>4, <1>5, <1>9 DEF SentInv
<1>13. \A m \in net' : m.no < sent'
  BY <1>1, <1>9
<1> QED
  BY <1>1, <1>6, <1>8, <1>10, <1>11, <1>12, <1>13 DEF SentInv, Targeted

-----------------------------------------------------------------------------
(* The steps of the node.                                                  *)

QueriesIInv == QueueInv /\ SentInv

LEMMA TasksChange ==
  ASSUME DhtAssumption, QueriesIInv, NEW h \in Hashes, NEW announce \in BOOLEAN,
         AddTask(h, announce) \/ RemoveGetPeersTask(h)
  PROVE  QueriesIInv' /\ DiesOut
<1>1. UNCHANGED <<start, queue, pending, sent, net, pool, follow, memory, mixed>>
  BY DEF AddTask, RemoveGetPeersTask
<1>2. SentInv'
  BY <1>1, SentShrinks DEF QueriesIInv
<1>3. DiesOut
  <2>1. IsABag(queue) /\ \A r : CountIn(r, queue) \in Nat
    BY DEF CountIn, BagIn, BagToSet, IsABag, QueueInv, QueriesIInv
  <2> QED
    BY <1>1, <2>1, FewerDiesOut DEF QueriesIInv
<1>4. /\ tasks' \in [Hashes -> {"none", "get", "announce"}]
      /\ removing' \in Hashes \cup {NoKey}
      /\ \A g \in Hashes : tasks[g] # "none" \/ removing = g
                              => tasks'[g] # "none" \/ removing' = g
  BY DEF AddTask, RemoveGetPeersTask, QueriesIInv, QueueInv, DhtAssumption
<1>5. \A r \in BagToSet(queue) : r.type = "announce" => r.target \in Hashes
  BY DEF QueriesIInv, QueueInv, Targeted
<1>6. NoAnnounceAfterRemove'
  BY <1>1, <1>4, <1>5 DEF QueriesIInv, QueueInv, NoAnnounceAfterRemove
<1>7. QueueInv'
  BY <1>1, <1>4, <1>6 DEF QueriesIInv, QueueInv, start, memory, Targeted
<1> QED
  BY <1>2, <1>3, <1>7 DEF QueriesIInv

LEMMA TaskCancelled ==
  ASSUME QueriesIInv, CancelTask
  PROVE  QueriesIInv' /\ DiesOut
<1> DEFINE kept == {q \in BagToSet(queue) : ~Cancels(q)}
<1>1. queue' = [r \in kept |-> queue[r]] /\ removing' = NoKey
  BY DEF CancelTask
<1>2. UNCHANGED <<tasks, start, pending, sent, net, pool, follow, memory, mixed>>
  BY DEF CancelTask
<1>3. kept \subseteq DOMAIN queue /\ \A r \in kept : ~Cancels(r)
  BY DEF BagToSet
<1> HIDE DEF kept
<1>4. \A r \in DOMAIN queue : queue[r] \in Nat /\ queue[r] > 0
  BY DEF QueriesIInv, QueueInv, IsABag
<1>5. DOMAIN queue' = kept /\ \A r \in kept : queue'[r] = queue[r]
  BY <1>1
<1>6. IsABag(queue') /\ \A r : CountIn(r, queue') <= CountIn(r, queue)
  <2>1. \A r \in kept : queue'[r] \in {k \in Nat : k > 0}
    BY <1>3, <1>4, <1>5
  <2>2. IsABag(queue')
    BY <1>1, <1>5, <2>1 DEF IsABag
  <2>3. \A r : CountIn(r, queue') <= CountIn(r, queue)
    BY <1>3, <1>4, <1>5 DEF CountIn, BagIn, BagToSet
  <2> QED
    BY <2>2, <2>3
<1>7. DiesOut
  BY <1>2, <1>6, FewerDiesOut DEF QueriesIInv
<1>8. SentInv'
  BY <1>2, SentShrinks DEF QueriesIInv
<1>9. NoAnnounceAfterRemove'
  <2>1. ASSUME NEW r \in BagToSet(queue'), r.type = "announce"
        PROVE  tasks'[r.target] # "none"
    <3>1. r \in BagToSet(queue) /\ r.target # removing
      BY <1>3, <1>5, <2>1 DEF BagToSet, Cancels
    <3> QED
      BY <1>2, <2>1, <3>1 DEF QueriesIInv, QueueInv, NoAnnounceAfterRemove
  <2> QED
    BY <2>1 DEF NoAnnounceAfterRemove
<1>10. QueueInv'
  BY <1>1, <1>2, <1>3, <1>5, <1>6, <1>9 DEF QueriesIInv, QueueInv, start, memory, Targeted, BagToSet
<1> QED
  BY <1>7, <1>8, <1>10 DEF QueriesIInv

\* The steps that leave the requests alone, or give one up.
LEMMA QuietSteps ==
  ASSUME DhtAssumption, QueriesIInv,
         \/ \E h \in Hashes : GetPeers(h)
         \/ \E p \in pending : GiveUp(p) \/ NodeAnswers(p)
         \/ \E m \in net : Lose(m) \/ Unknown(m)
         \/ UNCHANGED queriesVars
  PROVE  QueriesIInv' /\ (DiesOut \/ UNCHANGED queriesVars)
<1>1. UNCHANGED <<user, start, queue, follow>> /\ pool' \subseteq pool /\ values' \subseteq values
  BY DEF GetPeers, GiveUp, NoResponse, NodeAnswers, Lose, Unknown, memory, queriesVars
<1>2. QueueInv' /\ DiesOut
  <2>1. pool' \subseteq Nodes /\ values' \subseteq Hashes
    BY <1>1 DEF QueriesIInv, QueueInv
  <2> QED
    BY <1>1, <2>1, QueueQuiet DEF QueriesIInv
<1>3. CASE \E p \in pending : NodeAnswers(p)
  BY <1>2, <1>3, AnswerSent DEF QueriesIInv
<1>4. CASE ~ \E p \in pending : NodeAnswers(p)
  <2>1. pending' \subseteq pending /\ net' \subseteq net /\ UNCHANGED <<sent, mixed>>
    BY <1>4 DEF GetPeers, GiveUp, Lose, Unknown, memory, queriesVars
  <2> QED
    BY <1>2, <2>1, SentShrinks DEF QueriesIInv
<1> QED
  BY <1>3, <1>4

LEMMA TimersAsk ==
  ASSUME DhtAssumption, QueriesIInv, NodeTimers
  PROVE  QueriesIInv' /\ DiesOut
<1>1. UNCHANGED <<user, pending, sent, net, pool, follow, memory, mixed>>
  BY DEF NodeTimers, BootUp, AddFixNodes, DoGetPeersJob, TableAsks
<1>2. SentInv'
  BY <1>1, SentShrinks DEF QueriesIInv
<1>3. boot' \subseteq Nodes /\ booted' \subseteq Nodes /\ pool' \subseteq Nodes /\ values' \subseteq Hashes
  BY <1>1 DEF QueriesIInv, QueueInv, NodeTimers, BootUp, AddFixNodes, DoGetPeersJob,
              TableAsks, start, memory, DhtAssumption
<1>4. CASE BootUp
  <2> DEFINE S == {Ask("find", n, NoKey, NoKey) : n \in {o \in boot : ~IsUsedAddr(o)}}
  <2>1. AskedWell(S)
    BY DEF AskedWell, Ask, Requests, Types, Targeted, QueriesIInv, QueueInv, DhtAssumption
  <2>2. DoRequest(S)
    BY <1>4 DEF BootUp
  <2> QED
    BY <1>1, <1>2, <1>3, <2>1, <2>2, QueueAsked DEF QueriesIInv
<1>5. CASE AddFixNodes
  <2>1. queue' = queue /\ \A r : CountIn(r, queue) \in Nat
    BY <1>5 DEF AddFixNodes, CountIn, BagIn, BagToSet, IsABag, QueueInv, QueriesIInv
  <2>2. DiesOut
    BY <1>1, <2>1, FewerDiesOut DEF QueueInv, QueriesIInv
  <2>3. QueueInv'
    BY <1>1, <1>3, <2>1 DEF QueriesIInv, QueueInv, NoAnnounceAfterRemove, user, memory
  <2> QED
    BY <1>2, <2>2, <2>3 DEF QueriesIInv
<1>6. CASE DoGetPeersJob
  <2> DEFINE S == {Ask("get", x[1], x[1], x[2]) : x \in
            {x \in pool \X Hashes : tasks[x[2]] # "none" /\ x[1] \in Closest(x[2], pool)}}
  <2>1. ASSUME NEW r \in S
        PROVE  r \in Requests /\ Targeted(r) /\ tasks[r.target] # "none"
    <3>1. PICK x \in pool \X Hashes : tasks[x[2]] # "none" /\ r = Ask("get", x[1], x[1], x[2])
      OBVIOUS
    <3>2. x[1] \in Nodes /\ x[2] \in Hashes
      BY DEF QueriesIInv, QueueInv
    <3> QED
      BY <3>1, <3>2 DEF Ask, Requests, Types, Targeted
  <2>2. AskedWell(S)
    BY <2>1 DEF AskedWell
  <2>3. DoRequest(S)
    BY <1>6 DEF DoGetPeersJob
  <2> QED
    BY <1>1, <1>2, <1>3, <2>2, <2>3, QueueAsked DEF QueriesIInv
<1>7. ASSUME NEW n \in Nodes, NEW type \in {"ping", "find"}, TableAsks(n, type)
      PROVE  QueriesIInv' /\ DiesOut
  <2> DEFINE S == {Ask(type, n, n, NoKey)}
  <2>1. AskedWell(S)
    BY DEF AskedWell, Ask, Requests, Types, Targeted, DhtAssumption
  <2>2. DoRequest(S)
    BY <1>7 DEF TableAsks
  <2> QED
    BY <1>1, <1>2, <1>3, <2>1, <2>2, QueueAsked DEF QueriesIInv
<1> QED
  BY <1>4, <1>5, <1>6, <1>7 DEF NodeTimers

LEMMA RequestLeaves ==
  ASSUME DhtAssumption, QueriesIInv, DoWaitingRequest
  PROVE  QueriesIInv' /\ DiesOut
<1>1. PICK r \in BagToSet(queue) :
        /\ queue' = queue (-) SetToBag({r})
        /\ IF Free(r) = {} THEN UNCHANGED <<pending, sent>>
           ELSE \E s \in Free(r) :
                    /\ sent < MaxSent
                    /\ sent' = sent + 1
                    /\ pending' = pending \cup
                        {[type |-> r.type, dest |-> r.dest, key |-> r.key,
                          target |-> r.target, sid |-> s, no |-> sent]}
        /\ UNCHANGED <<user, start, net, pool, follow, memory, mixed>>
  BY DEF DoWaitingRequest
<1>2. r \in Requests /\ Targeted(r) /\ IsABag(queue)
  BY DEF QueriesIInv, QueueInv
<1>3. SentInv'
  <2>1. CASE Free(r) = {}
    BY <1>1, <2>1, SentShrinks DEF QueriesIInv
  <2>2. CASE Free(r) # {}
    BY <1>1, <1>2, <2>2, RequestSent DEF QueriesIInv
  <2> QED
    BY <2>1, <2>2
<1>4. /\ IsABag(queue') /\ BagToSet(queue') \subseteq BagToSet(queue)
      /\ \A e : CountIn(e, queue') <= CountIn(e, queue)
  BY <1>1, <1>2, BagLoses
<1>5. DiesOut
  BY <1>1, <1>4, FewerDiesOut DEF QueriesIInv
<1>6. NoAnnounceAfterRemove'
  BY <1>1, <1>4 DEF QueriesIInv, QueueInv, NoAnnounceAfterRemove, user
<1>7. QueueInv'
  BY <1>1, <1>4, <1>6 DEF QueriesIInv, QueueInv, user, start, memory, Targeted
<1> QED
  BY <1>3, <1>5, <1>7 DEF QueriesIInv

-----------------------------------------------------------------------------
(* The answers.                                                            *)

\* An announcement is asked for a task that is still there.
LEMMA AnnouncesAsk ==
  ASSUME QueriesIInv, NEW h \in Hashes, NEW n \in Nodes
  PROVE  AskedWell(Announces(h, n))
BY DEF Announces, AskedWell, Ask, Requests, Types, Targeted

LEMMA NothingAsked == AskedWell({})
BY DEF AskedWell

\* The answer that met a request asks for S, and nothing follows.
LEMMA AnswerAsks ==
  ASSUME DhtAssumption, QueriesIInv, NEW m \in net, NEW p \in pending, Meets(m, p),
         NEW S, AskedWell(S), DoRequest(S), UNCHANGED <<user, start, sent, follow>>,
         pool' \subseteq Nodes, values' \subseteq Hashes
  PROVE  QueriesIInv' /\ DiesOut
<1>1. SentInv'
  BY AnswerMeets DEF QueriesIInv
<1>2. boot' \subseteq Nodes /\ booted' \subseteq Nodes
  BY DEF QueriesIInv, QueueInv, start
<1> QED
  BY <1>1, <1>2, QueueAsked DEF QueriesIInv

\* The answers that ask for nothing.
LEMMA QuietAnswers ==
  ASSUME DhtAssumption, QueriesIInv, NEW m \in net, NEW p \in pending,
         OnError(m, p) \/ PingResponse(m, p) \/ AnnouncePeerResponse(m, p)
  PROVE  QueriesIInv' /\ DiesOut
<1>1. p.dest \in Nodes
  BY DEF QueriesIInv, SentInv
<1>2. Meets(m, p) /\ UNCHANGED <<user, start, queue, sent, follow>>
  BY DEF OnError, PingResponse, AnnouncePeerResponse
<1>3. pool' \subseteq Nodes /\ values' \subseteq Hashes
  BY <1>1 DEF OnError, PingResponse, AnnouncePeerResponse, AddActiveNode, memory,
              QueriesIInv, QueueInv
<1>4. SentInv'
  BY <1>2, AnswerMeets DEF QueriesIInv
<1> QED
  BY <1>2, <1>3, <1>4, QueueQuiet DEF QueriesIInv

\* A search goes on from an answer, unless it was removed.
LEMMA SearchGoesOn ==
  ASSUME DhtAssumption, QueriesIInv, follow = {}, NEW m \in net, NEW p \in pending,
         NEW S \in SUBSET Nodes, NEW token \in BOOLEAN, GetPeersNodes(m, p, S, token)
  PROVE  QueriesIInv' /\ DiesOut
<1> DEFINE A == IF token /\ \E n \in S : Dist[p.target][p.dest] < Dist[p.target][n]
                THEN Announces(p.target, p.dest) ELSE {}
           F == {Ask("get", n, n, p.target) :
                    n \in {o \in S : Followed(p.target) /\ Nearer(p.target, p.dest, o)}}
<1>1. p.target \in Hashes /\ p.dest \in Nodes
  BY DEF GetPeersNodes, QueriesIInv, SentInv, Targeted
<1>2. Meets(m, p) /\ DoRequest(A) /\ follow' = F /\ UNCHANGED <<user, start, sent, memory>>
  BY DEF GetPeersNodes
<1>3. AskedWell(A)
  BY <1>1, AnnouncesAsk, NothingAsked
<1>4. \A r \in F : /\ r \in Requests /\ r.type = "get" /\ r.target = p.target
                   /\ tasks[r.target] # "none"
  BY <1>1 DEF Ask, Requests, Types, Followed
<1> HIDE DEF A, F
<1>5. queue' = queue (+) SetToBag(A) /\ UNCHANGED user
  BY <1>2 DEF DoRequest
<1>6. /\ IsABag(queue') /\ BagToSet(queue') = BagToSet(queue) \cup A
      /\ BagToSet(queue') \subseteq Requests
      /\ \A r \in BagToSet(queue') : Targeted(r)
      /\ NoAnnounceAfterRemove'
      /\ \A r : CountIn(r, queue') = CountIn(r, queue) + (IF r \in A THEN 1 ELSE 0)
  BY <1>3, <1>5, QueueGrows DEF QueriesIInv
<1>7. pool' \subseteq Nodes /\ values' \subseteq Hashes
  BY <1>1, <1>2 DEF GetPeersNodes, AddActiveNode, memory, QueriesIInv, QueueInv
<1>8. QueueInv'
  <2>1. \A r \in follow' : r \in Requests /\ r.type = "get" /\ Targeted(r)
    BY <1>1, <1>2, <1>4 DEF Targeted
  <2> QED
    BY <1>2, <1>6, <1>7, <2>1 DEF QueriesIInv, QueueInv, user, start, Targeted
<1>9. SentInv'
  BY <1>2, AnswerMeets DEF QueriesIInv
<1>10. ASSUME NEW r \in BagToSet(queue') \cup follow',
              r.target # NoKey, tasks[r.target] = "none"
       PROVE  Waiting(r)' <= Waiting(r)
  <2>1. r \notin F /\ r \notin follow'
    BY <1>2, <1>4, <1>10
  <2>2. r \in Requests
    BY <1>6, <1>10, <2>1
  <2>3. r.target \in Hashes
    BY <1>10, <2>2 DEF Requests
  <2>4. r \notin A
    BY <1>3, <1>10, <2>3 DEF AskedWell
  <2>5. CountIn(r, queue) \in Nat
    BY DEF CountIn, BagIn, BagToSet, IsABag, QueriesIInv, QueueInv
  <2>6. CountIn(r, queue') = CountIn(r, queue)
    BY <1>6, <2>4, <2>5
  <2> QED
    BY <2>1, <2>5, <2>6 DEF Waiting, CountIn
<1> QED
  BY <1>8, <1>9, <1>10 DEF QueriesIInv, DiesOut

LEMMA AnswerStep ==
  ASSUME DhtAssumption, QueriesIInv, follow = {}, NEW m \in net, NEW p \in pending, OnResponse(m, p)
  PROVE  QueriesIInv' /\ DiesOut
<1>1. p.dest \in Nodes
  BY DEF QueriesIInv, SentInv
<1>2. CASE OnError(m, p) \/ PingResponse(m, p) \/ AnnouncePeerResponse(m, p)
  BY <1>2, QuietAnswers
<1>3. ASSUME NEW S \in SUBSET Nodes, FindNodeResponse(m, p, S)
      PROVE  QueriesIInv' /\ DiesOut
  <2> DEFINE A == {Ask("find", n, n, p.target) : n \in S}
  <2>1. p.type = "find" /\ p.target = NoKey
    BY <1>3 DEF FindNodeResponse, QueriesIInv, SentInv, Targeted
  <2>2. AskedWell(A)
    BY <2>1 DEF AskedWell, Ask, Requests, Types, Targeted, DhtAssumption
  <2>3. DoRequest(A) /\ Meets(m, p) /\ UNCHANGED <<user, start, sent, follow>>
    BY <1>3 DEF FindNodeResponse
  <2>4. pool' \subseteq Nodes /\ values' \subseteq Hashes
    BY <1>1, <1>3 DEF FindNodeResponse, AddActiveNode, QueriesIInv, QueueInv
  <2> QED
    BY <2>2, <2>3, <2>4, AnswerAsks
<1>4. ASSUME NEW S \in SUBSET Nodes, NEW token \in BOOLEAN, GetPeersNodes(m, p, S, token)
      PROVE  QueriesIInv' /\ DiesOut
  BY <1>4, SearchGoesOn
<1>5. ASSUME NEW token \in BOOLEAN, GetPeersValues(m, p, token)
      PROVE  QueriesIInv' /\ DiesOut
  <2> DEFINE A == IF token THEN Announces(p.target, p.dest) ELSE {}
  <2>1. p.target \in Hashes
    BY <1>5 DEF GetPeersValues, QueriesIInv, SentInv, Targeted
  <2>2. AskedWell(A)
    BY <1>1, <2>1, AnnouncesAsk, NothingAsked
  <2>3. DoRequest(A) /\ Meets(m, p) /\ UNCHANGED <<user, start, sent, follow>>
    BY <1>5 DEF GetPeersValues
  <2>4. pool' \subseteq Nodes /\ values' \subseteq Hashes
    BY <1>1, <1>5, <2>1 DEF GetPeersValues, AddActiveNode, QueriesIInv, QueueInv
  <2> QED
    BY <2>2, <2>3, <2>4, AnswerAsks
<1>6. CASE GetPeersToken(m, p)
  <2> DEFINE A == Announces(p.target, p.dest)
  <2>1. p.target \in Hashes
    BY <1>6 DEF GetPeersToken, QueriesIInv, SentInv, Targeted
  <2>2. AskedWell(A)
    BY <1>1, <2>1, AnnouncesAsk
  <2>3. DoRequest(A) /\ Meets(m, p) /\ UNCHANGED <<user, start, sent, follow>>
    BY <1>6 DEF GetPeersToken
  <2>4. pool' \subseteq Nodes /\ values' \subseteq Hashes
    BY <1>6 DEF GetPeersToken, memory, QueriesIInv, QueueInv
  <2> QED
    BY <2>2, <2>3, <2>4, AnswerAsks
<1> QED
  BY <1>2, <1>3, <1>4, <1>5, <1>6 DEF OnResponse

\* What follows moves to the queue.
LEMMA FollowsMove ==
  ASSUME DhtAssumption, QueriesIInv, FollowUp
  PROVE  QueriesIInv' /\ DiesOut
<1>1. /\ queue' = queue (+) SetToBag(follow) /\ follow' = {}
      /\ UNCHANGED <<user, start, pending, sent, net, pool, memory, mixed>>
  BY DEF FollowUp, DoRequest
<1>2. IsABag(queue) /\ \A r : CountIn(r, queue) \in Nat
  BY DEF CountIn, BagIn, BagToSet, IsABag, QueriesIInv, QueueInv
<1>3. /\ IsABag(queue') /\ BagToSet(queue') = BagToSet(queue) \cup follow
      /\ \A r : CountIn(r, queue') = CountIn(r, queue) + (IF r \in follow THEN 1 ELSE 0)
  BY <1>1, <1>2, BagAdds
<1>4. \A r : Waiting(r)' = Waiting(r) /\ Waiting(r) \in Nat
  BY <1>1, <1>2, <1>3 DEF Waiting, CountIn
<1>5. DiesOut
  BY <1>4 DEF DiesOut
<1>6. SentInv'
  BY <1>1, SentShrinks DEF QueriesIInv
<1>7. NoAnnounceAfterRemove'
  BY <1>1, <1>3 DEF QueriesIInv, QueueInv, NoAnnounceAfterRemove, user
<1>8. QueueInv'
  BY <1>1, <1>3, <1>7 DEF QueriesIInv, QueueInv, user, start, memory, Targeted
<1> QED
  BY <1>5, <1>6, <1>8 DEF QueriesIInv

LEMMA QueriesStep ==
  ASSUME DhtAssumption, QueriesIInv, [QueriesNext]_queriesVars
  PROVE  QueriesIInv' /\ [DiesOut]_queriesVars
<1>1. CASE \E h \in Hashes, announce \in BOOLEAN : AddTask(h, announce)
  BY <1>1, TasksChange
<1>2. CASE \E h \in Hashes : RemoveGetPeersTask(h)
  BY <1>2, TasksChange
<1>3. CASE CancelTask
  BY <1>3, TaskCancelled
<1>4. CASE FollowUp
  BY <1>4, FollowsMove
<1>5. CASE follow = {} /\ DealerPass
  <2>1. CASE NodeTimers
    BY <2>1, TimersAsk
  <2>2. CASE DoWaitingRequest
    BY <2>2, RequestLeaves
  <2>3. CASE \E m \in net, p \in pending : OnResponse(m, p)
    BY <1>5, <2>3, AnswerStep
  <2>4. CASE (\E p \in pending : GiveUp(p)) \/ (\E m \in net : Unknown(m))
    BY <2>4, QuietSteps
  <2> QED
    BY <1>5, <2>1, <2>2, <2>3, <2>4 DEF DealerPass
<1>6. CASE \/ \E h \in Hashes : GetPeers(h)
           \/ \E p \in pending : NodeAnswers(p)
           \/ \E m \in net : Lose(m)
           \/ UNCHANGED queriesVars
  BY <1>6, QuietSteps
<1> QED
  BY <1>1, <1>2, <1>3, <1>4, <1>5, <1>6 DEF QueriesNext

LEMMA QueriesStart ==
  ASSUME DhtAssumption, QueriesInit
  PROVE  QueriesIInv
<1>1. DOMAIN queue = {} /\ IsABag(queue)
  BY DEF QueriesInit, EmptyBag, SetToBag, IsABag
<1>2. QueueInv
  BY <1>1 DEF QueriesInit, QueueInv, NoAnnounceAfterRemove, BagToSet, DhtAssumption
<1>3. SentInv
  BY DEF QueriesInit, SentInv, DhtAssumption
<1> QED
  BY <1>2, <1>3 DEF QueriesIInv

LEMMA QueriesStrong ==
  ASSUME QueriesIInv
  PROVE  QueriesInv
BY DEF QueriesIInv, QueueInv, SentInv, QueriesInv, QueriesTypeOK, AnswersMeet

\* An answer is taken for that of the request it was sent to, while that one waits,
\* and no announcement is queued for a task that was removed, for any nodes,
\* addresses, infohashes, distances and packet numbers
\* (FrontServer.cpp:1207, DHTThread.cpp:468).
THEOREM AnswersKnown ==
  ASSUME DhtAssumption
  PROVE  QueriesSpec => []QueriesInv
<1>1. QueriesInit => QueriesIInv
  BY QueriesStart
<1>2. QueriesIInv /\ [QueriesNext]_queriesVars => QueriesIInv'
  BY QueriesStep
<1>3. QueriesIInv => QueriesInv
  BY QueriesStrong
<1> QED
  BY <1>1, <1>2, <1>3, PTL DEF QueriesSpec

\* A search that was removed never has more requests than before
\* (DHTThread.cpp:338).
THEOREM RemovedDiesOut ==
  ASSUME DhtAssumption
  PROVE  QueriesSpec => SearchDies
<1>1. QueriesInit => QueriesIInv
  BY QueriesStart
<1>2. QueriesIInv /\ [QueriesNext]_queriesVars => QueriesIInv' /\ [DiesOut]_queriesVars
  BY QueriesStep
<1> QED
  BY <1>1, <1>2, PTL DEF QueriesSpec, SearchDies


-----------------------------------------------------------------------------
(* Sequences without repetition.                                            *)

\* Append adds one element.
LEMMA Appended ==
  ASSUME NEW T, NEW s \in Seq(T), NEW e \in T
  PROVE /\ Append(s, e) \in Seq(T)
        /\ ToSet(Append(s, e)) = ToSet(s) \cup {e}
        /\ IsInjective(s) /\ e \notin ToSet(s) => IsInjective(Append(s, e))
<1>1. /\ Append(s, e) \in Seq(T) /\ Len(Append(s, e)) = Len(s) + 1
      /\ \A i \in 1 .. Len(s) : Append(s, e)[i] = s[i]
      /\ Append(s, e)[Len(s) + 1] = e
  OBVIOUS
<1>2. Len(s) \in Nat /\ DOMAIN s = 1 .. Len(s) /\ DOMAIN Append(s, e) = 1 .. (Len(s) + 1)
  BY <1>1
<1>3. ToSet(Append(s, e)) = ToSet(s) \cup {e}
  <2>1. ASSUME NEW x \in ToSet(Append(s, e)) PROVE x \in ToSet(s) \cup {e}
    <3>1. PICK i \in 1 .. (Len(s) + 1) : x = Append(s, e)[i]
      BY <1>2, <2>1 DEF ToSet
    <3>2. i \in 1 .. Len(s) \/ i = Len(s) + 1
      BY <1>2
    <3> QED
      BY <1>1, <1>2, <3>1, <3>2 DEF ToSet
  <2>2. ASSUME NEW x \in ToSet(s) PROVE x \in ToSet(Append(s, e))
    <3>1. PICK i \in 1 .. Len(s) : x = s[i]
      BY <1>2, <2>2 DEF ToSet
    <3>2. i \in 1 .. (Len(s) + 1)
      BY <1>2
    <3> QED
      BY <1>1, <1>2, <3>1, <3>2 DEF ToSet
  <2>3. e \in ToSet(Append(s, e))
    <3>1. Len(s) + 1 \in 1 .. (Len(s) + 1)
      BY <1>2
    <3> QED
      BY <1>1, <1>2, <3>1 DEF ToSet
  <2> QED
    BY <2>1, <2>2, <2>3
<1>4. ASSUME IsInjective(s), e \notin ToSet(s) PROVE IsInjective(Append(s, e))
  <2>1. SUFFICES ASSUME NEW i \in 1 .. (Len(s) + 1), NEW j \in 1 .. (Len(s) + 1),
                        Append(s, e)[i] = Append(s, e)[j]
                 PROVE i = j
    BY <1>2 DEF IsInjective
  <2>2. \A k \in 1 .. Len(s) : Append(s, e)[k] # e
    BY <1>1, <1>2, <1>4 DEF ToSet
  <2>3. (i \in 1 .. Len(s) \/ i = Len(s) + 1) /\ (j \in 1 .. Len(s) \/ j = Len(s) + 1)
    BY <1>2
  <2>4. CASE i \in 1 .. Len(s) /\ j \in 1 .. Len(s)
    <3>1. s[i] = s[j]
      BY <1>1, <2>1, <2>4
    <3> QED
      BY <1>2, <1>4, <2>4, <3>1 DEF IsInjective
  <2> QED
    BY <1>1, <2>1, <2>2, <2>3, <2>4
<1> QED
  BY <1>1, <1>3, <1>4

\* Tail takes the first one away.
LEMMA TailOf ==
  ASSUME NEW T, NEW s \in Seq(T), s # <<>>
  PROVE /\ Tail(s) \in Seq(T) /\ Head(s) \in T /\ Head(s) \in ToSet(s)
        /\ Len(s) \in Nat \ {0} /\ Len(Tail(s)) = Len(s) - 1
        /\ DOMAIN s = 1 .. Len(s) /\ DOMAIN Tail(s) = 1 .. (Len(s) - 1)
        /\ s[1] = Head(s) /\ \A i \in 1 .. (Len(s) - 1) : Tail(s)[i] = s[i + 1]
        /\ IsInjective(s) =>
             IsInjective(Tail(s)) /\ ToSet(Tail(s)) = ToSet(s) \ {Head(s)}
<1>1. /\ Tail(s) \in Seq(T) /\ Head(s) \in T /\ s[1] = Head(s)
      /\ Len(s) \in Nat \ {0} /\ Len(Tail(s)) = Len(s) - 1
      /\ \A i \in 1 .. (Len(s) - 1) : Tail(s)[i] = s[i + 1]
  OBVIOUS
<1>2. DOMAIN s = 1 .. Len(s) /\ DOMAIN Tail(s) = 1 .. (Len(s) - 1)
  BY <1>1
<1>3. Head(s) \in ToSet(s)
  <2>1. 1 \in 1 .. Len(s)
    BY <1>1
  <2> QED
    BY <1>1, <1>2, <2>1 DEF ToSet
<1>4. ASSUME IsInjective(s) PROVE IsInjective(Tail(s)) /\ ToSet(Tail(s)) = ToSet(s) \ {Head(s)}
  <2>1. \A i \in 1 .. Len(s), j \in 1 .. Len(s) : s[i] = s[j] => i = j
    BY <1>2, <1>4 DEF IsInjective
  <2>2. \A i \in 1 .. (Len(s) - 1) : i + 1 \in 1 .. Len(s) /\ i + 1 # 1
    BY <1>1
  <2>3. IsInjective(Tail(s))
    <3>1. SUFFICES ASSUME NEW i \in 1 .. (Len(s) - 1), NEW j \in 1 .. (Len(s) - 1),
                          Tail(s)[i] = Tail(s)[j]
                   PROVE i = j
      BY <1>2 DEF IsInjective
    <3>2. i + 1 = j + 1
      BY <1>1, <2>1, <2>2, <3>1
    <3> QED
      BY <3>2
  <2>4. ASSUME NEW x \in ToSet(Tail(s)) PROVE x \in ToSet(s) \ {Head(s)}
    <3>1. PICK i \in 1 .. (Len(s) - 1) : x = Tail(s)[i]
      BY <1>2, <2>4 DEF ToSet
    <3>2. x = s[i + 1] /\ i + 1 \in 1 .. Len(s) /\ i + 1 # 1 /\ 1 \in 1 .. Len(s)
      BY <1>1, <2>2, <3>1
    <3>3. x # s[1]
      BY <2>1, <3>2
    <3> QED
      BY <1>1, <1>2, <3>2, <3>3 DEF ToSet
  <2>5. ASSUME NEW x \in ToSet(s), x # Head(s) PROVE x \in ToSet(Tail(s))
    <3>1. PICK i \in 1 .. Len(s) : x = s[i]
      BY <1>2, <2>5 DEF ToSet
    <3>2. i # 1
      BY <1>1, <2>5, <3>1
    <3>3. i - 1 \in 1 .. (Len(s) - 1) /\ (i - 1) + 1 = i
      BY <1>1, <3>2
    <3>4. Tail(s)[i - 1] = x
      BY <1>1, <3>1, <3>3
    <3> QED
      BY <1>2, <3>3, <3>4 DEF ToSet
  <2> QED
    BY <2>3, <2>4, <2>5
<1> QED
  BY <1>1, <1>2, <1>3, <1>4

\* A client at the front moves to the end.
LEMMA RotatedOf ==
  ASSUME NEW T, NEW s \in Seq(T), s # <<>>, IsInjective(s)
  PROVE /\ Append(Tail(s), Head(s)) \in Seq(T)
        /\ ToSet(Append(Tail(s), Head(s))) = ToSet(s)
        /\ IsInjective(Append(Tail(s), Head(s)))
<1>1. /\ Tail(s) \in Seq(T) /\ Head(s) \in T /\ Head(s) \in ToSet(s)
      /\ IsInjective(Tail(s)) /\ ToSet(Tail(s)) = ToSet(s) \ {Head(s)}
  BY TailOf
<1>2. /\ Append(Tail(s), Head(s)) \in Seq(T)
      /\ ToSet(Append(Tail(s), Head(s))) = ToSet(Tail(s)) \cup {Head(s)}
      /\ Head(s) \notin ToSet(Tail(s)) => IsInjective(Append(Tail(s), Head(s)))
  <2> DEFINE t == Tail(s)
             h == Head(s)
  <2>1. t \in Seq(T) /\ h \in T
    BY <1>1
  <2> HIDE DEF t, h
  <2>2. /\ Append(t, h) \in Seq(T) /\ ToSet(Append(t, h)) = ToSet(t) \cup {h}
        /\ IsInjective(t) /\ h \notin ToSet(t) => IsInjective(Append(t, h))
    BY <2>1, Appended
  <2> QED
    BY <1>1, <2>2 DEF t, h
<1> QED
  BY <1>1, <1>2

\* RemoveFirst takes one element away.
LEMMA Removed ==
  ASSUME NEW T, NEW s \in Seq(T), IsInjective(s), NEW e
  PROVE /\ RemoveFirst(s, e) \in Seq(T)
        /\ ToSet(RemoveFirst(s, e)) = ToSet(s) \ {e}
        /\ IsInjective(RemoveFirst(s, e))
<1>1. Len(s) \in Nat /\ DOMAIN s = 1 .. Len(s)
  OBVIOUS
<1>2. CASE ~\E i \in 1 .. Len(s) : s[i] = e
  <2>1. RemoveFirst(s, e) = s
    BY <1>2 DEF RemoveFirst
  <2>2. e \notin ToSet(s)
    BY <1>1, <1>2 DEF ToSet
  <2> QED
    BY <2>1, <2>2
<1>3. ASSUME NEW k \in 1 .. Len(s), s[k] = e PROVE RemoveFirst(s, e) = RemoveAt(s, k)
  <2>1. \A i \in 1 .. Len(s) : s[i] = e <=> i = k
    BY <1>1, <1>3 DEF IsInjective
  <2>2. {i \in 1 .. Len(s) : s[i] = e} = {k}
    BY <1>3, <2>1
  <2>3. Max({k}) = k /\ Min({k}) = k
    BY <1>1, <1>3 DEF Max, Min
  <2>4. SelectInSeq(s, LAMBDA v : v = e) = k
    BY <2>2, <2>3 DEF SelectInSeq
  <2> QED
    BY <1>3, <2>4 DEF RemoveFirst
<1>4. ASSUME NEW k \in 1 .. Len(s), s[k] = e
      PROVE /\ RemoveAt(s, k) \in Seq(T)
            /\ ToSet(RemoveAt(s, k)) = ToSet(s) \ {e}
            /\ IsInjective(RemoveAt(s, k))
  <2> DEFINE f == SubSeq(s, 1, k - 1)
             g == SubSeq(s, k + 1, Len(s))
             r == RemoveAt(s, k)
  <2>1. /\ f \in Seq(T) /\ Len(f) = k - 1 /\ \A i \in 1 .. (k - 1) : f[i] = s[i]
        /\ g \in Seq(T) /\ Len(g) = Len(s) - k
        /\ \A i \in 1 .. (Len(s) - k) : g[i] = s[k + i]
    <3>1. k \in Nat /\ k >= 1 /\ k <= Len(s)
      BY <1>1, <1>4
    <3>2. \A i \in 1 .. Len(s) : s[i] \in T
      OBVIOUS
    <3>3. /\ f \in Seq(T) /\ Len(f) = IF 1 <= k - 1 THEN (k - 1) - 1 + 1 ELSE 0
          /\ \A i \in 1 .. (k - 1) - 1 + 1 : f[i] = s[1 + i - 1]
      BY <1>1, <3>1, <3>2, SubSeqProperties
    <3>4. /\ g \in Seq(T) /\ Len(g) = IF k + 1 <= Len(s) THEN Len(s) - (k + 1) + 1 ELSE 0
          /\ \A i \in 1 .. Len(s) - (k + 1) + 1 : g[i] = s[(k + 1) + i - 1]
      BY <1>1, <3>1, <3>2, SubSeqProperties
    <3> HIDE DEF f, g, r
    <3>5. Len(f) = k - 1 /\ \A i \in 1 .. (k - 1) : f[i] = s[i]
      <4>1. Len(f) = k - 1
        BY <3>1, <3>3
      <4>2. ASSUME NEW i \in 1 .. (k - 1) PROVE f[i] = s[i]
        <5>1. i \in 1 .. (k - 1) - 1 + 1 /\ 1 + i - 1 = i
          BY <3>1
        <5> QED
          BY <3>3, <5>1
      <4> QED
        BY <4>1, <4>2
    <3>6. Len(g) = Len(s) - k /\ \A i \in 1 .. (Len(s) - k) : g[i] = s[k + i]
      <4>1. Len(g) = Len(s) - k
        <5>1. CASE k = Len(s)
          BY <1>1, <3>1, <3>4, <5>1
        <5>2. CASE k # Len(s)
          <6>1. PICK n \in Nat : n = Len(s)
            BY <1>1
          <6>2. k \in Nat /\ k <= n /\ k # n
            BY <3>1, <5>2, <6>1
          <6>3. k + 1 <= n /\ n - (k + 1) + 1 = n - k
            BY <6>2
          <6> QED
            BY <3>4, <6>1, <6>3
        <5> QED
          BY <5>1, <5>2
      <4>2. ASSUME NEW i \in 1 .. (Len(s) - k) PROVE g[i] = s[k + i]
        <5>1. i \in 1 .. Len(s) - (k + 1) + 1 /\ (k + 1) + i - 1 = k + i
          BY <1>1, <3>1
        <5> QED
          BY <3>4, <5>1
      <4> QED
        BY <4>1, <4>2
    <3> QED
      BY <3>3, <3>4, <3>5, <3>6
  <2>2. r = f \o g
    BY DEF RemoveAt
  <2>3. /\ r \in Seq(T) /\ Len(r) = Len(s) - 1 /\ DOMAIN r = 1 .. (Len(s) - 1)
        /\ \A i \in 1 .. (Len(s) - 1) : r[i] = IF i < k THEN s[i] ELSE s[i + 1]
    <3> HIDE DEF f, g, r
    <3>1. r \in Seq(T) /\ Len(r) = Len(s) - 1
      <4>1. f \o g \in Seq(T) /\ Len(f \o g) = Len(f) + Len(g)
        BY <2>1, ConcatProperties
      <4> QED
        BY <1>1, <1>4, <2>1, <2>2, <4>1
    <3>2. ASSUME NEW i \in 1 .. (Len(s) - 1) PROVE r[i] = IF i < k THEN s[i] ELSE s[i + 1]
      <4>1. CASE i < k
        <5>1. i \in 1 .. Len(f) /\ i \in 1 .. (k - 1)
          BY <1>1, <1>4, <2>1, <4>1
        <5> QED
          BY <2>1, <2>2, <4>1, <5>1
      <4>2. CASE ~(i < k)
        <5>1. i - (k - 1) \in 1 .. (Len(s) - k) /\ k + (i - (k - 1)) = i + 1
          BY <1>1, <1>4, <4>2
        <5>2. i \in 1 .. Len(f) + Len(g) /\ ~(i <= Len(f)) /\ i - Len(f) = i - (k - 1)
          BY <1>1, <1>4, <2>1, <4>2
        <5>3. r[i] = g[i - (k - 1)]
          BY <2>1, <2>2, <5>2, ConcatProperties
        <5> QED
          BY <2>1, <4>2, <5>1, <5>3
      <4> QED
        BY <4>1, <4>2
    <3> QED
      BY <1>1, <3>1, <3>2
  <2> HIDE DEF f, g, r
  <2>4. \A i \in 1 .. Len(s), j \in 1 .. Len(s) : s[i] = s[j] => i = j
    BY <1>1 DEF IsInjective
  <2>5. IsInjective(r)
    <3>1. SUFFICES ASSUME NEW i \in 1 .. (Len(s) - 1), NEW j \in 1 .. (Len(s) - 1), r[i] = r[j]
                   PROVE i = j
      BY <2>3 DEF IsInjective
    <3> DEFINE a == IF i < k THEN i ELSE i + 1
               b == IF j < k THEN j ELSE j + 1
    <3>2. a \in 1 .. Len(s) /\ b \in 1 .. Len(s) /\ s[a] = s[b]
      BY <1>1, <2>3, <3>1
    <3>3. a = b
      BY <2>4, <3>2
    <3> QED
      BY <1>1, <1>4, <3>3
  <2>6. ASSUME NEW x \in ToSet(r) PROVE x \in ToSet(s) \ {e}
    <3>1. PICK i \in 1 .. (Len(s) - 1) : x = r[i]
      BY <2>3, <2>6 DEF ToSet
    <3>2. PICK a \in 1 .. Len(s) : a # k /\ x = s[a]
      <4>1. CASE i < k
        BY <1>1, <2>3, <3>1, <4>1
      <4>2. CASE ~(i < k)
        <5>1. i + 1 \in 1 .. Len(s) /\ i + 1 # k /\ x = s[i + 1]
          BY <1>1, <1>4, <2>3, <3>1, <4>2
        <5> QED
          BY <5>1
      <4> QED
        BY <4>1, <4>2
    <3> QED
      BY <1>1, <1>4, <2>4, <3>2 DEF ToSet
  <2>7. ASSUME NEW x \in ToSet(s), x # e PROVE x \in ToSet(r)
    <3>1. PICK a \in 1 .. Len(s) : x = s[a]
      BY <1>1, <2>7 DEF ToSet
    <3>2. PICK i \in 1 .. (Len(s) - 1) : x = r[i]
      <4>1. CASE a < k
        <5>1. a \in 1 .. (Len(s) - 1) /\ r[a] = x
          BY <1>1, <1>4, <2>3, <3>1, <4>1
        <5> QED
          BY <5>1
      <4>2. CASE a > k
        <5>1. a - 1 \in 1 .. (Len(s) - 1) /\ ~(a - 1 < k) /\ (a - 1) + 1 = a
          BY <1>1, <1>4, <4>2
        <5>2. r[a - 1] = x
          BY <2>3, <3>1, <5>1
        <5> QED
          BY <5>1, <5>2
      <4>3. a # k
        BY <1>4, <2>7, <3>1
      <4> QED
        BY <1>1, <1>4, <4>1, <4>2, <4>3
    <3> QED
      BY <2>3, <3>2 DEF ToSet
  <2>8. r \in Seq(T) /\ ToSet(r) = ToSet(s) \ {e} /\ IsInjective(r)
    BY <2>3, <2>5, <2>6, <2>7
  <2> QED
    BY <2>8 DEF r
<1> QED
  BY <1>2, <1>3, <1>4, Zenon

-----------------------------------------------------------------------------
(* What a peer has been told, in what it has read and in what is on its way. *)

\* ToldBefore of a queue s whose reader was told t before.
Talks(m) == m.kind \in {"choke", "unchoke"}
Heard(t, s, j, what) ==
  \/ t = what /\ \A k \in 1 .. (j - 1) : ~Talks(s[k])
  \/ \E k \in 1 .. (j - 1) : s[k].kind = what /\ \A l \in (k + 1) .. (j - 1) : ~Talks(s[l])

\* Every piece in it follows an unchoke, but for those in A.
Wire(t, s, A) ==
  \A j \in DOMAIN s : s[j].kind = "piece" /\ s[j].index \notin A => Heard(t, s, j, "unchoke")

\* A message behind all others changes nothing before it.
LEMMA HeardBefore ==
  ASSUME NEW s \in Seq(Written), NEW m \in Written, NEW t, NEW what,
         NEW j \in 1 .. (Len(s) + 1), Heard(t, s, j, what)
  PROVE  Heard(t, Append(s, m), j, what)
<1>1. Len(s) \in Nat /\ \A k \in 1 .. Len(s) : Append(s, m)[k] = s[k]
  OBVIOUS
<1>2. \A k \in 1 .. (j - 1) : k \in 1 .. Len(s) /\ \A l \in (k + 1) .. (j - 1) : l \in 1 .. Len(s)
  BY <1>1
<1> QED
  BY <1>1, <1>2 DEF Heard

\* If it is no choke or unchoke, what was told last stays.
LEMMA HeardStill ==
  ASSUME NEW s \in Seq(Written), NEW m \in Written, NEW t, NEW what,
         Heard(t, s, Len(s) + 1, what), ~Talks(m)
  PROVE  Heard(t, Append(s, m), Len(Append(s, m)) + 1, what)
<1>1. /\ Len(s) \in Nat /\ Len(Append(s, m)) = Len(s) + 1
      /\ \A k \in 1 .. Len(s) : Append(s, m)[k] = s[k]
      /\ Append(s, m)[Len(s) + 1] = m
  OBVIOUS
<1> DEFINE n == Len(s)
           r == Append(s, m)
<1>2. n \in Nat /\ Len(r) + 1 = n + 2
      /\ (\A k \in 1 .. n : r[k] = s[k]) /\ r[n + 1] = m
  BY <1>1
<1>3. Heard(t, s, n + 1, what)
  OBVIOUS
<1> HIDE DEF n, r
<1>4. SUFFICES Heard(t, r, n + 2, what)
  BY <1>2 DEF r
<1>5. (n + 1) - 1 = n /\ (n + 2) - 1 = n + 1 /\ \A k \in 1 .. (n + 1) : k \in 1 .. n \/ k = n + 1
  BY <1>2
<1>6. CASE t = what /\ \A k \in 1 .. n : ~Talks(s[k])
  <2>1. \A k \in 1 .. (n + 1) : ~Talks(r[k])
    BY <1>2, <1>5, <1>6
  <2> QED
    BY <1>5, <1>6, <2>1 DEF Heard
<1>7. ASSUME NEW k \in 1 .. n, s[k].kind = what, \A l \in (k + 1) .. n : ~Talks(s[l])
      PROVE  Heard(t, r, n + 2, what)
  <2>1. k \in 1 .. (n + 1) /\ r[k].kind = what
    BY <1>2, <1>7
  <2>2. ASSUME NEW l \in (k + 1) .. (n + 1) PROVE ~Talks(r[l])
    <3>1. (l \in (k + 1) .. n /\ l \in 1 .. n) \/ l = n + 1
      BY <1>2, <1>7
    <3> QED
      BY <1>2, <1>7, <3>1
  <2> QED
    BY <1>5, <2>1, <2>2 DEF Heard
<1> QED
  BY <1>3, <1>5, <1>6, <1>7 DEF Heard

\* If it is one, it is what was told last.
LEMMA HeardNew ==
  ASSUME NEW s \in Seq(Written), NEW m \in Written, NEW t
  PROVE  Heard(t, Append(s, m), Len(Append(s, m)) + 1, m.kind)
<1>1. /\ Len(s) \in Nat /\ Len(Append(s, m)) = Len(s) + 1
      /\ Append(s, m)[Len(s) + 1] = m
  OBVIOUS
<1> DEFINE n == Len(s)
           r == Append(s, m)
<1>2. n \in Nat /\ Len(r) + 1 = n + 2 /\ r[n + 1] = m
  BY <1>1
<1> HIDE DEF n, r
<1>3. n + 1 \in 1 .. ((n + 2) - 1) /\ ((n + 1) + 1) .. ((n + 2) - 1) = {}
  BY <1>2
<1>4. Heard(t, r, n + 2, m.kind)
  BY <1>2, <1>3 DEF Heard
<1> QED
  BY <1>2, <1>4 DEF r

\* What the peer reads it knows.
Reads(t, s) == IF Talks(Head(s)) THEN Head(s).kind ELSE t

LEMMA HeardAfter ==
  ASSUME NEW s \in Seq(Written), s # <<>>, NEW t, NEW what \in {"choke", "unchoke"},
         NEW j \in 1 .. Len(s), Heard(t, s, j + 1, what)
  PROVE  Heard(Reads(t, s), Tail(s), j, what)
<1> DEFINE n == Len(s)
           r == Tail(s)
<1>1. n \in Nat \ {0} /\ s[1] = Head(s) /\ \A i \in 1 .. (n - 1) : r[i] = s[i + 1]
  BY TailOf
<1>2. j \in 1 .. n /\ (j + 1) - 1 = j
  OBVIOUS
<1> HIDE DEF n, r
<1>3. \A k \in 1 .. (j - 1) : r[k] = s[k + 1] /\ k + 1 \in 1 .. j
  <2>1. ASSUME NEW k \in 1 .. (j - 1) PROVE k \in 1 .. (n - 1) /\ k + 1 \in 1 .. j
    BY <1>1, <1>2
  <2> QED
    BY <1>1, <2>1
<1>4. ASSUME t = what, \A k \in 1 .. j : ~Talks(s[k])
      PROVE  Heard(Reads(t, s), r, j, what)
  <2>1. \A k \in 1 .. (j - 1) : ~Talks(r[k])
    BY <1>3, <1>4
  <2>2. 1 \in 1 .. j
    BY <1>1, <1>2
  <2>3. Reads(t, s) = what
    BY <1>1, <1>4, <2>2 DEF Reads
  <2> QED
    BY <2>1, <2>3 DEF Heard
<1>5. ASSUME NEW k \in 1 .. j, s[k].kind = what, \A l \in (k + 1) .. j : ~Talks(s[l])
      PROVE  Heard(Reads(t, s), r, j, what)
  <2>1. CASE k = 1
    <3>1. ASSUME NEW l \in 1 .. (j - 1) PROVE ~Talks(r[l])
      <4>1. l + 1 \in (k + 1) .. j
        BY <1>1, <1>2, <2>1
      <4> QED
        BY <1>3, <1>5, <4>1
    <3>2. Reads(t, s) = what
      BY <1>1, <1>5, <2>1 DEF Reads, Talks
    <3> QED
      BY <3>1, <3>2 DEF Heard
  <2>2. CASE k # 1
    <3>1. PICK i \in 1 .. (j - 1) : k = i + 1
      <4>1. k - 1 \in 1 .. (j - 1) /\ k = (k - 1) + 1
        BY <1>1, <1>2, <2>2
      <4> QED
        BY <4>1
    <3>2. r[i].kind = what
      BY <1>3, <1>5, <3>1
    <3>3. ASSUME NEW l \in (i + 1) .. (j - 1) PROVE ~Talks(r[l])
      <4>1. l \in 1 .. (j - 1) /\ l + 1 \in (k + 1) .. j
        BY <1>1, <1>2, <3>1
      <4> QED
        BY <1>3, <1>5, <4>1
    <3> QED
      BY <3>2, <3>3 DEF Heard
  <2> QED
    BY <2>1, <2>2
<1> QED
  <2>1. \/ t = what /\ \A k \in 1 .. j : ~Talks(s[k])
        \/ \E k \in 1 .. j : s[k].kind = what /\ \A l \in (k + 1) .. j : ~Talks(s[l])
    BY <1>2 DEF Heard
  <2> QED
    BY <1>4, <1>5, <2>1 DEF r

-----------------------------------------------------------------------------
(* The wire to one peer.                                                    *)

\* A message goes out.
LEMMA WireSent ==
  ASSUME NEW s \in Seq(Written), NEW m \in Written, NEW t, NEW A, Wire(t, s, A),
         m.kind = "piece" /\ m.index \notin A => Heard(t, s, Len(s) + 1, "unchoke")
  PROVE  Wire(t, Append(s, m), A)
<1>1. /\ Len(s) \in Nat /\ DOMAIN s = 1 .. Len(s)
      /\ DOMAIN Append(s, m) = 1 .. (Len(s) + 1)
      /\ \A k \in 1 .. Len(s) : Append(s, m)[k] = s[k]
      /\ Append(s, m)[Len(s) + 1] = m
  OBVIOUS
<1>2. SUFFICES ASSUME NEW j \in 1 .. (Len(s) + 1), Append(s, m)[j].kind = "piece",
                      Append(s, m)[j].index \notin A
               PROVE  Heard(t, Append(s, m), j, "unchoke")
  BY <1>1 DEF Wire
<1>3. Heard(t, s, j, "unchoke")
  <2>1. CASE j \in 1 .. Len(s)
    BY <1>1, <1>2, <2>1 DEF Wire
  <2>2. CASE j = Len(s) + 1
    BY <1>1, <1>2, <2>2
  <2> QED
    BY <1>1, <2>1, <2>2
<1> QED
  BY <1>3, HeardBefore

\* The peer reads one.
LEMMA WireRead ==
  ASSUME NEW s \in Seq(Written), s # <<>>, NEW t, NEW A, Wire(t, s, A)
  PROVE  Wire(Reads(t, s), Tail(s), A)
<1>1. /\ Len(s) \in Nat \ {0} /\ DOMAIN s = 1 .. Len(s)
      /\ DOMAIN Tail(s) = 1 .. (Len(s) - 1)
      /\ \A i \in 1 .. (Len(s) - 1) : Tail(s)[i] = s[i + 1]
  BY TailOf
<1>2. SUFFICES ASSUME NEW j \in 1 .. (Len(s) - 1), Tail(s)[j].kind = "piece",
                      Tail(s)[j].index \notin A
               PROVE  Heard(Reads(t, s), Tail(s), j, "unchoke")
  BY <1>1 DEF Wire
<1>3. j \in 1 .. Len(s) /\ j + 1 \in 1 .. Len(s) /\ Tail(s)[j] = s[j + 1]
  BY <1>1
<1>4. Heard(t, s, j + 1, "unchoke")
  BY <1>1, <1>2, <1>3 DEF Wire
<1> QED
  BY <1>3, <1>4, HeardAfter

\* What a peer is to know of its choking.
Word(c) == IF c THEN "choke" ELSE "unchoke"

\* The wire, and while the link is up what was told last.
Line(t, s, A, c, up) ==
  /\ Wire(t, s, A)
  /\ up => Heard(t, s, Len(s) + 1, Word(c))

\* A piece to a peer that is not choked, or one it may have, or a reject.
LEMMA LineSent ==
  ASSUME NEW s \in Seq(Written), NEW m \in Written, NEW t, NEW A, NEW c \in BOOLEAN,
         Line(t, s, A, c, TRUE), ~Talks(m),
         m.kind = "piece" /\ m.index \notin A => ~c
  PROVE  Line(t, Append(s, m), A, c, TRUE)
<1>1. Wire(t, Append(s, m), A)
  <2>1. m.kind = "piece" /\ m.index \notin A => Heard(t, s, Len(s) + 1, "unchoke")
    BY DEF Line, Word
  <2>2. Wire(t, s, A)
    BY DEF Line
  <2> QED
    BY <2>1, <2>2, WireSent
<1>2. Heard(t, Append(s, m), Len(Append(s, m)) + 1, Word(c))
  <2>1. Heard(t, s, Len(s) + 1, Word(c))
    BY DEF Line
  <2> QED
    BY <2>1, HeardStill
<1> QED
  BY <1>1, <1>2 DEF Line

\* A choke or an unchoke.
LEMMA LineTold ==
  ASSUME NEW s \in Seq(Written), NEW t, NEW A, NEW c, NEW d \in BOOLEAN, NEW up,
         Line(t, s, A, c, up)
  PROVE  Line(t, Append(s, [kind |-> Word(d), index |-> NoIndex]), A, d, up)
<1> DEFINE m == [kind |-> Word(d), index |-> NoIndex]
<1>1. m \in Written /\ m.kind = Word(d) /\ m.kind # "piece"
  BY DEF Written, Word
<1>2. Wire(t, s, A)
  BY DEF Line
<1> HIDE DEF m
<1>3. Wire(t, Append(s, m), A)
  BY <1>1, <1>2, WireSent
<1>4. Heard(t, Append(s, m), Len(Append(s, m)) + 1, Word(d))
  BY <1>1, HeardNew
<1> QED
  BY <1>3, <1>4 DEF Line, m

\* The peer reads.
LEMMA LineRead ==
  ASSUME NEW s \in Seq(Written), s # <<>>, NEW t, NEW A, NEW c, NEW up, Line(t, s, A, c, up)
  PROVE  Line(Reads(t, s), Tail(s), A, c, up)
<1>1. Wire(Reads(t, s), Tail(s), A)
  BY WireRead DEF Line
<1>2. ASSUME up PROVE Heard(Reads(t, s), Tail(s), Len(Tail(s)) + 1, Word(c))
  <2>1. Len(s) \in Nat \ {0} /\ Len(Tail(s)) = Len(s) - 1
    BY TailOf
  <2>2. Len(s) \in 1 .. Len(s) /\ Len(Tail(s)) + 1 = Len(s)
    BY <2>1
  <2>3. Heard(t, s, Len(s) + 1, Word(c))
    BY <1>2 DEF Line
  <2>4. Word(c) \in {"choke", "unchoke"}
    BY DEF Word
  <2>5. Heard(Reads(t, s), Tail(s), Len(s), Word(c))
    BY <2>2, <2>3, <2>4, HeardAfter
  <2> QED
    BY <2>2, <2>5
<1> QED
  BY <1>1, <1>2 DEF Line

\* A link that is closed, and one that has just come up.
LEMMA LineEmpty ==
  ASSUME NEW A
  PROVE  /\ \A t, c : Line(t, <<>>, A, c, FALSE)
         /\ Line("choke", <<>>, A, TRUE, TRUE)
<1>1. \A t : Wire(t, <<>>, A)
  BY DEF Wire
<1>2. Heard("choke", <<>>, 1, "choke")
  BY DEF Heard
<1> QED
  BY <1>1, <1>2 DEF Line, Word

-----------------------------------------------------------------------------
(* The requests of one peer and what is owed for them.                      *)

Pair(r, o) ==
  /\ IsInjective(r)
  /\ \A i \in Pieces : o[i] = IF i \in ToSet(r) THEN 1 ELSE 0

LEMMA PairAdded ==
  ASSUME NEW r \in Seq(Pieces), NEW o \in [Pieces -> Nat], NEW i \in Pieces,
         i \notin ToSet(r), Pair(r, o)
  PROVE  Pair(Append(r, i), [o EXCEPT ![i] = @ + 1])
<1>1. /\ ToSet(Append(r, i)) = ToSet(r) \cup {i}
      /\ IsInjective(r) => IsInjective(Append(r, i))
  BY Appended
<1>2. o[i] = 0 /\ IsInjective(r) /\ \A j \in Pieces : o[j] = IF j \in ToSet(r) THEN 1 ELSE 0
  BY DEF Pair
<1>3. ASSUME NEW j \in Pieces
      PROVE  [o EXCEPT ![i] = @ + 1][j] = IF j \in ToSet(Append(r, i)) THEN 1 ELSE 0
  BY <1>1, <1>2
<1> QED
  BY <1>1, <1>2, <1>3 DEF Pair

\* A request is answered for: it was owed once.
LEMMA PairGone ==
  ASSUME NEW r \in Seq(Pieces), NEW o \in [Pieces -> Nat], NEW i \in ToSet(r), Pair(r, o),
         NEW q, IsInjective(q), ToSet(q) = ToSet(r) \ {i}
  PROVE  /\ i \in Pieces /\ Pair(q, [o EXCEPT ![i] = @ - 1])
         /\ [o EXCEPT ![i] = @ - 1] \in [Pieces -> Nat]
<1>1. i \in Pieces
  BY DEF ToSet
<1>2. o[i] = 1 /\ \A j \in Pieces : o[j] = IF j \in ToSet(r) THEN 1 ELSE 0
  BY <1>1 DEF Pair
<1>3. ASSUME NEW j \in Pieces
      PROVE  [o EXCEPT ![i] = @ - 1][j] = IF j \in ToSet(q) THEN 1 ELSE 0
  BY <1>1, <1>2
<1>4. [o EXCEPT ![i] = @ - 1] \in [Pieces -> Nat]
  BY <1>1, <1>2
<1> QED
  BY <1>1, <1>3, <1>4 DEF Pair

LEMMA PairNone == Pair(<<>>, Zero)
BY DEF Pair, Zero, IsInjective, ToSet

-----------------------------------------------------------------------------
(* The steps.                                                               *)

LineOf(p) == Line(heard[p], out[p], AllowedFast[p], choking[p], Up(p))
PairOf(p) == Pair(requests[p], owed[p])

Inv ==
  /\ ServingTypeOK
  /\ \A p \in Peers : LineOf(p)
  /\ \A p \in Peers : PairOf(p)

\* It is the run's invariant, link by link.
LEMMA InvMeans == Inv => UploadInv
<1> SUFFICES ASSUME Inv PROVE UploadInv
  OBVIOUS
<1>1. ServingTypeOK
  BY DEF Inv
<1>2. OwedOnce
  BY DEF Inv, PairOf, Pair, OwedOnce, Queued
<1>3. \A p \in Peers : \A j, what :
        Heard(heard[p], out[p], j, what) => ToldBefore(p, j, what)
  BY DEF Heard, Talks, ToldBefore, ChokeTalk
<1>4. NoPieceAfterChoke
  BY <1>3 DEF Inv, LineOf, Line, Wire, NoPieceAfterChoke
<1>5. ChokeTold
  <2>1. SUFFICES ASSUME NEW p \in ToSet(peerList)
                 PROVE ToldBefore(p, Len(out[p]) + 1, IF choking[p] THEN "choke" ELSE "unchoke")
    BY DEF ChokeTold
  <2>2. p \in Peers
    BY <1>1 DEF ServingTypeOK, ToSet
  <2>3. LineOf(p) /\ Up(p)
    BY <2>1, <2>2 DEF Inv, Up
  <2>4. Heard(heard[p], out[p], Len(out[p]) + 1, Word(choking[p]))
    BY <2>3 DEF LineOf, Line
  <2> QED
    BY <1>3, <2>2, <2>4 DEF Word
<1> QED
  BY <1>1, <1>2, <1>4, <1>5 DEF UploadInv

\* Who is up is a peer, and whoever has a client in the speed control is up.
LEMMA ClientsUp ==
  ASSUME ServingTypeOK
  PROVE  /\ \A p : Up(p) => p \in Peers
         /\ \A k \in DOMAIN clients : Up(clients[k]) /\ clients[k] \in Peers
<1>1. /\ peerList \in Seq(Peers) /\ clients \in Seq(Peers) /\ ToSet(clients) = ToSet(peerList)
  BY DEF ServingTypeOK
<1>2. \A p : Up(p) => p \in Peers
  BY <1>1 DEF Up, ToSet
<1>3. ASSUME NEW k \in DOMAIN clients PROVE Up(clients[k])
  <2>1. clients[k] \in ToSet(clients)
    BY DEF ToSet
  <2> QED
    BY <1>1, <2>1 DEF Up
<1> QED
  BY <1>2, <1>3

\* The records that most actions leave alone.
SameBooks == UNCHANGED <<requests, owed>>
SameWire == UNCHANGED <<peerList, choking, out, heard>>

LEMMA PairSame ==
  ASSUME Inv, SameBooks
  PROVE  \A p \in Peers : PairOf(p)'
BY DEF Inv, SameBooks, PairOf, Pair

LEMMA LineSame ==
  ASSUME Inv, SameWire
  PROVE  \A p \in Peers : LineOf(p)'
BY DEF Inv, SameWire, LineOf, Up

\* One peer is sent a message that is no choke or unchoke.
LEMMA SentTo ==
  ASSUME Inv, NEW p \in Peers, Up(p), NEW kind \in {"piece", "reject"}, NEW i \in Pieces,
         kind = "piece" /\ i \notin AllowedFast[p] => ~choking[p],
         Send(p, kind, i), UNCHANGED <<peerList, choking, heard>>
  PROVE  out' \in [Peers -> Seq(Written)] /\ \A q \in Peers : LineOf(q)'
<1> DEFINE m == [kind |-> kind, index |-> i]
<1>1. m \in Written /\ ~Talks(m) /\ m.kind = kind /\ m.index = i
  BY DEF Written, Talks
<1>2. out' = [out EXCEPT ![p] = Append(@, m)]
  BY DEF Send
<1>3. out \in [Peers -> Seq(Written)] /\ choking \in [Peers -> BOOLEAN]
  BY DEF Inv, ServingTypeOK
<1> HIDE DEF m
<1>4. Append(out[p], m) \in Seq(Written)
  BY <1>1, <1>3
<1>5. out' \in [Peers -> Seq(Written)]
  BY <1>2, <1>3, <1>4
<1>6. ASSUME NEW q \in Peers PROVE LineOf(q)'
  <2>1. Line(heard[q], out[q], AllowedFast[q], choking[q], Up(q))
    BY DEF Inv, LineOf
  <2>2. Up(q)' = Up(q) /\ heard'[q] = heard[q] /\ choking'[q] = choking[q]
    BY DEF Up
  <2>3. CASE q # p
    <3>1. out'[q] = out[q]
      BY <1>2, <1>3, <2>3
    <3> QED
      BY <2>1, <2>2, <3>1 DEF LineOf
  <2>4. CASE q = p
    <3>1. out'[p] = Append(out[p], m)
      BY <1>2, <1>3
    <3>2. Line(heard[p], out[p], AllowedFast[p], choking[p], TRUE)
      BY <2>1, <2>4 DEF Line
    <3>3. Line(heard[p], Append(out[p], m), AllowedFast[p], choking[p], TRUE)
      BY <1>1, <1>3, <3>2, LineSent
    <3>4. Line(heard[p], Append(out[p], m), AllowedFast[p], choking[p], Up(p))
      BY <3>3 DEF Line
    <3> QED
      BY <2>2, <2>4, <3>1, <3>4 DEF LineOf
  <2> QED
    BY <2>3, <2>4
<1> QED
  BY <1>5, <1>6

\* A request of one peer is answered for.
LEMMA GoneFrom ==
  ASSUME Inv, NEW p \in Peers, NEW i \in ToSet(requests[p]), NEW q \in Seq(Pieces),
         IsInjective(q), ToSet(q) = ToSet(requests[p]) \ {i},
         requests' = [requests EXCEPT ![p] = q], Answered(p, i)
  PROVE  /\ requests' \in [Peers -> Seq(Pieces)] /\ owed' \in [Peers -> [Pieces -> Nat]]
         /\ \A r \in Peers : PairOf(r)'
<1>1. requests \in [Peers -> Seq(Pieces)] /\ owed \in [Peers -> [Pieces -> Nat]]
  BY DEF Inv, ServingTypeOK
<1> DEFINE o == [owed[p] EXCEPT ![i] = @ - 1]
<1>2. owed' = [owed EXCEPT ![p] = o]
  BY DEF Answered
<1>3. Pair(requests[p], owed[p]) /\ requests[p] \in Seq(Pieces) /\ owed[p] \in [Pieces -> Nat]
  BY <1>1 DEF Inv, PairOf
<1>4. Pair(q, o) /\ o \in [Pieces -> Nat]
  BY <1>3, PairGone
<1> HIDE DEF o
<1>5. requests' \in [Peers -> Seq(Pieces)] /\ owed' \in [Peers -> [Pieces -> Nat]]
  BY <1>1, <1>2, <1>4
<1>6. ASSUME NEW r \in Peers PROVE PairOf(r)'
  <2>1. CASE r = p
    BY <1>1, <1>2, <1>4, <2>1 DEF PairOf
  <2>2. CASE r # p
    <3>1. requests'[r] = requests[r] /\ owed'[r] = owed[r] /\ Pair(requests[r], owed[r])
      BY <1>1, <1>2, <2>2 DEF Inv, PairOf
    <3> QED
      BY <3>1 DEF PairOf
  <2> QED
    BY <2>1, <2>2
<1> QED
  BY <1>5, <1>6

\* What the rounds keep of the list, the passes and those who are refused.
Passes == {"idle", "commands", "data", "extra", "forced"}
Lined ==
  /\ clients \in Seq(Peers) /\ IsInjective(clients) /\ ToSet(clients) = ToSet(peerList)
  /\ pass \in Passes /\ (pass # "idle" => turn \in DOMAIN clients)
  /\ behind \subseteq Peers /\ (uploadMode \/ pass # "data" => behind = {})

LEMMA RoundEnds ==
  ASSUME Lined, clients # <<>>, EndRound, UNCHANGED <<peerList, uploadMode>>
  PROVE  Lined'
<1>1. clients \in Seq(Peers) /\ IsInjective(clients) /\ ToSet(clients) = ToSet(peerList)
  BY DEF Lined
<1>2. clients' \in Seq(Peers) /\ IsInjective(clients') /\ ToSet(clients') = ToSet(clients)
  BY <1>1, RotatedOf DEF EndRound, Rotated
<1>3. pass' = "idle" /\ behind' = {}
  BY DEF EndRound
<1> QED
  BY <1>1, <1>2, <1>3 DEF Lined, Passes

\* A pass ends: the next one, or the end of the round.
LEMMA PassEnds ==
  ASSUME Lined, pass # "idle", NextPass, UNCHANGED <<peerList, uploadMode>>
  PROVE  Lined'
<1>1. /\ clients \in Seq(Peers) /\ IsInjective(clients) /\ ToSet(clients) = ToSet(peerList)
      /\ turn \in DOMAIN clients
  BY DEF Lined
<1>2. 1 \in DOMAIN clients /\ clients # <<>>
  BY <1>1
<1>3. CASE /\ pass' = "data" /\ turn' = 1 /\ UNCHANGED clients
           /\ behind' \in IF uploadMode THEN {{}} ELSE SUBSET Peers
  BY <1>1, <1>2, <1>3 DEF Lined, Passes
<1>4. CASE pass' \in {"extra", "forced"} /\ turn' = 1 /\ behind' = {} /\ UNCHANGED clients
  BY <1>1, <1>2, <1>4 DEF Lined, Passes
<1>5. CASE EndRound
  BY <1>2, <1>5, RoundEnds
<1> QED
  BY <1>3, <1>4, <1>5 DEF NextPass

\* A peer's turn ends: its own again, the next one's or the next pass.
LEMMA Turns ==
  ASSUME Lined, pass # "idle", NEW again \in BOOLEAN, NextTurn(again),
         UNCHANGED <<peerList, uploadMode>>
  PROVE  Lined'
<1>1. clients \in Seq(Peers) /\ turn \in DOMAIN clients
  BY DEF Lined
<1>2. DOMAIN clients = 1 .. Len(clients) /\ Len(clients) \in Nat
  BY <1>1
<1>3. CASE UNCHANGED <<turn, pass, clients, behind>>
  BY <1>3 DEF Lined
<1>4. CASE turn < Len(clients) /\ turn' = turn + 1 /\ UNCHANGED <<pass, clients, behind>>
  <2>1. turn + 1 \in DOMAIN clients
    BY <1>1, <1>2, <1>4
  <2> QED
    BY <1>4, <2>1 DEF Lined
<1>5. CASE NextPass
  BY <1>5, PassEnds
<1> QED
  BY <1>3, <1>4, <1>5 DEF NextTurn

\* A choke or unchoke for each peer of `choke` and `unchoke`.
LEMMA Adjusted ==
  ASSUME Inv, AdjustChoke
  PROVE  Inv'
<1> DEFINE choke == {p \in ToSet(peerList) : ~interested[p] /\ ~choking[p]}
           unchoke == {p \in Chosen : choking[p]}
           said == choke \cup unchoke
           next(p) == IF p \in choke THEN TRUE ELSE IF p \in unchoke THEN FALSE ELSE choking[p]
<1>1. /\ choking' = [p \in Peers |-> next(p)]
      /\ out' = [p \in Peers |->
            IF p \in choke THEN Append(out[p], [kind |-> "choke", index |-> NoIndex])
            ELSE IF p \in unchoke THEN Append(out[p], [kind |-> "unchoke", index |-> NoIndex])
            ELSE out[p]]
      /\ requests' = [p \in Peers |-> IF p \in choke \ Fast THEN <<>> ELSE requests[p]]
      /\ owed' = [p \in Peers |-> IF p \in choke \ Fast THEN Zero ELSE owed[p]]
      /\ UNCHANGED <<uploadMode, have, peerList, interested, heard, rounds>>
  BY DEF AdjustChoke
<1>2. ServingTypeOK
  BY DEF Inv
<1> HIDE DEF choke, unchoke
<1>3. ASSUME NEW p \in Peers PROVE next(p) \in BOOLEAN /\ choking'[p] = next(p)
  BY <1>1, <1>2 DEF ServingTypeOK
<1>4. ASSUME NEW p \in Peers
      PROVE out'[p] = IF p \in said
                      THEN Append(out[p], [kind |-> Word(next(p)), index |-> NoIndex]) ELSE out[p]
  BY <1>1 DEF Word
<1>5. ASSUME NEW p \in Peers, p \notin said PROVE choking'[p] = choking[p]
  BY <1>3, <1>5
<1> HIDE DEF said, next
<1>6. ASSUME NEW p \in Peers PROVE LineOf(p)' /\ out'[p] \in Seq(Written)
  <2>1. Line(heard[p], out[p], AllowedFast[p], choking[p], Up(p)) /\ out[p] \in Seq(Written)
    BY <1>2 DEF Inv, LineOf, ServingTypeOK
  <2>2. Up(p)' = Up(p) /\ heard'[p] = heard[p]
    BY <1>1 DEF Up
  <2>3. CASE p \in said
    <3>1. out'[p] = Append(out[p], [kind |-> Word(next(p)), index |-> NoIndex])
      BY <1>4, <2>3
    <3>2. [kind |-> Word(next(p)), index |-> NoIndex] \in Written
      BY DEF Written, Word
    <3>3. Line(heard[p], out'[p], AllowedFast[p], next(p), Up(p))
      BY <1>3, <2>1, <3>1, LineTold
    <3> QED
      BY <1>3, <2>1, <2>2, <3>1, <3>2, <3>3 DEF LineOf
  <2>4. CASE p \notin said
    BY <1>4, <1>5, <2>1, <2>2, <2>4 DEF LineOf
  <2> QED
    BY <2>3, <2>4
<1>7. ASSUME NEW p \in Peers
      PROVE  PairOf(p)' /\ requests'[p] \in Seq(Pieces) /\ owed'[p] \in [Pieces -> Nat]
  <2>1. /\ Pair(requests[p], owed[p])
        /\ requests[p] \in Seq(Pieces) /\ owed[p] \in [Pieces -> Nat]
    BY <1>2 DEF Inv, PairOf, ServingTypeOK
  <2>2. <<>> \in Seq(Pieces) /\ Zero \in [Pieces -> Nat]
    BY DEF Zero
  <2>3. \/ requests'[p] = <<>> /\ owed'[p] = Zero
        \/ requests'[p] = requests[p] /\ owed'[p] = owed[p]
    BY <1>1
  <2> QED
    BY <2>1, <2>2, <2>3, PairNone DEF PairOf
<1>8. ServingTypeOK'
  <2>1. choking' \in [Peers -> BOOLEAN]
    BY <1>1, <1>3
  <2>2. out' \in [Peers -> Seq(Written)]
    BY <1>1, <1>6
  <2>3. requests' \in [Peers -> Seq(Pieces)] /\ owed' \in [Peers -> [Pieces -> Nat]]
    BY <1>1, <1>7
  <2> QED
    BY <1>1, <1>2, <2>1, <2>2, <2>3 DEF ServingTypeOK, rounds
<1> QED
  BY <1>6, <1>7, <1>8 DEF Inv

\* The messages of a peer.
LEMMA AskedOf ==
  ASSUME Inv, NEW p \in Peers, NEW i \in Pieces, DoCmdRequest(p, i)
  PROVE  Inv'
<1>1. ServingTypeOK
  BY DEF Inv
<1>2. Asks(p, i) /\ Up(p) /\ UNCHANGED <<uploadMode, have, peerList, choking, interested, heard, rounds>>
  BY DEF DoCmdRequest, RequestFast, RequestDropped, RequestRejected, RequestQueued, Asks
<1>3. ASSUME Send(p, "piece", i), i \in AllowedFast[p], UNCHANGED <<requests, owed>> PROVE Inv'
  <2>1. out' \in [Peers -> Seq(Written)] /\ \A q \in Peers : LineOf(q)'
    BY <1>2, <1>3, SentTo
  <2>2. \A q \in Peers : PairOf(q)'
    BY <1>3, PairSame DEF SameBooks
  <2>3. ServingTypeOK'
    BY <1>1, <1>2, <1>3, <2>1 DEF ServingTypeOK, rounds
  <2> QED
    BY <2>1, <2>2, <2>3 DEF Inv
<1>4. ASSUME Send(p, "reject", i), UNCHANGED <<requests, owed>> PROVE Inv'
  <2>1. out' \in [Peers -> Seq(Written)] /\ \A q \in Peers : LineOf(q)'
    BY <1>2, <1>4, SentTo
  <2>2. \A q \in Peers : PairOf(q)'
    BY <1>4, PairSame DEF SameBooks
  <2>3. ServingTypeOK'
    BY <1>1, <1>2, <1>4, <2>1 DEF ServingTypeOK, rounds
  <2> QED
    BY <2>1, <2>2, <2>3 DEF Inv
<1>5. ASSUME UNCHANGED <<requests, owed, out>> PROVE Inv'
  <2>1. \A q \in Peers : LineOf(q)'
    BY <1>2, <1>5, LineSame DEF SameWire
  <2>2. \A q \in Peers : PairOf(q)'
    BY <1>5, PairSame DEF SameBooks
  <2>3. ServingTypeOK'
    BY <1>1, <1>2, <1>5 DEF ServingTypeOK, rounds
  <2> QED
    BY <2>1, <2>2, <2>3 DEF Inv
<1>6. CASE RequestQueued(p, i)
  <2>1. /\ i \notin ToSet(requests[p])
        /\ requests' = [requests EXCEPT ![p] = Append(@, i)]
        /\ owed' = [owed EXCEPT ![p] = [owed[p] EXCEPT ![i] = @ + 1]]
        /\ UNCHANGED out
    BY <1>6 DEF RequestQueued, Ignored, Queued
  <2>2. \A q \in Peers : LineOf(q)'
    BY <1>2, <2>1, LineSame DEF SameWire
  <2>3. requests \in [Peers -> Seq(Pieces)] /\ owed \in [Peers -> [Pieces -> Nat]]
    BY <1>1 DEF ServingTypeOK
  <2>4. /\ Pair(requests[p], owed[p])
        /\ requests[p] \in Seq(Pieces) /\ owed[p] \in [Pieces -> Nat]
    BY <2>3 DEF Inv, PairOf
  <2>5. Pair(Append(requests[p], i), [owed[p] EXCEPT ![i] = @ + 1])
    BY <2>1, <2>4, PairAdded
  <2>6. Append(requests[p], i) \in Seq(Pieces) /\ [owed[p] EXCEPT ![i] = @ + 1] \in [Pieces -> Nat]
    BY <2>4
  <2>7. ASSUME NEW q \in Peers PROVE PairOf(q)'
    <3>1. CASE q = p
      BY <2>1, <2>3, <2>5, <3>1 DEF PairOf
    <3>2. CASE q # p
      <4>1. requests'[q] = requests[q] /\ owed'[q] = owed[q] /\ Pair(requests[q], owed[q])
        BY <2>1, <2>3, <3>2 DEF Inv, PairOf
      <4> QED
        BY <4>1 DEF PairOf
    <3> QED
      BY <3>1, <3>2
  <2>8. requests' \in [Peers -> Seq(Pieces)] /\ owed' \in [Peers -> [Pieces -> Nat]]
    BY <2>1, <2>3, <2>6
  <2>9. ServingTypeOK'
    BY <1>1, <1>2, <2>1, <2>8 DEF ServingTypeOK, rounds
  <2> QED
    BY <2>2, <2>7, <2>9 DEF Inv
<1> QED
  BY <1>3, <1>4, <1>5, <1>6 DEF DoCmdRequest, RequestFast, RequestDropped, RequestRejected

LEMMA Cancelled ==
  ASSUME Inv, NEW p \in Peers, NEW i \in Pieces, DoCmdCancel(p, i)
  PROVE  Inv'
<1>1. /\ i \in ToSet(requests[p])
      /\ requests' = [requests EXCEPT ![p] = RemoveFirst(requests[p], i)]
      /\ Answered(p, i)
      /\ UNCHANGED <<uploadMode, have, peerList, choking, interested, out, heard, rounds>>
  BY DEF DoCmdCancel, Queued
<1>2. ServingTypeOK /\ requests[p] \in Seq(Pieces) /\ IsInjective(requests[p])
  BY DEF Inv, ServingTypeOK, PairOf, Pair
<1>3. /\ RemoveFirst(requests[p], i) \in Seq(Pieces) /\ IsInjective(RemoveFirst(requests[p], i))
      /\ ToSet(RemoveFirst(requests[p], i)) = ToSet(requests[p]) \ {i}
  BY <1>2, Removed
<1>4. /\ requests' \in [Peers -> Seq(Pieces)] /\ owed' \in [Peers -> [Pieces -> Nat]]
      /\ \A q \in Peers : PairOf(q)'
  BY <1>1, <1>3, GoneFrom
<1>5. \A q \in Peers : LineOf(q)'
  BY <1>1, LineSame DEF SameWire
<1>6. ServingTypeOK'
  BY <1>1, <1>2, <1>4 DEF ServingTypeOK, rounds
<1> QED
  BY <1>4, <1>5, <1>6 DEF Inv

LEMMA Uninterested ==
  ASSUME Inv, NEW p \in Peers, DoCmdNotInterested(p)
  PROVE  Inv'
<1>1. /\ Idle /\ Up(p)
      /\ interested' = [interested EXCEPT ![p] = FALSE]
      /\ requests' = [requests EXCEPT ![p] = <<>>]
      /\ owed' = [owed EXCEPT ![p] = Zero]
      /\ UNCHANGED <<uploadMode, have, choking, heard, budget, pass, turn, behind>>
  BY DEF DoCmdNotInterested
<1>2. \/ /\ peerList' = RemoveFirst(peerList, p) /\ clients' = RemoveFirst(clients, p)
         /\ out' = [out EXCEPT ![p] = <<>>]
      \/ UNCHANGED <<peerList, clients, out>>
  BY DEF DoCmdNotInterested
<1>3. /\ ServingTypeOK
      /\ peerList \in Seq(Peers) /\ IsInjective(peerList)
      /\ clients \in Seq(Peers) /\ IsInjective(clients) /\ ToSet(clients) = ToSet(peerList)
      /\ requests \in [Peers -> Seq(Pieces)] /\ owed \in [Peers -> [Pieces -> Nat]]
      /\ out \in [Peers -> Seq(Written)]
  BY DEF Inv, ServingTypeOK
<1>4. Zero \in [Pieces -> Nat] /\ <<>> \in Seq(Pieces) /\ <<>> \in Seq(Written)
  BY DEF Zero
<1>5. ASSUME NEW q \in Peers PROVE PairOf(q)'
  <2>1. Pair(requests[q], owed[q])
    BY DEF Inv, PairOf
  <2>2. CASE q = p
    BY <1>1, <1>3, <2>2, PairNone DEF PairOf
  <2>3. CASE q # p
    <3>1. requests'[q] = requests[q] /\ owed'[q] = owed[q]
      BY <1>1, <1>3, <2>3
    <3> QED
      BY <2>1, <3>1 DEF PairOf
  <2> QED
    BY <2>2, <2>3
<1>6. /\ peerList' \in Seq(Peers) /\ IsInjective(peerList')
      /\ clients' \in Seq(Peers) /\ IsInjective(clients') /\ ToSet(clients') = ToSet(peerList')
      /\ out' \in [Peers -> Seq(Written)]
      /\ \A q \in Peers : LineOf(q)'
  <2>1. CASE UNCHANGED <<peerList, clients, out>>
    BY <1>1, <1>3, <2>1, LineSame DEF SameWire
  <2>2. CASE /\ peerList' = RemoveFirst(peerList, p) /\ clients' = RemoveFirst(clients, p)
             /\ out' = [out EXCEPT ![p] = <<>>]
    <3>1. /\ peerList' \in Seq(Peers) /\ IsInjective(peerList') /\ ToSet(peerList') = ToSet(peerList) \ {p}
      BY <1>3, <2>2, Removed
    <3>2. /\ clients' \in Seq(Peers) /\ IsInjective(clients')
          /\ ToSet(clients') = ToSet(clients) \ {p}
      BY <1>3, <2>2, Removed
    <3>3. ASSUME NEW q \in Peers PROVE LineOf(q)'
      <4>1. Line(heard[q], out[q], AllowedFast[q], choking[q], Up(q))
        BY DEF Inv, LineOf
      <4>2. heard'[q] = heard[q] /\ choking'[q] = choking[q]
        BY <1>1
      <4>3. CASE q = p
        <5>1. out'[q] = <<>> /\ Up(q)' = FALSE
          BY <1>3, <2>2, <3>1, <4>3 DEF Up
        <5> QED
          BY <4>2, <5>1, LineEmpty DEF LineOf
      <4>4. CASE q # p
        <5>1. out'[q] = out[q] /\ Up(q)' = Up(q)
          BY <1>3, <2>2, <3>1, <4>4 DEF Up
        <5> QED
          BY <4>1, <4>2, <5>1 DEF LineOf
      <4> QED
        BY <4>3, <4>4
    <3>4. out' \in [Peers -> Seq(Written)]
      BY <1>3, <1>4, <2>2
    <3> QED
      BY <1>3, <3>1, <3>2, <3>3, <3>4
  <2> QED
    BY <1>2, <2>1, <2>2
<1>7. requests' \in [Peers -> Seq(Pieces)] /\ owed' \in [Peers -> [Pieces -> Nat]]
  BY <1>1, <1>3, <1>4
<1>8. ServingTypeOK'
  BY <1>1, <1>3, <1>6, <1>7 DEF ServingTypeOK, Idle
<1> QED
  BY <1>5, <1>6, <1>8 DEF Inv

\* The rounds.  Whoever's turn it is is up.
LEMMA Round ==
  ASSUME ServingAssumption, Inv, SpeedControl
  PROVE  Inv'
<1>1. /\ ServingTypeOK /\ Limit \in Nat
      /\ clients \in Seq(Peers)
      /\ budget \in 0 .. Limit
      /\ requests \in [Peers -> Seq(Pieces)]
  BY DEF Inv, ServingTypeOK, ServingAssumption
<1>2. Lined
  BY <1>1 DEF ServingTypeOK, Lined, Passes
<1>3. UNCHANGED <<uploadMode, have, peerList, choking, interested, heard>>
  BY DEF SpeedControl, StartUpload, UpdateClient, Commands, Serve, ReadFails, SkipClient,
         RunOff, links
<1>4. Lined'
  <2>1. CASE StartUpload
    <3>1. 1 \in DOMAIN clients
      BY <1>1, <2>1 DEF StartUpload
    <3> QED
      BY <1>2, <1>3, <2>1, <3>1 DEF StartUpload, Lined, Passes, Idle
  <2>2. CASE UpdateClient
    BY <1>2, <1>3, <2>2, RoundEnds DEF UpdateClient
  <2>3. CASE RunOff
    <3>1. clients # <<>>
      BY <1>1, <1>2, <2>3 DEF RunOff, Lined, Idle
    <3> QED
      BY <1>2, <1>3, <2>3, <3>1, RoundEnds DEF RunOff
  <2>4. CASE Commands
    <3>1. CASE UNCHANGED <<turn, pass, clients, behind>>
      BY <1>2, <1>3, <3>1 DEF Lined
    <3>2. CASE NextPass
      BY <1>2, <1>3, <2>4, <3>2, PassEnds DEF Commands
    <3> QED
      BY <2>4, <3>1, <3>2 DEF Commands
  <2>5. ASSUME NEW again \in BOOLEAN, NextTurn(again), pass # "idle" PROVE Lined'
    BY <1>2, <1>3, <2>5, Turns
  <2>6. CASE Serve
    <3>1. PICK more \in BOOLEAN : NextTurn(more /\ pass = "data" /\ ~uploadMode)
      BY <2>6 DEF Serve
    <3>2. (more /\ pass = "data" /\ ~uploadMode) \in BOOLEAN
      OBVIOUS
    <3> QED
      BY <2>5, <2>6, <3>1, <3>2 DEF Serve, Writes
  <2>7. CASE ReadFails
    BY <2>5, <2>7 DEF ReadFails, Writes
  <2>8. CASE SkipClient
    BY <2>5, <2>8 DEF SkipClient, Idle
  <2> QED
    BY <2>1, <2>2, <2>3, <2>4, <2>6, <2>7, <2>8 DEF SpeedControl
<1>5. budget' \in 0 .. Limit
  <2>1. CASE Serve
    <3>1. budget > 0 /\ budget' = budget - 1
      BY <2>1 DEF Serve
    <3> QED
      BY <1>1, <3>1
  <2>2. CASE Commands
    <3>1. budget' \in 0 .. budget
      BY <2>2 DEF Commands
    <3> QED
      BY <1>1, <3>1
  <2> QED
    BY <1>1, <2>1, <2>2 DEF SpeedControl, StartUpload, UpdateClient, ReadFails, SkipClient, RunOff
<1>6. ASSUME UNCHANGED <<links, owed>> PROVE Inv'
  <2>1. \A q \in Peers : LineOf(q)'
    BY <1>6, LineSame DEF SameWire, links
  <2>2. \A q \in Peers : PairOf(q)'
    BY <1>6, PairSame DEF SameBooks, links
  <2>3. ServingTypeOK'
    BY <1>1, <1>3, <1>4, <1>5, <1>6 DEF ServingTypeOK, Lined, Passes, links
  <2> QED
    BY <2>1, <2>2, <2>3 DEF Inv
<1>7. CASE Serve \/ ReadFails
  <2>1. PICK p \in Peers : p = Client /\ Up(p)
    <3>1. turn \in DOMAIN clients
      BY <1>2, <1>7 DEF Serve, ReadFails, Writes, Lined
    <3> QED
      BY <1>1, <3>1, ClientsUp DEF Client
  <2> DEFINE i == Head(requests[p])
  <2>2. /\ ~choking[p] /\ requests[p] # <<>>
        /\ requests' = [requests EXCEPT ![p] = Tail(requests[p])]
        /\ Answered(p, i)
        /\ Send(p, "piece", i) \/ UNCHANGED out
    BY <1>7, <2>1 DEF Serve, ReadFails, MayServe
  <2>3. requests[p] \in Seq(Pieces) /\ IsInjective(requests[p])
    BY <1>1 DEF Inv, PairOf, Pair
  <2>4. /\ Tail(requests[p]) \in Seq(Pieces) /\ i \in Pieces /\ i \in ToSet(requests[p])
        /\ IsInjective(Tail(requests[p]))
        /\ ToSet(Tail(requests[p])) = ToSet(requests[p]) \ {i}
    BY <2>2, <2>3, TailOf
  <2> HIDE DEF i
  <2>5. /\ requests' \in [Peers -> Seq(Pieces)] /\ owed' \in [Peers -> [Pieces -> Nat]]
        /\ \A q \in Peers : PairOf(q)'
    BY <2>2, <2>4, GoneFrom
  <2>6. out' \in [Peers -> Seq(Written)] /\ \A q \in Peers : LineOf(q)'
    <3>1. CASE Send(p, "piece", i)
      BY <1>3, <2>1, <2>2, <2>4, <3>1, SentTo
    <3>2. CASE UNCHANGED out
      BY <1>1, <1>3, <3>2, LineSame DEF SameWire, ServingTypeOK
    <3> QED
      BY <2>2, <3>1, <3>2
  <2>7. ServingTypeOK'
    BY <1>1, <1>3, <1>4, <1>5, <2>5, <2>6 DEF ServingTypeOK, Lined, Passes
  <2> QED
    BY <2>5, <2>6, <2>7 DEF Inv
<1> QED
  BY <1>6, <1>7 DEF SpeedControl, StartUpload, UpdateClient, Commands, SkipClient, RunOff

\* A peer reads what it was sent.
LEMMA ReadOne ==
  ASSUME Inv, NEW p \in Peers, PeerReads(p)
  PROVE  Inv'
<1>1. /\ out[p] # <<>> /\ out' = [out EXCEPT ![p] = Tail(@)]
      /\ heard' = [heard EXCEPT ![p] = Reads(heard[p], out[p])]
      /\ UNCHANGED <<uploadMode, have, peerList, choking, interested, requests, owed, rounds>>
  BY DEF PeerReads, Reads, Talks
<1>2. ServingTypeOK /\ out \in [Peers -> Seq(Written)] /\ heard \in [Peers -> {"choke", "unchoke"}]
  BY DEF Inv, ServingTypeOK
<1>3. Tail(out[p]) \in Seq(Written) /\ Reads(heard[p], out[p]) \in {"choke", "unchoke"}
  BY <1>1, <1>2, TailOf DEF Reads, Talks
<1>4. ASSUME NEW q \in Peers PROVE LineOf(q)'
  <2>1. Line(heard[q], out[q], AllowedFast[q], choking[q], Up(q))
    BY DEF Inv, LineOf
  <2>2. choking'[q] = choking[q] /\ Up(q)' = Up(q)
    BY <1>1 DEF Up
  <2>3. CASE q = p
    <3>1. Line(Reads(heard[p], out[p]), Tail(out[p]), AllowedFast[p], choking[p], Up(p))
      BY <1>1, <1>2, <2>1, <2>3, LineRead
    <3> QED
      BY <1>1, <1>2, <2>2, <2>3, <3>1 DEF LineOf
  <2>4. CASE q # p
    <3>1. out'[q] = out[q] /\ heard'[q] = heard[q]
      BY <1>1, <1>2, <2>4
    <3> QED
      BY <2>1, <2>2, <3>1 DEF LineOf
  <2> QED
    BY <2>3, <2>4
<1>5. \A q \in Peers : PairOf(q)'
  BY <1>1, PairSame DEF SameBooks
<1>6. out' \in [Peers -> Seq(Written)] /\ heard' \in [Peers -> {"choke", "unchoke"}]
  BY <1>1, <1>2, <1>3
<1>7. ServingTypeOK'
  BY <1>1, <1>2, <1>6 DEF ServingTypeOK, rounds
<1> QED
  BY <1>4, <1>5, <1>7 DEF Inv

\* A step that touches neither the links nor the rounds' order.
LEMMA Aside ==
  ASSUME ServingAssumption, Inv,
         \/ \E p \in Peers : DoCmdInterested(p)
         \/ Refill
         \/ \E i \in Pieces : GetsPiece(i)
         \/ UNCHANGED servingVars
  PROVE  Inv'
<1>1. SameWire /\ SameBooks
  BY DEF SameWire, SameBooks, DoCmdInterested, Refill, GetsPiece, servingVars, links
<1>2. (\A p \in Peers : LineOf(p)') /\ (\A p \in Peers : PairOf(p)')
  BY <1>1, LineSame, PairSame
<1>3. ServingTypeOK /\ Limit \in 0 .. Limit
  BY DEF Inv, ServingAssumption
<1>4. ServingTypeOK'
  <2>1. CASE \E p \in Peers : DoCmdInterested(p)
    <3>1. /\ interested' \in [Peers -> BOOLEAN]
          /\ UNCHANGED <<uploadMode, have, peerList, choking, requests, out, heard, owed, rounds>>
      BY <1>3, <2>1 DEF ServingTypeOK, DoCmdInterested
    <3> QED
      BY <1>3, <3>1 DEF ServingTypeOK, rounds
  <2>2. CASE Refill
    BY <1>3, <2>2 DEF ServingTypeOK, Refill, links
  <2>3. CASE \E i \in Pieces : GetsPiece(i)
    <3>1. have' \subseteq Pieces /\ UNCHANGED <<uploadMode, links, owed, rounds>>
      BY <1>3, <2>3 DEF ServingTypeOK, GetsPiece
    <3> QED
      BY <1>3, <3>1 DEF ServingTypeOK, links, rounds
  <2>4. CASE UNCHANGED servingVars
    BY <1>3, <2>4 DEF ServingTypeOK, servingVars, links, rounds
  <2> QED
    BY <2>1, <2>2, <2>3, <2>4
<1> QED
  BY <1>2, <1>4 DEF Inv

-----------------------------------------------------------------------------
(* The theorem.                                                             *)

\* The links have just come up: nothing is written, all are choked and know it.
LEMMA InvInit ==
  ASSUME ServingAssumption, ServingInit
  PROVE  Inv
<1>1. /\ have \subseteq Pieces /\ Limit \in 0 .. Limit
      /\ Order \in Seq(Peers) /\ IsInjective(Order)
  BY DEF ServingInit, ServingAssumption
<1>2. Zero \in [Pieces -> Nat] /\ <<>> \in Seq(Pieces) /\ <<>> \in Seq(Written)
  BY DEF Zero
<1>3. ServingTypeOK
  BY <1>1, <1>2 DEF ServingInit, ServingTypeOK
<1>4. ASSUME NEW p \in Peers PROVE LineOf(p)
  <2>1. heard[p] = "choke" /\ out[p] = <<>> /\ choking[p] = TRUE
    BY DEF ServingInit
  <2>2. Up(p)
    BY DEF ServingInit, Up, ServingAssumption
  <2>3. Line("choke", <<>>, AllowedFast[p], TRUE, TRUE)
    BY LineEmpty
  <2> QED
    BY <2>1, <2>2, <2>3 DEF LineOf, Line
<1>5. ASSUME NEW p \in Peers PROVE PairOf(p)
  BY PairNone DEF ServingInit, PairOf
<1> QED
  BY <1>3, <1>4, <1>5 DEF Inv

LEMMA InvNext ==
  ASSUME ServingAssumption, Inv, [ServingNext]_servingVars
  PROVE  Inv'
<1>1. CASE \E p \in Peers : PeerMessages(p)
  <2>1. PICK p \in Peers : PeerMessages(p)
    BY <1>1
  <2>2. CASE \E i \in Pieces : DoCmdRequest(p, i)
    BY <2>2, AskedOf
  <2>3. CASE \E i \in Pieces : DoCmdCancel(p, i)
    BY <2>3, Cancelled
  <2>4. CASE DoCmdInterested(p)
    BY <2>4, Aside
  <2>5. CASE DoCmdNotInterested(p)
    BY <2>5, Uninterested
  <2> QED
    BY <2>1, <2>2, <2>3, <2>4, <2>5 DEF PeerMessages
<1>2. CASE \E p \in Peers : PeerReads(p)
  BY <1>2, ReadOne
<1>3. CASE AdjustChoke
  BY <1>3, Adjusted
<1>4. CASE SpeedControl
  BY <1>4, Round
<1>5. CASE Refill \/ (\E i \in Pieces : GetsPiece(i)) \/ UNCHANGED servingVars
  BY <1>5, Aside
<1> QED
  BY <1>1, <1>2, <1>3, <1>4, <1>5 DEF ServingNext

\* Whatever the peers ask for, take back and read, and however they are choked and
\* served in between, every request that was taken is owed once until it is answered
\* for, no piece follows a choke on the wire, and every link knows, or will have
\* read, whether it is choked.
THEOREM UploadHolds ==
  ASSUME ServingAssumption
  PROVE  ServingSpec => []UploadInv
<1>1. ServingInit => Inv
  BY InvInit
<1>2. Inv /\ [ServingNext]_servingVars => Inv'
  BY InvNext
<1>3. Inv => UploadInv
  BY InvMeans
<1> QED
  BY <1>1, <1>2, <1>3, PTL DEF ServingSpec

-----------------------------------------------------------------------------
(* A download never takes itself for finished too early.                   *)

\* The rest of the list of sessions is a list, and empty after the last one.
LEMMA TailList ==
    ASSUME NEW list \in Seq(Sessions), list # <<>>
    PROVE  /\ Head(list) \in Sessions
           /\ Tail(list) \in Seq(Sessions)
           /\ Len(list) # 1 => Tail(list) # <<>>
<1>1. /\ Head(list) \in Sessions
      /\ Tail(list) \in Seq(Sessions)
      /\ Len(Tail(list)) = Len(list) - 1
  BY HeadTailProperties
<1>2. Len(list) # 1 => Len(Tail(list)) # 0
  <2>1. Len(list) \in Nat
    BY LenProperties
  <2> QED
    BY <1>1, <2>1
<1> QED
  BY <1>1, <1>2, EmptySeq

\* Every action keeps the invariant: pieces are only ever added, so what a
\* scan has seen stays stored.
LEMMA FinishInvStep == FinishInv /\ [Next]_vars => FinishInv'
<1> SUFFICES ASSUME FinishInv, [Next]_vars PROVE FinishInv'
  OBVIOUS
<1> USE SessionOfAssumption, ListAssumption, LastPieceAssumption, WantedAssumption
    DEF FinishInv, flags, admins, threads, Goto
<1>1. ASSUME NEW s \in Sessions, StorePiece(s) PROVE FinishInv'
  <2>1. TypeOK'
    BY <1>1 DEF StorePiece, TypeOK, AllPieces
  <2>2. ScanSound'
    BY <1>1 DEF StorePiece, TypeOK, ScanSound, Complete, AllPieces, Calling
  <2>3. NoFalseFinish'
    BY <1>1 DEF StorePiece, TypeOK, ScanSound, NoFalseFinish, Complete, AllPieces
  <2>9. OwnPeers'
    BY <1>1 DEF StorePiece, TypeOK, OwnPeers
  <2> QED
    BY <2>9, <2>1, <2>2, <2>3
<1>2. ASSUME NEW s \in Sessions, Scan(s) PROVE FinishInv'
  <2>0. /\ pc[s] = "scan" /\ at[s] \in 1 .. LastPiece + 1
        /\ UNCHANGED <<finished, complete, mode, switch, members, upload, todo, round>>
    BY <1>2 DEF Scan, TypeOK
  <2>4. OwnPeers'
    BY <1>2 DEF Scan, OwnPeers
  <2>1. CASE at[s] > LastPiece /\ flag' = TRUE /\ pc' = [pc EXCEPT ![s] = "decide"] /\ at' = at
    <3>1. Complete
      BY <2>0, <2>1, WantedAssumption, LastPieceAssumption DEF ScanSound, Complete
    <3>2. TypeOK'
      BY <2>0, <2>1 DEF TypeOK
    <3>3. ScanSound'
      BY <2>0, <2>1 DEF TypeOK, ScanSound, Complete
    <3>4. NoFalseFinish'
      BY <2>0, <2>1, <3>1 DEF NoFalseFinish, Complete
    <3> QED
      BY <2>4, <3>2, <3>3, <3>4
  <2>2. CASE pc' = [pc EXCEPT ![s] = "missing"] /\ flag' = flag /\ at' = at
    <3>1. TypeOK'
      BY <2>0, <2>2 DEF TypeOK
    <3>2. ScanSound'
      BY <2>0, <2>2 DEF TypeOK, ScanSound, Complete
    <3>3. NoFalseFinish'
      BY <2>0, <2>2 DEF NoFalseFinish, Complete
    <3> QED
      BY <2>4, <3>1, <3>2, <3>3
  <2>3. CASE /\ at[s] <= LastPiece /\ at[s] \notin Wanted \ finished
             /\ at' = [at EXCEPT ![s] = @ + 1] /\ flag' = flag /\ pc' = pc
    <3>1. at[s] + 1 \in 1 .. LastPiece + 1
      BY <2>0, <2>3
    <3>2. \A i \in Wanted : i < at[s] + 1 => i \in finished
      BY <2>0, <2>3 DEF ScanSound
    <3>3. TypeOK'
      BY <2>0, <2>3, <3>1 DEF TypeOK
    <3>4. ScanSound'
      BY <2>0, <2>3, <3>2 DEF TypeOK, ScanSound, Complete
    <3>5. NoFalseFinish'
      BY <2>0, <2>3 DEF NoFalseFinish, Complete
    <3> QED
      BY <2>4, <3>3, <3>4, <3>5
  <2>5. TypeOK' /\ ScanSound' /\ NoFalseFinish'
    <3>1. CASE at[s] > LastPiece
      BY <1>2, <2>0, <2>1, <3>1 DEF Scan
    <3>2. CASE at[s] <= LastPiece /\ at[s] \in Wanted \ finished
      BY <1>2, <2>0, <2>2, <3>2 DEF Scan
    <3>3. CASE at[s] <= LastPiece /\ at[s] \notin Wanted \ finished
      BY <1>2, <2>0, <2>3, <3>3 DEF Scan
    <3> QED
      BY <2>0, <3>1, <3>2, <3>3
  <2> QED
    BY <2>4, <2>5
<1>3. ASSUME NEW s \in Sessions, ScanFailed(s) PROVE FinishInv'
  <2>1. TypeOK'
    BY <1>3 DEF ScanFailed, TypeOK, AllPieces
  <2>2. ScanSound'
    BY <1>3 DEF ScanFailed, TypeOK, ScanSound, Complete, AllPieces, Calling
  <2>3. NoFalseFinish'
    BY <1>3 DEF ScanFailed, TypeOK, ScanSound, NoFalseFinish, Complete, AllPieces
  <2>9. OwnPeers'
    BY <1>3 DEF ScanFailed, TypeOK, OwnPeers
  <2> QED
    BY <2>9, <2>1, <2>2, <2>3
<1>4. ASSUME NEW s \in Sessions, Decide(s) PROVE FinishInv'
  <2>1. TypeOK'
    <3>1. complete' \in BOOLEAN
      <4>1. complete' = complete \/ complete' = (complete \/ finished = AllPieces)
        BY <1>4 DEF Decide
      <4> QED
        BY <4>1 DEF TypeOK
    <3>2. pc' \in [Sessions -> {"idle", "scan", "missing", "decide", "calls", "raised", "switch"}]
      BY <1>4 DEF Decide, TypeOK
    <3>3. todo' \in [Sessions -> Seq(Sessions)]
      BY <1>4 DEF Decide, TypeOK
    <3>4. UNCHANGED <<finished, flag, mode, switch, members, upload, at, round>>
      BY <1>4 DEF Decide
    <3> QED
      BY <3>1, <3>2, <3>3, <3>4 DEF TypeOK
  <2>2. ScanSound'
    <3>1. CASE flag
      <4>1. Complete
        BY <3>1 DEF NoFalseFinish
      <4> QED
        BY <1>4, <3>1, <4>1 DEF Decide, TypeOK, ScanSound, Complete
    <3>2. CASE ~flag
      BY <1>4, <3>2 DEF Decide, TypeOK, ScanSound, Complete
    <3> QED
      BY <3>1, <3>2
  <2>3. NoFalseFinish'
    BY <1>4 DEF Decide, TypeOK, ScanSound, NoFalseFinish, Complete, AllPieces
  <2>9. OwnPeers'
    BY <1>4 DEF Decide, TypeOK, OwnPeers
  <2> QED
    BY <2>9, <2>1, <2>2, <2>3
<1>5. ASSUME NEW s \in Sessions, Call(s) PROVE FinishInv'
  <2>1. todo[s] # <<>> /\ todo[s] \in Seq(Sessions)
    BY <1>5 DEF Call, ScanSound, TypeOK
  <2>2. /\ Head(todo[s]) \in Sessions
        /\ Tail(todo[s]) \in Seq(Sessions)
        /\ Len(todo[s]) # 1 => Tail(todo[s]) # <<>>
    BY <2>1, TailList
  <2>3. TypeOK'
    <3>1. CASE mode[Head(todo[s])]
      <4>1. /\ todo' = [todo EXCEPT ![s] = Tail(todo[s])]
            /\ pc' = [pc EXCEPT ![s] = IF Len(todo[s]) = 1 THEN "idle" ELSE "calls"]
            /\ UNCHANGED <<finished, flag, complete, mode, switch, members, upload, at, round>>
        BY <1>5, <3>1 DEF Call, NextCall
      <4> QED
        BY <2>2, <4>1 DEF TypeOK
    <3>2. CASE ~mode[Head(todo[s])]
      BY <1>5, <2>2, <3>2 DEF Call, TypeOK
    <3> QED
      BY <3>1, <3>2
  <2>4. ScanSound'
    BY <1>5, <2>2 DEF Call, NextCall, TypeOK, ScanSound, Complete
  <2>5. NoFalseFinish'
    BY <1>5, <2>2 DEF Call, NextCall, TypeOK, ScanSound, NoFalseFinish, Complete
  <2>9. OwnPeers'
    BY <1>5 DEF Call, NextCall, TypeOK, OwnPeers
  <2> QED
    BY <2>9, <2>3, <2>4, <2>5
<1>6. ASSUME NEW s \in Sessions, SetMode(s) PROVE FinishInv'
  <2>1. todo[s] # <<>> /\ todo[s] \in Seq(Sessions)
    BY <1>6 DEF SetMode, ScanSound, TypeOK
  <2>2. /\ Head(todo[s]) \in Sessions
        /\ Tail(todo[s]) \in Seq(Sessions)
        /\ Len(todo[s]) # 1 => Tail(todo[s]) # <<>>
    BY <2>1, TailList
  <2>3. TypeOK'
    BY <1>6, <2>2 DEF SetMode, NextCall, TypeOK
  <2>4. ScanSound'
    BY <1>6, <2>2 DEF SetMode, NextCall, TypeOK, ScanSound, Complete
  <2>5. NoFalseFinish'
    BY <1>6, <2>2 DEF SetMode, NextCall, TypeOK, ScanSound, NoFalseFinish, Complete
  <2>9. OwnPeers'
    BY <1>6 DEF SetMode, NextCall, TypeOK, OwnPeers
  <2> QED
    BY <2>9, <2>3, <2>4, <2>5
<1>7. ASSUME NEW s \in Sessions, SwitchBegin(s) PROVE FinishInv'
  <2>1. TypeOK'
    BY <1>7 DEF SwitchBegin, TypeOK, AllPieces
  <2>2. ScanSound'
    BY <1>7 DEF SwitchBegin, TypeOK, ScanSound, Complete, AllPieces, Calling
  <2>3. NoFalseFinish'
    BY <1>7 DEF SwitchBegin, TypeOK, ScanSound, NoFalseFinish, Complete, AllPieces
  <2>9. OwnPeers'
    BY <1>7 DEF SwitchBegin, TypeOK, OwnPeers
  <2> QED
    BY <2>9, <2>1, <2>2, <2>3
<1>8. ASSUME NEW s \in Sessions, SwitchPeer(s) PROVE FinishInv'
  <2>1. PICK p \in Contacts :
          /\ round' = [round EXCEPT ![s] = @ \ {p}]
          /\ upload' = [upload EXCEPT ![p] = mode[s]]
          /\ p \in round[s]
          /\ \/ UNCHANGED members
             \/ mode[s] /\ members' = [members EXCEPT ![s] = @ \ {p}]
    BY <1>8 DEF SwitchPeer, TypeOK
  <2>2. UNCHANGED <<finished, flag, complete, mode, switch, pc, at, todo>>
    BY <1>8 DEF SwitchPeer
  <2>3. SessionOf[p] = s
    BY <2>1 DEF OwnPeers, TypeOK
  <2>4. /\ round' \in [Sessions -> SUBSET Contacts]
        /\ upload' \in [Contacts -> BOOLEAN]
        /\ members' \in [Sessions -> SUBSET Contacts]
    <3>1. round' \in [Sessions -> SUBSET Contacts]
      BY <2>1 DEF TypeOK
    <3>2. upload' \in [Contacts -> BOOLEAN]
      BY <2>1 DEF TypeOK
    <3>3. members' \in [Sessions -> SUBSET Contacts]
      <4>1. CASE members' = members
        BY <4>1 DEF TypeOK
      <4>2. CASE members' = [members EXCEPT ![s] = @ \ {p}]
        BY <4>2 DEF TypeOK
      <4> QED
        BY <2>1, <4>1, <4>2
    <3> QED
      BY <3>1, <3>2, <3>3
  <2>5. TypeOK'
    BY <2>2, <2>4 DEF TypeOK
  <2>6. ScanSound' /\ NoFalseFinish'
    BY <2>1, <2>2, <2>3 DEF TypeOK, ScanSound, NoFalseFinish, Complete
  <2>7. OwnPeers'
    BY <2>1, <2>2 DEF OwnPeers, TypeOK
  <2> QED
    BY <2>5, <2>6, <2>7
<1>9. ASSUME NEW s \in Sessions, SwitchEnd(s) PROVE FinishInv'
  <2>1. TypeOK'
    BY <1>9 DEF SwitchEnd, Switching, TypeOK, AllPieces
  <2>2. ScanSound'
    BY <1>9 DEF SwitchEnd, Switching, TypeOK, ScanSound, Complete, AllPieces, Calling
  <2>3. NoFalseFinish'
    BY <1>9 DEF SwitchEnd, Switching, TypeOK, ScanSound, NoFalseFinish, Complete, AllPieces
  <2>9. OwnPeers'
    BY <1>9 DEF SwitchEnd, TypeOK, OwnPeers
  <2> QED
    BY <2>9, <2>1, <2>2, <2>3
<1>10. ASSUME NEW p \in Contacts, Join(p) PROVE FinishInv'
  <2>1. TypeOK'
    BY <1>10 DEF Join, Switching, TypeOK, AllPieces
  <2>2. ScanSound'
    BY <1>10 DEF Join, Switching, TypeOK, ScanSound, Complete, AllPieces, Calling
  <2>3. NoFalseFinish'
    BY <1>10 DEF Join, Switching, TypeOK, ScanSound, NoFalseFinish, Complete, AllPieces
  <2>9. OwnPeers'
    BY <1>10 DEF Join, TypeOK, OwnPeers
  <2> QED
    BY <2>9, <2>1, <2>2, <2>3
<1>11. ASSUME NEW p \in Contacts, Leave(p) PROVE FinishInv'
  <2>1. TypeOK'
    BY <1>11 DEF Leave, TypeOK, AllPieces
  <2>2. ScanSound'
    BY <1>11 DEF Leave, TypeOK, ScanSound, Complete, AllPieces, Calling
  <2>3. NoFalseFinish'
    BY <1>11 DEF Leave, TypeOK, ScanSound, NoFalseFinish, Complete, AllPieces
  <2>9. OwnPeers'
    BY <1>11 DEF Leave, TypeOK, OwnPeers
  <2> QED
    BY <2>9, <2>1, <2>2, <2>3
<1>12. CASE UNCHANGED vars
  BY <1>12 DEF vars, TypeOK, ScanSound, OwnPeers, NoFalseFinish, Complete
<1> QED
  BY <1>1, <1>2, <1>3, <1>4, <1>5, <1>6, <1>7, <1>8, <1>9, <1>10, <1>11, <1>12
     DEF Next, Writing, SwitchMode

\* The invariant holds at first.
LEMMA FinishInvInit == Init => FinishInv
<1> SUFFICES ASSUME Init PROVE FinishInv
  OBVIOUS
<1>1. TypeOK
  <2>1. <<>> \in Seq(Sessions)
    OBVIOUS
  <2>2. 1 \in 1 .. LastPiece + 1
    BY LastPieceAssumption
  <2> QED
    BY <2>1, <2>2 DEF Init, TypeOK
<1>2. ScanSound /\ OwnPeers /\ NoFalseFinish
  BY WantedAssumption, LastPieceAssumption
     DEF Init, ScanSound, OwnPeers, NoFalseFinish, AllPieces
<1> QED
  BY <1>1, <1>2 DEF FinishInv

\* No session, peer or tracker is told that the download is finished while a
\* wanted piece is missing, for any number of threads, peers and pieces.
THEOREM NeverFinishedEarly == Spec => []NoFalseFinish
<1>1. FinishInv => NoFalseFinish
  BY DEF FinishInv
<1> QED
  BY FinishInvInit, FinishInvStep, <1>1, PTL DEF Spec
=============================================================================
