------------------------------ MODULE KBucket ------------------------------
(***************************************************************************)
(* One bucket of the DHT routing table (KBucket.cpp, KBucketEntry.cpp): a  *)
(* list of entries, the one heard from last at its end, and the list of    *)
(* nodes that wait for the answer of a questionable entry.                 *)
(*                                                                         *)
(* Every entry is put into the list through the copy constructor, which    *)
(* leaves m_nFailed unset: whether a new entry counts as bad is open.      *)
(***************************************************************************)
EXTENDS Naturals, Sequences, SequencesExt

CONSTANTS
    Keys,           \* the keys that fall into this bucket
    Limits,         \* slot limits of the levels (4..8)
    MaxWaiting      \* bound: nodes that wait

BucketAssumption == Limits \subseteq Nat \ {0} /\ Limits # {} /\ MaxWaiting \in Nat

VARIABLES
    entries,        \* m_EntryList
    waiting,        \* keys in m_WaitingList
    slot,           \* m_nSlotLimit
    twice           \* a node came from the waiting list that was in the bucket

bucketVars == <<entries, waiting, slot, twice>>

KeysIn(s) == {s[i].key : i \in DOMAIN s}

\* Mutant: the newest entry is not compared.
IsOlder(k) == \E i \in 1..(Len(entries) - 1) : entries[i].key = k

IsContain(k) == k \in KeysIn(entries)

\* A copy of an entry: active now, with whatever number of failures.
Fresh(k, e) == e.key = k /\ e.old = FALSE /\ e.bad \in BOOLEAN
Entries == [key : Keys, old : BOOLEAN, bad : BOOLEAN]
Copies(k) == {e \in Entries : Fresh(k, e)}

FirstBad(i) == entries[i].bad /\ \A j \in 1..(i - 1) : ~entries[j].bad
FirstOf(k, i) == entries[i].key = k /\ \A j \in 1..(i - 1) : entries[j].key # k

\* CleanBadEntry: what is left when the first bad entry goes.
CleanBadEntry == {RemoveAt(entries, i) : i \in {j \in DOMAIN entries : FirstBad(j)}}

---------------------------------------------------------------------------
(* Update: the node has answered or has asked us.                          *)

UpdateKnown(k) ==
    /\ \E i \in DOMAIN entries, e \in Copies(k) :
        /\ FirstOf(k, i)
        /\ entries' = Append(RemoveAt(entries, i), e)
    /\ UNCHANGED <<waiting, slot, twice>>

Stranger(k) == ~IsContain(k)

UpdateRoom(k) ==
    /\ Stranger(k) /\ Len(entries) < slot
    /\ \E e \in Copies(k) : entries' = Append(entries, e)
    /\ UNCHANGED <<waiting, slot, twice>>

UpdateReplace(k) ==
    /\ Stranger(k) /\ Len(entries) >= slot
    /\ \E s \in CleanBadEntry, e \in Copies(k) : entries' = Append(s, e)
    /\ UNCHANGED <<waiting, slot, twice>>

\* CheckQuestionableAndReplace: every questionable entry is pinged.
UpdateWait(k) ==
    /\ Stranger(k) /\ Len(entries) >= slot /\ CleanBadEntry = {}
    /\ \E i \in DOMAIN entries : entries[i].old
    /\ Len(waiting) < MaxWaiting
    /\ waiting' = Append(waiting, k)
    /\ UNCHANGED <<entries, slot, twice>>

Update(k) == UpdateKnown(k) \/ UpdateRoom(k) \/ UpdateReplace(k) \/ UpdateWait(k)

---------------------------------------------------------------------------
(* UpdateNoResponse: a request to the node was given up.                   *)

TakesPlace(i, e) == Append(RemoveAt(entries, i), e)

UpdateNoResponse(k) ==
    \E i \in DOMAIN entries :
        /\ FirstOf(k, i)
        /\ IF waiting = <<>>
           THEN /\ \E bad \in BOOLEAN : entries' = [entries EXCEPT ![i].bad = bad]
                /\ UNCHANGED <<waiting, twice>>
           ELSE /\ \E e \in Copies(Head(waiting)) : entries' = TakesPlace(i, e)
                /\ twice' = (twice \/ Head(waiting) \in KeysIn(RemoveAt(entries, i)))
                /\ waiting' = Tail(waiting)
        /\ UNCHANGED slot

\* An entry was not heard from for 15 minutes.
Ages(i) ==
    /\ ~entries[i].old
    /\ entries' = [entries EXCEPT ![i].old = TRUE]
    /\ UNCHANGED <<waiting, slot, twice>>

\* NeedRefresh: what has waited for 25 s goes.
NeedRefresh ==
    /\ \E n \in 1..Len(waiting) : waiting' = SubSeq(waiting, n + 1, Len(waiting))
    /\ UNCHANGED <<entries, slot, twice>>

\* Asked whether the bucket is full, it throws a bad entry out.
IsSlotFull ==
    /\ Len(entries) >= slot
    /\ entries' \in CleanBadEntry
    /\ UNCHANGED <<waiting, slot, twice>>

SetSlotLimit ==
    /\ slot' \in Limits \ {slot}
    /\ UNCHANGED <<entries, waiting, twice>>

---------------------------------------------------------------------------
BucketInit == entries = <<>> /\ waiting = <<>> /\ slot \in Limits /\ twice = FALSE

BucketNext ==
    \/ \E k \in Keys : Update(k) \/ UpdateNoResponse(k)
    \/ \E i \in DOMAIN entries : Ages(i)
    \/ NeedRefresh \/ IsSlotFull \/ SetSlotLimit

BucketSpec == BucketInit /\ [][BucketNext]_bucketVars

---------------------------------------------------------------------------
BucketTypeOK ==
    /\ entries \in Seq(Entries) /\ waiting \in Seq(Keys)
    /\ slot \in Limits /\ twice \in BOOLEAN

\* A node has one entry, so that it fills one slot and is offered to others
\* once, unless a node that waited took a slot while it had one already: the
\* waiting list is not searched when its node gets in (KBucket.cpp:207).
OneEntry == ~twice => \A i, j \in DOMAIN entries : entries[i].key = entries[j].key => i = j

\* The bucket grows only while it has room: every other entry takes the place of
\* one that went (KBucket.cpp:78 and 206), also after the limit was lowered.
GrowsInRoom == Len(entries') > Len(entries) => Len(entries) < slot

\* A bucket, and what a step of it may never do.
BucketInv == BucketTypeOK /\ OneEntry
BucketGrows == [][GrowsInRoom]_bucketVars
=============================================================================
