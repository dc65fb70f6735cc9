------------------------------ MODULE PieceSet ------------------------------
(***************************************************************************)
(* The set of pieces as the program keeps and sends it (BTPiece.cpp): a    *)
(* string of bytes, piece 0 in the highest bit of the first, with spare    *)
(* bits in the last.  `mine` is the set of the finished pieces, `theirs`   *)
(* the one a peer's bitfield gave us, spare bits and all.                  *)
(***************************************************************************)
EXTENDS Integers, FiniteSets, FiniteSetsExt

CONSTANTS
    Sizes,          \* numbers of pieces
    W               \* bits of a byte

PieceSetAssumption == Sizes \subseteq Nat \ {0} /\ W \in Nat \ {0}

VARIABLES mine, theirs

vars == <<mine, theirs>>

Bits == 0..W-1
LengthOf(size) == IF size % W = 0 THEN size \div W ELSE size \div W + 1
Streams(size) == [0..LengthOf(size)-1 -> SUBSET Bits]

---------------------------------------------------------------------------
(* The operations; a byte is the set of the bits that are one in it.       *)

Empty(size) == [size |-> size, data |-> [b \in 0..LengthOf(size)-1 |-> {}]]

IsSet(p, i) == i >= p.size \/ i % W \in p.data[i \div W]

Set(p, i, set) ==
    IF i >= p.size THEN p
    ELSE [p EXCEPT !.data[i \div W] = IF set THEN @ \cup {i % W} ELSE @ \ {i % W}]

\* Full bytes first, then the pieces of the last one.
SetAll(p) ==
    [p EXCEPT !.data = [b \in DOMAIN @ |->
        IF b < p.size \div W THEN Bits ELSE @[b] \cup {x \in Bits : x < p.size % W}]]

LastByte(p) == LengthOf(p.size) - 1

IsAllSet(p) ==
    /\ \A b \in 0..LastByte(p)-1 : p.data[b] = Bits
    /\ \A j \in 0..(p.size - LastByte(p) * W - 1) : j \in p.data[LastByte(p)]

IsEmpty(p) == \A b \in DOMAIN p.data : p.data[b] = {}

\* By a table of the bits of every byte.
GetSetedCount(p) == MapThenSumSet(LAMBDA b : Cardinality(p.data[b]), DOMAIN p.data)

\* What p has and q has not.
Minus(p, q) ==
    IF p.size # q.size THEN 0
    ELSE Cardinality({i \in 0..p.size-1 : IsSet(p, i) /\ ~IsSet(q, i)})

---------------------------------------------------------------------------
Init ==
    \E size \in Sizes : mine = Empty(size) /\ theirs = Empty(size)

\* A piece is finished, or turns out broken; the index is one past the end at most.
Finish ==
    \E i \in 0..mine.size, set \in BOOLEAN : mine' = Set(mine, i, set) /\ UNCHANGED theirs

FinishAll == mine' = SetAll(mine) /\ UNCHANGED theirs

\* A bitfield of the right length; one of another length leaves the set empty.
InitStream ==
    /\ \/ \E s \in Streams(theirs.size) : theirs' = [theirs EXCEPT !.data = s]
       \/ theirs' = Empty(theirs.size)
    /\ UNCHANGED mine

Have ==
    \E i \in 0..theirs.size : theirs' = Set(theirs, i, TRUE) /\ UNCHANGED mine

HaveAll == theirs' = SetAll(theirs) /\ UNCHANGED mine

Next == Finish \/ FinishAll \/ InitStream \/ Have \/ HaveAll

Spec == Init /\ [][Next]_vars

---------------------------------------------------------------------------
Members(p) == {i \in 0..p.size-1 : IsSet(p, i)}

TypeOK == \A p \in {mine, theirs} : p.size \in Sizes /\ p.data \in Streams(p.size)

\* The string is the set it stands for.  Of our own pieces also the count is
\* right, which decides how many are left (BTStorage.cpp:2615): no spare bit is
\* ever set.  A peer's set is judged whole by its pieces alone, whatever its
\* spare bits say (BTPeer.cpp:1410), and what we have and it has not is counted
\* by them.
SetRight ==
    /\ GetSetedCount(mine) = Cardinality(Members(mine))
    /\ IsEmpty(mine) <=> Members(mine) = {}
    /\ \A p \in {mine, theirs} : IsAllSet(p) <=> Members(p) = 0..p.size-1
    /\ Minus(mine, theirs) = Cardinality(Members(mine) \ Members(theirs))
=============================================================================
