------------------------ MODULE BlockRequests_proofs ------------------------
(* The blocks of a piece for any peers, blocks, windows and limits: nothing  *)
(* is asked for twice, nothing that came is lost, and nobody is blamed who   *)
(* sent what is right.                                                       *)
EXTENDS BlockRequests, FiniteSetTheorems, WellFoundedInduction, TLAPS

-----------------------------------------------------------------------------
(* Numbers: the least one of a set and the greatest, and what is built one   *)
(* step after the other.                                                     *)

\* A set of numbers has a least one.
LEMMA LeastNumber ==
  ASSUME NEW S \in SUBSET Nat, S # {}
  PROVE \E x \in S : \A y \in S : x <= y
<1> DEFINE R == {ss \in Nat \X Nat : ss[1] < ss[2]}
<1>1. IsWellFoundedOn(R, Nat)
  BY NatLessThanWellFounded DEF OpToRel
<1>2. PICK x \in S : \A y \in S : <<y, x>> \notin R
  <2> HIDE DEF R
  <2> QED
    BY <1>1, WFMin
<1>3. \A y \in S : ~(y < x)
  BY <1>2
<1> QED
  BY <1>3

\* g is built from base by one step after the other.
BuiltBy(g, T, base, n, step) ==
  g \in [0 .. n -> T] /\ g[0] = base /\ \A k \in 1 .. n : g[k] = step[<<k, g[k - 1]>>]

\* What is built from base by one step after the other exists: the least length
\* for which it did not would be one more than a length for which it does.
LEMMA Built ==
  ASSUME NEW T, NEW base \in T, NEW n \in Nat, NEW step \in [(1 .. n) \X T -> T]
  PROVE \E g : BuiltBy(g, T, base, n, step)
<1> USE DEF BuiltBy
<1> DEFINE Good(m) == \E g : BuiltBy(g, T, base, m, step)
           S == {m \in 0 .. n : ~Good(m)}
<1>1. SUFFICES ASSUME S # {} PROVE FALSE
  OBVIOUS
<1>2. PICK m \in S : \A j \in S : m <= j
  <2>1. S \in SUBSET Nat
    OBVIOUS
  <2> HIDE DEF S
  <2> QED
    BY <1>1, <2>1, LeastNumber
<1>3. m \in 0 .. n /\ ~Good(m)
  OBVIOUS
<1>4. m # 0
  <2>1. SUFFICES ASSUME m = 0 PROVE Good(0)
    BY <1>3
  <2> DEFINE g == [k \in 0 .. 0 |-> base]
  <2>2. g \in [0 .. 0 -> T] /\ g[0] = base /\ 1 .. 0 = {}
    OBVIOUS
  <2> HIDE DEF g
  <2> QED
    BY <2>2
<1>5. PICK g : BuiltBy(g, T, base, m - 1, step)
  <2>1. m - 1 \in 0 .. n /\ m - 1 \notin S
    BY <1>2, <1>3, <1>4
  <2> QED
    BY <2>1
<1>6. Good(m)
  <2> DEFINE h == [k \in 0 .. m |-> IF k = m THEN step[<<m, g[m - 1]>>] ELSE g[k]]
  <2>1. m - 1 \in 0 .. m - 1 /\ m \in 1 .. n
    BY <1>3, <1>4
  <2>2. step[<<m, g[m - 1]>>] \in T
    BY <1>5, <2>1
  <2>3. h \in [0 .. m -> T]
    BY <1>3, <1>5, <2>2
  <2>4. h[0] = base
    BY <1>3, <1>4, <1>5
  <2>5. ASSUME NEW k \in 1 .. m PROVE h[k] = step[<<k, h[k - 1]>>]
    <3>1. h[k - 1] = g[k - 1]
      BY <1>3
    <3>2. CASE k = m
      <4>1. h[m] = step[<<m, g[m - 1]>>]
        BY <1>3
      <4> HIDE DEF h
      <4> QED
        BY <3>1, <3>2, <4>1
    <3>3. CASE k # m
      <4>1. k \in 1 .. m - 1 /\ h[k] = g[k]
        BY <1>3, <3>3
      <4> QED
        BY <1>5, <3>1, <4>1
    <3> QED
      BY <3>2, <3>3
  <2> HIDE DEF h
  <2> QED
    BY <2>3, <2>4, <2>5
<1> QED
  BY <1>3, <1>6

\* And what is true of base and kept by a step is true of all that is built.
LEMMA Climb ==
  ASSUME NEW T, NEW n \in Nat, NEW g, g[0] \in T,
         \A k \in 1 .. n : g[k - 1] \in T => g[k] \in T
  PROVE \A k \in 0 .. n : g[k] \in T
<1> DEFINE S == {k \in 0 .. n : g[k] \notin T}
<1>1. SUFFICES ASSUME S # {} PROVE FALSE
  OBVIOUS
<1>2. PICK k \in S : \A j \in S : k <= j
  <2>1. S \in SUBSET Nat
    OBVIOUS
  <2> HIDE DEF S
  <2> QED
    BY <1>1, <2>1, LeastNumber
<1>3. k \in 1 .. n /\ k - 1 \in 0 .. n /\ k - 1 \notin S
  BY <1>2
<1> QED
  BY <1>3

\* So the orphans can be set one after the other, and the result has a type.
LEMMA OwnBuilt ==
  ASSUME orphans \in Seq(Orphans)
  PROVE /\ \A k \in 0 .. Len(orphans) : OwnOrphans[k] \in [Blocks -> Mine]
        /\ OwnOrphans[0] = NewMine
        /\ \A k \in 1 .. Len(orphans) : OwnOrphans[k] = SetAlien(OwnOrphans[k - 1], orphans[k])
<1> DEFINE n == Len(orphans)
           T == [Blocks -> Mine]
           step == [x \in (1 .. n) \X T |-> SetAlien(x[2], orphans[x[1]])]
           Eq(f) == f = [k \in 0 .. n |-> IF k = 0 THEN NewMine ELSE SetAlien(f[k - 1], orphans[k])]
<1>1. NewMine \in T /\ n \in Nat
  BY DEF NewMine, Mine, Data
<1>0. ASSUME NEW k \in 1 .. n, NEW r \in T PROVE SetAlien(r, orphans[k]) \in T
  <2>1. orphans[k] \in Orphans
    OBVIOUS
  <2>2. orphans[k].block \in Blocks /\ orphans[k].data \in Data
        /\ orphans[k].source \in Peers \cup {NoPeer}
    BY <2>1 DEF Orphans
  <2> QED
    BY <2>2 DEF SetAlien, Mine
<1>2. step \in [(1 .. n) \X T -> T]
  BY <1>0
<1>3. PICK g : BuiltBy(g, T, NewMine, n, step)
  <2> HIDE DEF step, T, n
  <2> QED
    BY <1>1, <1>2, Built
<1>4. ASSUME NEW k \in 1 .. n
      PROVE g[k - 1] \in T /\ g[k] = SetAlien(g[k - 1], orphans[k])
  <2>1. k - 1 \in 0 .. n
    BY <1>1
  <2>2. g[k - 1] \in T /\ <<k, g[k - 1]>> \in (1 .. n) \X T
    BY <1>3, <2>1 DEF BuiltBy
  <2> QED
    BY <1>3, <2>2 DEF BuiltBy
<1>5. Eq(g)
  <2>1. \A k \in 0 .. n : g[k] = IF k = 0 THEN NewMine ELSE SetAlien(g[k - 1], orphans[k])
    <3> HIDE DEF step
    <3> QED
      BY <1>1, <1>3, <1>4 DEF BuiltBy
  <2> QED
    BY <1>3, <2>1 DEF BuiltBy
<1>6. OwnOrphans = CHOOSE f : Eq(f)
  BY DEF OwnOrphans
<1>7. Eq(OwnOrphans)
  <2> HIDE DEF Eq
  <2> QED
    BY <1>5, <1>6
<1>8. /\ OwnOrphans[0] = NewMine
      /\ \A k \in 1 .. n : OwnOrphans[k] = SetAlien(OwnOrphans[k - 1], orphans[k])
  <2> DEFINE f == OwnOrphans
  <2>1. f = [k \in 0 .. n |-> IF k = 0 THEN NewMine ELSE SetAlien(f[k - 1], orphans[k])]
    BY <1>7
  <2> HIDE DEF f
  <2>2. \A k \in 0 .. n : f[k] = IF k = 0 THEN NewMine ELSE SetAlien(f[k - 1], orphans[k])
    BY <2>1
  <2>3. f[0] = NewMine /\ \A k \in 1 .. n : f[k] = SetAlien(f[k - 1], orphans[k])
    BY <1>1, <2>2
  <2> QED
    BY <2>3 DEF f
<1>9. ASSUME NEW k \in 1 .. n, OwnOrphans[k - 1] \in T PROVE OwnOrphans[k] \in T
  <2>1. SetAlien(OwnOrphans[k - 1], orphans[k]) \in T
    BY <1>0, <1>9
  <2> QED
    BY <1>8, <2>1
<1>10. \A k \in 0 .. n : OwnOrphans[k] \in T
  <2> HIDE DEF T, n
  <2> QED
    BY <1>1, <1>8, <1>9, Climb
<1> QED
  BY <1>8, <1>10

\* The count of a shared block stays an unsigned short.
LEMMA WrappedType ==
  ASSUME NEW i \in Int
  PROVE Wrapped(i) \in 0 .. MaxPending
BY NumbersAssumption DEF Wrapped

\* An answer turns a share request into a share request.
LEMMA SharedType ==
  ASSUME NEW r \in [Blocks -> Shared], NEW o \in Orphans
  PROVE SetShared(r, o) \in [Blocks -> Shared]
<1>1. o.block \in Blocks /\ o.data \in Data /\ o.source \in Peers \cup {NoPeer}
  BY DEF Orphans
<1>2. ASSUME NEW x \in Shared PROVE Answer(x, o) \in Shared
  <2>1. /\ x.data \in Data /\ x.source \in Peers \cup {NoPeer}
        /\ x.comfirm \in Nat /\ x.pending \in Nat
    BY DEF Shared
  <2>2. Wrapped(x.pending - 1) \in 0 .. MaxPending
    BY <2>1, WrappedType
  <2> QED
    BY <1>1, <2>1, <2>2 DEF Answer, Shared
<1> QED
  BY <1>1, <1>2 DEF SetShared

\* So are they set into a share request.
LEMMA SharedBuilt ==
  ASSUME orphans \in Seq(Orphans)
  PROVE /\ \A k \in 0 .. Len(orphans) : SharedOrphans[k] \in [Blocks -> Shared]
        /\ SharedOrphans[0] = NewShare
        /\ \A k \in 1 .. Len(orphans) : SharedOrphans[k] = SetShared(SharedOrphans[k - 1], orphans[k])
<1> DEFINE n == Len(orphans)
           T == [Blocks -> Shared]
           step == [x \in (1 .. n) \X T |-> SetShared(x[2], orphans[x[1]])]
           Eq(f) == f = [k \in 0 .. n |-> IF k = 0 THEN NewShare ELSE SetShared(f[k - 1], orphans[k])]
<1>1. NewShare \in T /\ n \in Nat
  BY NumbersAssumption DEF NewShare, Shared, Data
<1>0. ASSUME NEW k \in 1 .. n, NEW r \in T PROVE SetShared(r, orphans[k]) \in T
  <2>1. orphans[k] \in Orphans
    OBVIOUS
  <2> QED
    BY <2>1, SharedType
<1>2. step \in [(1 .. n) \X T -> T]
  BY <1>0
<1>3. PICK g : BuiltBy(g, T, NewShare, n, step)
  <2> HIDE DEF step, T, n
  <2> QED
    BY <1>1, <1>2, Built
<1>4. ASSUME NEW k \in 1 .. n
      PROVE g[k - 1] \in T /\ g[k] = SetShared(g[k - 1], orphans[k])
  <2>1. k - 1 \in 0 .. n
    BY <1>1
  <2>2. g[k - 1] \in T /\ <<k, g[k - 1]>> \in (1 .. n) \X T
    BY <1>3, <2>1 DEF BuiltBy
  <2> QED
    BY <1>3, <2>2 DEF BuiltBy
<1>5. Eq(g)
  <2>1. \A k \in 0 .. n : g[k] = IF k = 0 THEN NewShare ELSE SetShared(g[k - 1], orphans[k])
    <3> HIDE DEF step
    <3> QED
      BY <1>1, <1>3, <1>4 DEF BuiltBy
  <2> QED
    BY <1>3, <2>1 DEF BuiltBy
<1>6. SharedOrphans = CHOOSE f : Eq(f)
  BY DEF SharedOrphans
<1>7. Eq(SharedOrphans)
  <2> HIDE DEF Eq
  <2> QED
    BY <1>5, <1>6
<1>8. /\ SharedOrphans[0] = NewShare
      /\ \A k \in 1 .. n : SharedOrphans[k] = SetShared(SharedOrphans[k - 1], orphans[k])
  <2> DEFINE f == SharedOrphans
  <2>1. f = [k \in 0 .. n |-> IF k = 0 THEN NewShare ELSE SetShared(f[k - 1], orphans[k])]
    BY <1>7
  <2> HIDE DEF f
  <2>2. \A k \in 0 .. n : f[k] = IF k = 0 THEN NewShare ELSE SetShared(f[k - 1], orphans[k])
    BY <2>1
  <2>3. f[0] = NewShare /\ \A k \in 1 .. n : f[k] = SetShared(f[k - 1], orphans[k])
    BY <1>1, <2>2
  <2> QED
    BY <2>3 DEF f
<1>9. ASSUME NEW k \in 1 .. n, SharedOrphans[k - 1] \in T PROVE SharedOrphans[k] \in T
  <2>1. SetShared(SharedOrphans[k - 1], orphans[k]) \in T
    BY <1>0, <1>9
  <2> QED
    BY <1>8, <2>1
<1>10. \A k \in 0 .. n : SharedOrphans[k] \in T
  <2> HIDE DEF T, n
  <2> QED
    BY <1>1, <1>8, <1>9, Climb
<1> QED
  BY <1>8, <1>10

-----------------------------------------------------------------------------
(* What the orphans bring: padding and every block of theirs, if all is good. *)

AllGood == \A k \in DOMAIN orphans : orphans[k].data = "good"

LEMMA OwnFilled ==
  ASSUME orphans \in Seq(Orphans)
  PROVE LET r == OwnOrphans[Len(orphans)]
        IN  /\ r \in [Blocks -> Mine] /\ Pending(r) = {}
            /\ orphans = <<>> => r = NewMine
            /\ AllGood => Sound(r) /\ \A k \in DOMAIN orphans : r[orphans[k].block].data = "good"
<1> DEFINE n == Len(orphans)
           Right(x) == /\ \A b \in Blocks : ~x.r[b].pending
                       /\ AllGood => Sound(x.r) /\ \A j \in 1 .. x.n : x.r[orphans[j].block].data = "good"
           T == {x \in [r : [Blocks -> Mine], n : 0 .. n] : Right(x)}
           g == [k \in 0 .. n |-> [r |-> OwnOrphans[k], n |-> k]]
<1>1. n \in Nat /\ DOMAIN orphans = 1 .. n
  OBVIOUS
<1>2. /\ \A k \in 0 .. n : OwnOrphans[k] \in [Blocks -> Mine]
      /\ OwnOrphans[0] = NewMine
      /\ \A k \in 1 .. n : OwnOrphans[k] = SetAlien(OwnOrphans[k - 1], orphans[k])
  BY OwnBuilt
<1>3. g[0] \in T
  <2>1. g[0] = [r |-> NewMine, n |-> 0] /\ NewMine \in [Blocks -> Mine]
    BY <1>1, <1>2
  <2>2. Sound(NewMine) /\ \A b \in Blocks : ~NewMine[b].pending
    BY DEF NewMine, Sound
  <2> QED
    BY <1>1, <2>1, <2>2
<1>4. ASSUME NEW k \in 1 .. n, g[k - 1] \in T PROVE g[k] \in T
  <2> DEFINE r == OwnOrphans[k - 1]
             o == orphans[k]
  <2>1. k - 1 \in 0 .. n /\ k \in 0 .. n
    BY <1>1
  <2>2. g[k - 1] = [r |-> r, n |-> k - 1] /\ g[k] = [r |-> SetAlien(r, o), n |-> k]
    BY <1>2, <2>1
  <2>3. /\ r \in [Blocks -> Mine] /\ \A b \in Blocks : ~r[b].pending
        /\ AllGood => Sound(r) /\ \A j \in 1 .. k - 1 : r[orphans[j].block].data = "good"
    BY <1>4, <2>2
  <2>4. SetAlien(r, o) \in [Blocks -> Mine]
    BY <1>2, <2>1
  <2>5. o \in Orphans
    BY <1>1
  <2>9. o.block \in Blocks
    BY <2>5 DEF Orphans
  <2> HIDE DEF r, o
  <2>6. SetAlien(r, o)[o.block] =
            [data |-> o.data, pending |-> r[o.block].pending, source |-> o.source]
    BY <2>3, <2>9 DEF SetAlien
  <2>10. \A b \in Blocks : b # o.block => SetAlien(r, o)[b] = r[b]
    BY <2>3, <2>9 DEF SetAlien
  <2>7. \A b \in Blocks : /\ SetAlien(r, o)[b].pending = r[b].pending
                          /\ SetAlien(r, o)[b].data = IF b = o.block THEN o.data ELSE r[b].data
    <3>1. /\ SetAlien(r, o)[o.block].pending = r[o.block].pending
          /\ SetAlien(r, o)[o.block].data = o.data
      BY <2>6
    <3> QED
      BY <2>10, <3>1
  <2>8. ASSUME AllGood
        PROVE Sound(SetAlien(r, o)) /\ \A j \in 1 .. k : SetAlien(r, o)[orphans[j].block].data = "good"
    <3>1. o.data = "good"
      BY <1>1, <2>8 DEF AllGood, o
    <3>2. Sound(SetAlien(r, o))
      BY <2>3, <2>7, <2>8, <3>1 DEF Sound
    <3>3. ASSUME NEW j \in 1 .. k PROVE SetAlien(r, o)[orphans[j].block].data = "good"
      <4>0. orphans[j] \in Orphans
        BY <1>1
      <4>1. orphans[j].block \in Blocks
        BY <4>0 DEF Orphans
      <4>2. CASE j = k
        BY <2>7, <3>1, <4>1, <4>2 DEF o
      <4>3. CASE j # k
        <5>1. j \in 1 .. k - 1
          BY <4>3
        <5> QED
          BY <2>3, <2>7, <2>8, <3>1, <4>1, <5>1
      <4> QED
        BY <4>2, <4>3
    <3> QED
      BY <3>2, <3>3
  <2> QED
    BY <2>1, <2>2, <2>3, <2>4, <2>7, <2>8
<1>5. g[n] \in T
  <2>1. \A k \in 0 .. n : g[k] \in T
    <3> HIDE DEF g, T, n
    <3> QED
      BY <1>1, <1>3, <1>4, Climb
  <2> QED
    BY <1>1, <2>1
<1>6. /\ OwnOrphans[n] \in [Blocks -> Mine] /\ \A b \in Blocks : ~OwnOrphans[n][b].pending
      /\ AllGood => /\ Sound(OwnOrphans[n])
                    /\ \A j \in 1 .. n : OwnOrphans[n][orphans[j].block].data = "good"
  BY <1>1, <1>5
<1>7. orphans = <<>> => OwnOrphans[n] = NewMine
  BY <1>2
<1> QED
  BY <1>1, <1>6, <1>7 DEF Pending

LEMMA SharedFilled ==
  ASSUME orphans \in Seq(Orphans)
  PROVE LET r == SharedOrphans[Len(orphans)]
        IN  /\ r \in [Blocks -> Shared]
            /\ AllGood => Sound(r) /\ \A k \in DOMAIN orphans : r[orphans[k].block].data = "good"
<1> DEFINE n == Len(orphans)
           Right(x) == AllGood => /\ Sound(x.r)
                                  /\ \A j \in 1 .. x.n : x.r[orphans[j].block].data = "good"
           T == {x \in [r : [Blocks -> Shared], n : 0 .. n] : Right(x)}
           g == [k \in 0 .. n |-> [r |-> SharedOrphans[k], n |-> k]]
<1>1. n \in Nat /\ DOMAIN orphans = 1 .. n
  OBVIOUS
<1>2. /\ \A k \in 0 .. n : SharedOrphans[k] \in [Blocks -> Shared]
      /\ SharedOrphans[0] = NewShare
      /\ \A k \in 1 .. n : SharedOrphans[k] = SetShared(SharedOrphans[k - 1], orphans[k])
  BY SharedBuilt
<1>3. g[0] \in T
  <2>1. g[0] = [r |-> NewShare, n |-> 0] /\ NewShare \in [Blocks -> Shared]
    BY <1>1, <1>2
  <2>2. Sound(NewShare)
    BY DEF NewShare, Sound
  <2> QED
    BY <1>1, <2>1, <2>2
<1>4. ASSUME NEW k \in 1 .. n, g[k - 1] \in T PROVE g[k] \in T
  <2> DEFINE r == SharedOrphans[k - 1]
             o == orphans[k]
  <2>1. k - 1 \in 0 .. n /\ k \in 0 .. n
    BY <1>1
  <2>2. g[k - 1] = [r |-> r, n |-> k - 1] /\ g[k] = [r |-> SetShared(r, o), n |-> k]
    BY <1>2, <2>1
  <2>3. /\ r \in [Blocks -> Shared]
        /\ AllGood => Sound(r) /\ \A j \in 1 .. k - 1 : r[orphans[j].block].data = "good"
    BY <1>4, <2>2
  <2>4. SetShared(r, o) \in [Blocks -> Shared]
    BY <1>2, <2>1
  <2>5. o \in Orphans
    BY <1>1
  <2>6. o.block \in Blocks
    BY <2>5 DEF Orphans
  <2> HIDE DEF r, o
  <2>7. /\ SetShared(r, o)[o.block] = Answer(r[o.block], o)
        /\ \A b \in Blocks : b # o.block => SetShared(r, o)[b] = r[b]
    BY <2>3, <2>6 DEF SetShared
  <2>8. ASSUME AllGood
        PROVE Sound(SetShared(r, o)) /\ \A j \in 1 .. k : SetShared(r, o)[orphans[j].block].data = "good"
    <3>1. o.data = "good"
      BY <1>1, <2>8 DEF AllGood, o
    <3>2. r[o.block] \in Shared /\ r[o.block].data # "bad"
      BY <2>3, <2>6, <2>8 DEF Sound
    <3>3. r[o.block].data \in Data
      BY <3>2 DEF Shared
    <3>4. SetShared(r, o)[o.block].data = "good"
      BY <2>7, <3>1, <3>2, <3>3 DEF Answer, Replaced, Data
    <3>5. Sound(SetShared(r, o))
      BY <2>3, <2>7, <2>8, <3>4 DEF Sound
    <3>6. ASSUME NEW j \in 1 .. k PROVE SetShared(r, o)[orphans[j].block].data = "good"
      <4>0. orphans[j] \in Orphans
        BY <1>1
      <4>1. orphans[j].block \in Blocks
        BY <4>0 DEF Orphans
      <4>2. CASE j = k
        BY <3>4, <4>2 DEF o
      <4>3. CASE j # k
        <5>1. j \in 1 .. k - 1
          BY <4>3
        <5> QED
          BY <2>3, <2>7, <2>8, <3>4, <4>1, <5>1
      <4> QED
        BY <4>2, <4>3
    <3> QED
      BY <3>5, <3>6
  <2> QED
    BY <2>1, <2>2, <2>3, <2>4, <2>8
<1>5. g[n] \in T
  <2>1. \A k \in 0 .. n : g[k] \in T
    <3> HIDE DEF g, T, n
    <3> QED
      BY <1>1, <1>3, <1>4, Climb
  <2> QED
    BY <1>1, <2>1
<1>6. /\ SharedOrphans[n] \in [Blocks -> Shared]
      /\ AllGood => /\ Sound(SharedOrphans[n])
                    /\ \A j \in 1 .. n : SharedOrphans[n][orphans[j].block].data = "good"
  BY <1>1, <1>5
<1> QED
  BY <1>1, <1>6

-----------------------------------------------------------------------------
(* The order of the blocks: which are the first, and how they become orphans. *)

\* How many of S come before b.
Rank(S, b) == Cardinality({c \in S : c < b})

\* A later block has a higher rank, and no rank reaches the size of the set.
LEMMA Ranks ==
  ASSUME NEW S \in SUBSET Blocks
  PROVE /\ IsFiniteSet(S)
        /\ \A b \in S : Rank(S, b) \in 0 .. Cardinality(S) - 1
        /\ \A b, c \in S : b < c => Rank(S, b) < Rank(S, c)
        /\ \A b, c \in S : Rank(S, b) = Rank(S, c) => b = c
<1>1. IsFiniteSet(S) /\ Cardinality(S) \in Nat
  <2>1. IsFiniteSet(Blocks)
    BY BlocksAssumption, FS_Interval DEF Blocks
  <2>2. IsFiniteSet(S)
    BY <2>1, FS_Subset
  <2> QED
    BY <2>2, FS_CardinalityType
<1>2. ASSUME NEW b \in S PROVE Rank(S, b) \in 0 .. Cardinality(S) - 1
  <2> DEFINE before == {c \in S : c < b}
  <2>1. before \in SUBSET S /\ b \notin before
    BY DEF Blocks
  <2> HIDE DEF before
  <2>2. IsFiniteSet(before) /\ Cardinality(before) <= Cardinality(S) /\ Cardinality(before) # Cardinality(S)
    BY <1>1, <1>2, <2>1, FS_Subset
  <2>3. Cardinality(before) \in Nat
    BY <2>2, FS_CardinalityType
  <2>4. Cardinality(before) \in 0 .. Cardinality(S) - 1
    BY <1>1, <2>2, <2>3
  <2> QED
    BY <2>4 DEF Rank, before
<1>3. ASSUME NEW b \in S, NEW c \in S, b < c PROVE Rank(S, b) < Rank(S, c)
  <2> DEFINE lower == {d \in S : d < b}
             upper == {d \in S : d < c}
  <2>1. lower \in SUBSET upper /\ b \in upper /\ b \notin lower /\ upper \in SUBSET S
    <3>1. \A d \in S : d \in Int
      BY DEF Blocks
    <3> QED
      BY <1>3, <3>1
  <2> HIDE DEF lower, upper
  <2>2. IsFiniteSet(upper) /\ IsFiniteSet(lower)
    BY <1>1, <2>1, FS_Subset
  <2>3. Cardinality(lower) <= Cardinality(upper) /\ Cardinality(lower) # Cardinality(upper)
    BY <2>1, <2>2, FS_Subset
  <2>4. Cardinality(lower) \in Nat /\ Cardinality(upper) \in Nat
    BY <2>2, FS_CardinalityType
  <2>5. Cardinality(lower) < Cardinality(upper)
    BY <2>3, <2>4
  <2> QED
    BY <2>5 DEF Rank, lower, upper
<1>4. ASSUME NEW b \in S, NEW c \in S, Rank(S, b) = Rank(S, c) PROVE b = c
  <2>1. b \in Int /\ c \in Int
    BY DEF Blocks
  <2>2. Rank(S, b) \in Int /\ Rank(S, c) \in Int
    BY <1>1, <1>2
  <2> QED
    BY <1>3, <1>4, <2>1, <2>2
<1> QED
  BY <1>1, <1>2, <1>3, <1>4

\* The first n of some blocks are at most n.
LEMMA FirstBound ==
  ASSUME NEW S \in SUBSET Blocks, NEW n \in Nat
  PROVE /\ First(S, n) \in SUBSET S /\ IsFiniteSet(First(S, n))
        /\ Cardinality(First(S, n)) \in Nat /\ Cardinality(First(S, n)) <= n
<1> DEFINE rank == [b \in First(S, n) |-> Rank(S, b)]
<1>1. First(S, n) \in SUBSET S
  BY DEF First
<1>2. IsFiniteSet(S) /\ \A b \in S : Rank(S, b) \in 0 .. Cardinality(S) - 1
  BY Ranks
<1>3. IsFiniteSet(First(S, n)) /\ Cardinality(First(S, n)) \in Nat
  BY <1>1, <1>2, FS_Subset, FS_CardinalityType
<1>4. rank \in [First(S, n) -> 0 .. n - 1]
  <2>1. ASSUME NEW b \in First(S, n) PROVE Rank(S, b) \in 0 .. n - 1
    <3>1. Rank(S, b) < n /\ b \in S
      BY DEF First, Rank
    <3>2. Rank(S, b) \in Nat
      BY <1>2, <3>1, FS_CardinalityType
    <3> QED
      BY <3>1, <3>2
  <2> QED
    BY <2>1
<1>5. ASSUME NEW b \in First(S, n), NEW c \in First(S, n), rank[b] = rank[c] PROVE b = c
  BY <1>1, <1>5, Ranks
<1>6. rank \in Injection(First(S, n), 0 .. n - 1)
  <2> HIDE DEF rank
  <2> QED
    BY <1>4, <1>5 DEF Injection, IsInjective
<1>7. IsFiniteSet(0 .. n - 1) /\ Cardinality(0 .. n - 1) = n
  BY FS_Interval
<1>8. Cardinality(First(S, n)) <= Cardinality(0 .. n - 1)
  BY <1>6, <1>7, FS_Injection
<1> QED
  BY <1>1, <1>3, <1>7, <1>8

\* The orphans of a task are the blocks it holds, each with its data.
LEMMA OrphansFilled ==
  ASSUME NEW r \in [Blocks -> Mine]
  PROVE /\ OrphansOf(r) \in Seq(Orphans)
        /\ \A k \in DOMAIN OrphansOf(r) : /\ OrphansOf(r)[k].block \in Held(r)
                                          /\ OrphansOf(r)[k].data = r[OrphansOf(r)[k].block].data
        /\ \A b \in Held(r) : \E k \in DOMAIN OrphansOf(r) : OrphansOf(r)[k].block = b
<1> DEFINE held == Held(r)
           n == Cardinality(held)
           kth(k) == CHOOSE b \in held : Cardinality({c \in held : c < b}) = k - 1
           rank == [b \in held |-> Rank(held, b)]
<1>1. held \in SUBSET Blocks
  BY DEF Held
<1>2. /\ IsFiniteSet(held) /\ \A b \in held : Rank(held, b) \in 0 .. n - 1
      /\ \A b, c \in held : Rank(held, b) = Rank(held, c) => b = c
  <2> HIDE DEF held
  <2> QED
    BY <1>1, Ranks
<1>3. n \in Nat
  BY <1>2, FS_CardinalityType
<1>4. rank \in Surjection(held, 0 .. n - 1)
  <2>1. rank \in [held -> 0 .. n - 1]
    BY <1>2
  <2>2. \A b, c \in held : rank[b] = rank[c] => b = c
    BY <1>2
  <2> HIDE DEF rank, held
  <2>3. rank \in Injection(held, 0 .. n - 1)
    BY <2>1, <2>2 DEF Injection, IsInjective
  <2>4. IsFiniteSet(0 .. n - 1) /\ Cardinality(0 .. n - 1) = n
    BY <1>3, FS_Interval
  <2> QED
    BY <2>3, <2>4, FS_Injection
<1>5. ASSUME NEW k \in 1 .. n PROVE kth(k) \in held /\ Rank(held, kth(k)) = k - 1
  <2>1. k - 1 \in 0 .. n - 1
    BY <1>3
  <2>2. PICK b \in held : rank[b] = k - 1
    <3> HIDE DEF rank, held
    <3> QED
      BY <1>4, <2>1 DEF Surjection
  <2>3. \E c \in held : Cardinality({d \in held : d < c}) = k - 1
    BY <2>2 DEF Rank
  <2> QED
    BY <2>3 DEF Rank
<1>6. ASSUME NEW b \in held PROVE \E k \in 1 .. n : kth(k) = b
  <2>1. Rank(held, b) \in 0 .. n - 1
    BY <1>2
  <2>2. Rank(held, b) + 1 \in 1 .. n /\ (Rank(held, b) + 1) - 1 = Rank(held, b)
    BY <1>3, <2>1
  <2>3. kth(Rank(held, b) + 1) \in held /\ Rank(held, kth(Rank(held, b) + 1)) = Rank(held, b)
    BY <1>5, <2>2
  <2> QED
    BY <1>2, <2>2, <2>3
<1> DEFINE nth == [k \in 1 .. n |-> kth(k)]
<1>7. OrphansOf(r) = [k \in 1 .. n |-> [block |-> nth[k], data |-> r[nth[k]].data,
                                        source |-> r[nth[k]].source]]
  BY DEF OrphansOf
<1>8. /\ \A k \in 1 .. n : nth[k] \in held
      /\ \A b \in held : \E k \in 1 .. n : nth[k] = b
  BY <1>5, <1>6
<1> HIDE DEF nth, held, rank
<1>9. ASSUME NEW k \in 1 .. n
      PROVE [block |-> nth[k], data |-> r[nth[k]].data, source |-> r[nth[k]].source] \in Orphans
  <2>1. nth[k] \in Blocks
    BY <1>1, <1>8
  <2>2. r[nth[k]] \in Mine
    BY <2>1
  <2> QED
    BY <2>1, <2>2 DEF Mine, Orphans
<1>10. OrphansOf(r) \in Seq(Orphans) /\ DOMAIN OrphansOf(r) = 1 .. n
  BY <1>3, <1>7, <1>9
<1>11. \A k \in 1 .. n : OrphansOf(r)[k].block = nth[k] /\ OrphansOf(r)[k].data = r[nth[k]].data
  BY <1>7
<1>12. /\ \A k \in 1 .. n : /\ OrphansOf(r)[k].block \in held
                            /\ OrphansOf(r)[k].data = r[OrphansOf(r)[k].block].data
       /\ \A b \in held : \E k \in 1 .. n : OrphansOf(r)[k].block = b
  BY <1>8, <1>11
<1> QED
  BY <1>10, <1>12 DEF held

-----------------------------------------------------------------------------
(* The invariant, peer by peer.                                              *)

Counted(p) == count[p] = Cardinality(Pending(mine[p])) /\ count[p] <= Window

InTask(p) ==
  /\ task[p] = "none" => mine[p] = NewMine /\ count[p] = 0
  /\ ~open[p] => task[p] = "none" /\ asked[p] = NoneAsked
  /\ checked[p] => open[p] /\ task[p] = "coop" /\ count[p] < Window
  /\ task[p] = "coop" /\ share = NoShare /\ ~stored => mine[p] = NewMine

Known(p) == bad = 0 => \A b \in Blocks :
  /\ ~late => asked[p][b] <= 1
  /\ asked[p][b] > 0 =>
       /\ late \/ mine[p][b].pending \/ (stored /\ task[p] = "none")
       /\ stored \/ task[p] = "solo" \/ (task[p] = "coop" /\ share # NoShare)

Clean(p) == (bad = 0 => Sound(mine[p])) /\
            (p \notin liars \cup mixed => \A b \in Blocks : mine[p][b].data # "bad")

Given(p) == bad = 0 /\ ~stored /\ task[p] = "coop" => \A b \in Blocks \ Virtual :
  mine[p][b].data = "good" => share # NoShare /\ share[b].data = "good"

Fine(p) == Counted(p) /\ InTask(p) /\ Known(p) /\ Clean(p) /\ Given(p)

Shelf == bad = 0 => (share # NoShare => Sound(share)) /\ AllGood

Holds(b) == \/ \E p \in Peers : mine[p][b].data = "good"
            \/ share # NoShare /\ share[b].data = "good"
            \/ \E k \in DOMAIN orphans : orphans[k].block = b

NothingLost == ~stored /\ bad = 0 => \A b \in arrived : Holds(b)

Inv == TypeOK /\ (\A p \in Peers : Fine(p)) /\ Shelf /\ NothingLost

LEMMA InvMeans ==
  Inv <=> BlockInv
<1>1. Inv => BlockInv
  BY DEF Inv, BlockInv, Fine, Counted, InTask, Known, Clean, Given, Shelf, NothingLost, Holds,
         AllGood, AskedOnce, NoBlockLost, Settled, AskedKnown, OnlyGood, Submitted, BlameReady
<1>2. BlockInv => Inv
  BY DEF Inv, BlockInv, Fine, Counted, InTask, Known, Clean, Given, Shelf, NothingLost, Holds,
         AllGood, AskedOnce, NoBlockLost, Settled, AskedKnown, OnlyGood, Submitted, BlameReady
<1> QED
  BY <1>1, <1>2

-----------------------------------------------------------------------------
(* What a step leaves alone.                                                 *)

\* What is stored, wrong or late stays so, and the share request keeps its good
\* blocks until the piece is there, as long as nothing wrong comes.
Forward ==
  /\ late => late'
  /\ bad' = 0 => bad = 0
  /\ stored => stored'
  /\ ~stored' /\ share # NoShare =>
       /\ share' # NoShare
       /\ bad' = 0 => \A b \in Blocks : share[b].data = "good" => share'[b].data = "good"

\* The task of q is as it was.
Same(q) ==
  /\ task'[q] = task[q] /\ mine'[q] = mine[q] /\ count'[q] = count[q]
  /\ checked'[q] => checked[q]
  /\ open[q] => open'[q]
  /\ asked'[q] = asked[q] \/ (open'[q] /\ \A b \in Blocks : asked'[q][b] <= asked[q][b])
  /\ q \in liars \cup mixed => q \in liars' \cup mixed'

LEMMA Unmoved ==
  ASSUME TypeOK, TypeOK', Forward, NEW q \in Peers, Same(q), Fine(q)
  PROVE Fine(q)'
<1>1. /\ \A b \in Blocks : asked'[q][b] <= asked[q][b] /\ asked[q][b] \in Nat /\ asked'[q][b] \in Nat
      /\ open[q] \in BOOLEAN /\ open'[q] \in BOOLEAN
      /\ checked[q] \in BOOLEAN /\ checked'[q] \in BOOLEAN
  <2>1. asked[q] \in [Blocks -> Nat] /\ asked'[q] \in [Blocks -> Nat]
    BY DEF TypeOK
  <2>2. \A b \in Blocks : asked[q][b] \in Nat /\ asked'[q][b] \in Nat
    BY <2>1
  <2> QED
    BY <2>2 DEF TypeOK, Same
<1>2. Counted(q)'
  BY DEF Fine, Counted, Same
<1>3. InTask(q)'
  <2>1. ~open'[q] => task'[q] = "none" /\ asked'[q] = NoneAsked
    BY <1>1 DEF Fine, InTask, Same
  <2>2. task'[q] = "coop" /\ share' = NoShare /\ ~stored' => mine'[q] = NewMine
    BY DEF Fine, InTask, Same, Forward
  <2>3. checked'[q] => open'[q] /\ task'[q] = "coop" /\ count'[q] < Window
    BY <1>1 DEF Fine, InTask, Same
  <2>4. task'[q] = "none" => mine'[q] = NewMine /\ count'[q] = 0
    BY DEF Fine, InTask, Same
  <2> QED
    BY <2>1, <2>2, <2>3, <2>4 DEF InTask
<1>4. Known(q)'
  <2>1. SUFFICES ASSUME bad' = 0, NEW b \in Blocks
                 PROVE /\ ~late' => asked'[q][b] <= 1
                       /\ asked'[q][b] > 0 =>
                            /\ late' \/ mine'[q][b].pending \/ (stored' /\ task'[q] = "none")
                            /\ stored' \/ task'[q] = "solo" \/ (task'[q] = "coop" /\ share' # NoShare)
    BY DEF Known
  <2>2. /\ ~late => asked[q][b] <= 1
        /\ asked[q][b] > 0 =>
             /\ late \/ mine[q][b].pending \/ (stored /\ task[q] = "none")
             /\ stored \/ task[q] = "solo" \/ (task[q] = "coop" /\ share # NoShare)
    BY <2>1 DEF Fine, Known, Forward
  <2>3. asked'[q][b] <= asked[q][b] /\ asked[q][b] \in Nat /\ asked'[q][b] \in Nat
    BY <1>1
  <2>4. ~late' => asked'[q][b] <= 1
    BY <2>2, <2>3 DEF Forward
  <2>5. asked'[q][b] > 0 => asked[q][b] > 0
    BY <2>3
  <2> QED
    BY <2>2, <2>4, <2>5 DEF Forward, Same
<1>5. Clean(q)'
  BY DEF Fine, Clean, Same, Forward, Sound
<1>6. Given(q)'
  BY DEF Fine, Given, Same, Forward
<1> QED
  BY <1>2, <1>3, <1>4, <1>5, <1>6 DEF Fine

\* Nothing is pending in a new task.
LEMMA NewPending ==
  Pending(NewMine) = {} /\ Cardinality(Pending(NewMine)) = 0
<1>1. Pending(NewMine) = {}
  BY DEF Pending, NewMine
<1> QED
  BY <1>1, FS_EmptySet

\* The task of p has ended.
LEMMA Ended ==
  ASSUME TypeOK', NEW p \in Peers, task'[p] = "none", mine'[p] = NewMine, count'[p] = 0,
         ~checked'[p], open'[p] \/ asked'[p] = NoneAsked,
         \/ asked'[p] = NoneAsked
         \/ stored' /\ (bad' = 0 /\ ~late' => \A b \in Blocks : asked'[p][b] <= 1)
  PROVE Fine(p)'
<1>1. Counted(p)'
  <2>1. Window \in Nat
    BY NumbersAssumption
  <2> QED
    BY <2>1, NewPending DEF Counted
<1>2. InTask(p)'
  BY DEF InTask
<1>3. Known(p)'
  <2>1. CASE asked'[p] = NoneAsked
    <3>1. \A b \in Blocks : asked'[p][b] = 0
      BY <2>1 DEF NoneAsked
    <3> QED
      BY <3>1 DEF Known
  <2>2. CASE stored' /\ (bad' = 0 /\ ~late' => \A b \in Blocks : asked'[p][b] <= 1)
    BY <2>2 DEF Known
  <2> QED
    BY <2>1, <2>2
<1>4. Clean(p)'
  <2>1. \A b \in Blocks : mine'[p][b].data # "bad" /\ (b \in Virtual => mine'[p][b].data = "good")
    BY DEF NewMine
  <2> QED
    BY <2>1 DEF Clean, Sound
<1>5. Given(p)'
  BY DEF Given
<1> QED
  BY <1>1, <1>2, <1>3, <1>4, <1>5 DEF Fine

\* A step is safe if it is for the others, for its own peer, and for what its
\* peer and the orphans hold.
LEMMA Step ==
  ASSUME Inv, TypeOK', Forward, Shelf', NEW p \in Peers, Fine(p)',
         \A q \in Peers \ {p} : Same(q),
         ~stored' /\ bad' = 0 => \A b \in Blocks :
           /\ b \in arrived' => b \in arrived \/ Holds(b)'
           /\ mine[p][b].data = "good" /\ b \in arrived => Holds(b)'
           /\ (\E k \in DOMAIN orphans : orphans[k].block = b) => Holds(b)'
  PROVE Inv'
<1>1. \A q \in Peers : Fine(q)'
  <2>1. SUFFICES ASSUME NEW q \in Peers, q # p PROVE Fine(q)'
    OBVIOUS
  <2> QED
    BY <2>1, Unmoved DEF Inv
<1>2. NothingLost'
  <2>1. SUFFICES ASSUME ~stored', bad' = 0, NEW b \in arrived' PROVE Holds(b)'
    BY DEF NothingLost
  <2>2. b \in Blocks
    BY DEF TypeOK
  <2>3. CASE b \notin arrived
    BY <2>1, <2>2, <2>3
  <2>4. CASE b \in arrived
    <3>1. Holds(b)
      BY <2>1, <2>4 DEF Inv, NothingLost, Forward
    <3>2. CASE \E q \in Peers : mine[q][b].data = "good"
      <4>1. PICK q \in Peers : mine[q][b].data = "good"
        BY <3>2
      <4>2. CASE q = p
        BY <2>1, <2>2, <2>4, <4>1, <4>2
      <4>3. CASE q # p
        <5>1. mine'[q][b].data = "good"
          BY <4>1, <4>3 DEF Same
        <5> QED
          BY <5>1 DEF Holds
      <4> QED
        BY <4>2, <4>3
    <3>3. CASE share # NoShare /\ share[b].data = "good"
      BY <2>1, <2>2, <3>3 DEF Forward, Holds
    <3>4. CASE \E k \in DOMAIN orphans : orphans[k].block = b
      BY <2>1, <2>2, <3>4
    <3> QED
      BY <3>1, <3>2, <3>3, <3>4 DEF Holds
  <2> QED
    BY <2>3, <2>4
<1> QED
  BY <1>1, <1>2 DEF Inv

-----------------------------------------------------------------------------
(* The links, and what ends a task.                                          *)

\* Sequences of orphans put together.
LEMMA Joined ==
  ASSUME NEW s \in Seq(Orphans), NEW t \in Seq(Orphans)
  PROVE /\ s \o t \in Seq(Orphans)
        /\ \A k \in DOMAIN s : k \in DOMAIN (s \o t) /\ (s \o t)[k] = s[k]
        /\ \A k \in DOMAIN t : Len(s) + k \in DOMAIN (s \o t) /\ (s \o t)[Len(s) + k] = t[k]
        /\ \A k \in DOMAIN (s \o t) : \/ \E j \in DOMAIN s : (s \o t)[k] = s[j]
                                      \/ \E j \in DOMAIN t : (s \o t)[k] = t[j]
<1>1. /\ s \o t \in Seq(Orphans) /\ Len(s \o t) = Len(s) + Len(t)
      /\ Len(s) \in Nat /\ Len(t) \in Nat
      /\ DOMAIN s = 1 .. Len(s) /\ DOMAIN t = 1 .. Len(t) /\ DOMAIN (s \o t) = 1 .. Len(s \o t)
  OBVIOUS
<1>2. \A k \in 1 .. Len(s) : (s \o t)[k] = s[k]
  OBVIOUS
<1>3. \A k \in 1 .. Len(t) : (s \o t)[Len(s) + k] = t[k]
  OBVIOUS
<1>4. ASSUME NEW k \in 1 .. Len(s) + Len(t), k \notin 1 .. Len(s)
      PROVE \E j \in 1 .. Len(t) : (s \o t)[k] = t[j]
  <2>1. k - Len(s) \in 1 .. Len(t) /\ Len(s) + (k - Len(s)) = k
    BY <1>1, <1>4
  <2> QED
    BY <1>3, <2>1
<1> DEFINE u == s \o t
<1> HIDE DEF u
<1>5. /\ u \in Seq(Orphans) /\ Len(s) \in Nat /\ Len(t) \in Nat
      /\ DOMAIN s = 1 .. Len(s) /\ DOMAIN t = 1 .. Len(t) /\ DOMAIN u = 1 .. Len(s) + Len(t)
      /\ \A k \in 1 .. Len(s) : u[k] = s[k]
      /\ \A k \in 1 .. Len(t) : u[Len(s) + k] = t[k]
      /\ \A k \in 1 .. Len(s) + Len(t) : k \notin 1 .. Len(s) => \E j \in 1 .. Len(t) : u[k] = t[j]
  BY <1>1, <1>2, <1>3, <1>4 DEF u
<1>6. /\ u \in Seq(Orphans)
      /\ \A k \in DOMAIN s : k \in DOMAIN u /\ u[k] = s[k]
      /\ \A k \in DOMAIN t : Len(s) + k \in DOMAIN u /\ u[Len(s) + k] = t[k]
  BY <1>5
<1>7. \A k \in DOMAIN u : (\E j \in DOMAIN s : u[k] = s[j]) \/ (\E j \in DOMAIN t : u[k] = t[j])
  BY <1>5
<1> QED
  BY <1>6, <1>7 DEF u

\* The task of a new block: empty, and of the right type.
LEMMA NewMineType ==
  NewMine \in [Blocks -> Mine] /\ NoneAsked \in [Blocks -> Nat]
BY DEF NewMine, NoneAsked, Mine, Data

\* Whatever a link that closes held of the piece is kept.
LEMMA Closing ==
  ASSUME Inv, NEW p \in Peers, OnClose(p), trouble' \in 0 .. MaxTrouble, UNCHANGED <<bad, history>>
  PROVE Inv'
<1> DEFINE given == OrphansOf(mine[p])
<1>1. Fine(p) /\ TypeOK /\ mine[p] \in [Blocks -> Mine]
  BY DEF Inv, TypeOK
<1>2. /\ given \in Seq(Orphans)
      /\ \A k \in DOMAIN given : given[k].block \in Held(mine[p])
                                 /\ given[k].data = mine[p][given[k].block].data
      /\ \A b \in Held(mine[p]) : \E k \in DOMAIN given : given[k].block = b
  BY <1>1, OrphansFilled
<1> HIDE DEF given
<1>3. orphans' = IF task[p] = "solo" THEN orphans \o given ELSE orphans
  BY DEF OnClose, SaveOrphanToStorage, given
<1>4. orphans \in Seq(Orphans)
  BY <1>1 DEF TypeOK
<1>5. /\ orphans' \in Seq(Orphans)
      /\ \A k \in DOMAIN orphans : k \in DOMAIN orphans' /\ orphans'[k] = orphans[k]
  BY <1>2, <1>3, <1>4, Joined
<1>6. /\ task' = [task EXCEPT ![p] = "none"] /\ mine' = [mine EXCEPT ![p] = NewMine]
      /\ count' = [count EXCEPT ![p] = 0] /\ checked' = [checked EXCEPT ![p] = FALSE]
      /\ open' = [open EXCEPT ![p] = FALSE] /\ asked' = [asked EXCEPT ![p] = NoneAsked]
      /\ allowed' \in [Peers -> BOOLEAN] /\ holders' \in Nat
      /\ choked' = [choked EXCEPT ![p] = TRUE]
  <2>1. CASE task[p] = "none"
    <3>1. mine[p] = NewMine /\ count[p] = 0
      BY <1>1, <2>1 DEF Fine, InTask
    <3>2. task' = task /\ mine' = mine /\ count' = count /\ allowed' = allowed /\ holders' = holders
      BY <2>1 DEF OnClose
    <3> QED
      BY <1>1, <2>1, <3>1, <3>2 DEF OnClose, Shut, TypeOK
  <2>2. CASE task[p] # "none"
    <3>1. CancelMyRequest(p)
      BY <2>2 DEF OnClose
    <3> QED
      BY <1>1, <3>1 DEF OnClose, Shut, CancelMyRequest, Reset, AbandonPieceTask, TypeOK
  <2> QED
    BY <2>1, <2>2
<1>7. UNCHANGED <<stored, share, fails, links, bad, arrived, late, mixed, liars, blamed>>
  BY DEF OnClose, history
<1>8. TypeOK'
  BY <1>1, <1>5, <1>6, <1>7, NewMineType DEF TypeOK
<1>9. Forward
  BY <1>7 DEF Forward
<1>10. Fine(p)'
  <2>1. task'[p] = "none" /\ mine'[p] = NewMine /\ count'[p] = 0 /\ ~checked'[p] /\ asked'[p] = NoneAsked
    BY <1>1, <1>6 DEF TypeOK
  <2> QED
    BY <1>8, <2>1, Ended
<1>11. ASSUME NEW q \in Peers \ {p} PROVE Same(q)
  BY <1>1, <1>6, <1>7 DEF Same, TypeOK
<1>12. Shelf'
  <2>1. SUFFICES ASSUME bad = 0 PROVE AllGood'
    BY <1>7 DEF Inv, Shelf
  <2>2. AllGood /\ \A b \in Blocks : mine[p][b].data # "bad"
    BY <1>1, <2>1 DEF Inv, Shelf, Fine, Clean, Sound
  <2>3. \A k \in DOMAIN given : given[k].data = "good"
    <3>1. SUFFICES ASSUME NEW k \in DOMAIN given PROVE given[k].data = "good"
      OBVIOUS
    <3>2. given[k].block \in Blocks /\ mine[p][given[k].block].data # "none"
      BY <1>2 DEF Held
    <3>3. mine[p][given[k].block].data \in Data
      BY <1>1, <3>2 DEF Mine
    <3> QED
      BY <1>2, <2>2, <3>2, <3>3 DEF Data
  <2> QED
    BY <1>2, <1>3, <1>4, <2>2, <2>3, Joined DEF AllGood
<1>13. ASSUME ~stored', bad' = 0, NEW b \in Blocks
       PROVE /\ b \in arrived' => b \in arrived
             /\ mine[p][b].data = "good" => Holds(b)'
             /\ (\E k \in DOMAIN orphans : orphans[k].block = b) => Holds(b)'
  <2>1. (\E k \in DOMAIN orphans : orphans[k].block = b) => Holds(b)'
    BY <1>5 DEF Holds
  <2>2. ASSUME mine[p][b].data = "good" PROVE Holds(b)'
    <3>1. CASE task[p] = "solo"
      <4>1. PICK k \in DOMAIN given : given[k].block = b
        BY <1>2, <2>2 DEF Held
      <4>2. Len(orphans) + k \in DOMAIN orphans' /\ orphans'[Len(orphans) + k] = given[k]
        BY <1>2, <1>3, <1>4, <3>1, <4>1, Joined
      <4> QED
        BY <4>1, <4>2 DEF Holds
    <3>2. CASE b \in Virtual
      <4>1. mine'[p][b].data = "good"
        BY <1>1, <1>6, <3>2 DEF NewMine, TypeOK
      <4> QED
        BY <4>1 DEF Holds
    <3>3. CASE task[p] = "coop" /\ b \notin Virtual
      <4>1. share # NoShare /\ share[b].data = "good"
        BY <1>1, <1>7, <1>13, <2>2, <3>3 DEF Fine, Given
      <4> QED
        BY <1>7, <4>1 DEF Holds
    <3>4. CASE task[p] = "none" /\ b \notin Virtual
      <4>1. mine[p][b].data = "none"
        BY <1>1, <3>4 DEF Fine, InTask, NewMine
      <4> QED
        BY <2>2, <4>1
    <3> QED
      BY <1>1, <3>1, <3>2, <3>3, <3>4 DEF TypeOK
  <2> QED
    BY <1>7, <2>1, <2>2
<1> QED
  BY <1>8, <1>9, <1>10, <1>11, <1>12, <1>13, Step

LEMMA OnConnectOkStep ==
  ASSUME Inv, NEW p \in Peers, OnConnectOk(p)
  PROVE Inv'
<1>1. TypeOK /\ Fine(p)
  BY DEF Inv
<1>2. UNCHANGED <<stored, holders, orphans, share, fails, choked, task, allowed, mine, count,
                  checked, asked, trouble, bad, arrived, late, mixed, liars, blamed>>
  BY DEF OnConnectOk, storage, requests, history
<1>3. TypeOK'
  BY <1>1, <1>2, BoundsAssumption DEF OnConnectOk, TypeOK
<1>4. Forward
  BY <1>2 DEF Forward
<1>5. ASSUME NEW q \in Peers PROVE Same(q)
  BY <1>1, <1>2 DEF OnConnectOk, Same, TypeOK
<1>6. Fine(p)'
  BY <1>1, <1>3, <1>4, <1>5, Unmoved
<1>7. Shelf'
  BY <1>2 DEF Inv, Shelf, AllGood, Sound
<1>8. ASSUME ~stored', bad' = 0, NEW b \in Blocks
      PROVE /\ b \in arrived' => b \in arrived
            /\ mine[p][b].data = "good" => Holds(b)'
            /\ (\E k \in DOMAIN orphans : orphans[k].block = b) => Holds(b)'
  BY <1>2 DEF Holds
<1> QED
  BY <1>3, <1>4, <1>5, <1>6, <1>7, <1>8, Step

LEMMA DoCmdUnchokeStep ==
  ASSUME Inv, NEW p \in Peers, DoCmdUnchoke(p)
  PROVE Inv'
<1>1. TypeOK /\ Fine(p)
  BY DEF Inv
<1>2. UNCHANGED <<stored, holders, orphans, share, fails, open, links, task, allowed, mine, count,
                  checked, asked, trouble, bad, arrived, late, mixed, liars, blamed>>
  BY DEF DoCmdUnchoke, storage, requests, history
<1>3. TypeOK'
  BY <1>1, <1>2 DEF DoCmdUnchoke, TypeOK
<1>4. Forward
  BY <1>2 DEF Forward
<1>5. ASSUME NEW q \in Peers PROVE Same(q)
  BY <1>2 DEF Same
<1>6. Fine(p)'
  BY <1>1, <1>3, <1>4, <1>5, Unmoved
<1>7. Shelf'
  BY <1>2 DEF Inv, Shelf, AllGood, Sound
<1>8. ASSUME ~stored', bad' = 0, NEW b \in Blocks
      PROVE /\ b \in arrived' => b \in arrived
            /\ mine[p][b].data = "good" => Holds(b)'
            /\ (\E k \in DOMAIN orphans : orphans[k].block = b) => Holds(b)'
  BY <1>2 DEF Holds
<1> QED
  BY <1>3, <1>4, <1>5, <1>6, <1>7, <1>8, Step

LEMMA PeerClosesStep ==
  ASSUME Inv, NEW p \in Peers, PeerCloses(p)
  PROVE Inv'
<1>1. trouble' \in 0 .. MaxTrouble
  BY BoundsAssumption DEF Inv, TypeOK, PeerCloses, Trouble
<1> QED
  BY <1>1, Closing DEF PeerCloses

LEMMA ShareRefusedStep ==
  ASSUME Inv, NEW p \in Peers, ShareRefused(p)
  PROVE Inv'
<1>1. trouble' \in 0 .. MaxTrouble
  BY DEF Inv, TypeOK, ShareRefused
<1> QED
  BY <1>1, Closing DEF ShareRefused

LEMMA NoticeNewHavePieceStep ==
  ASSUME Inv, NEW p \in Peers, NoticeNewHavePiece(p)
  PROVE Inv'
<1>1. TypeOK /\ Fine(p)
  BY DEF Inv
<1>2. /\ UNCHANGED <<stored, orphans, share, fails, open, links, choked, checked,
                     asked, trouble, bad, arrived, late, mixed, liars, blamed>>
      /\ task' = [task EXCEPT ![p] = "none"] /\ mine' = [mine EXCEPT ![p] = NewMine]
      /\ count' = [count EXCEPT ![p] = 0] /\ allowed' = [allowed EXCEPT ![p] = FALSE]
      /\ holders' = IF holders > 0 THEN holders - 1 ELSE 0
      /\ open[p] /\ ~checked[p] /\ stored
  BY DEF NoticeNewHavePiece, history, CancelMyRequest, AbandonPieceTask, Reset, Idle
<1>3. TypeOK'
  BY <1>1, <1>2, NewMineType DEF TypeOK
<1>4. Forward
  BY <1>2 DEF Forward
<1>5. ASSUME NEW q \in Peers \ {p} PROVE Same(q)
  BY <1>1, <1>2 DEF Same, TypeOK
<1>6. Fine(p)'
  <2>1. /\ task'[p] = "none" /\ mine'[p] = NewMine /\ count'[p] = 0 /\ ~checked'[p] /\ open'[p]
        /\ asked'[p] = asked[p]
    BY <1>1, <1>2 DEF TypeOK
  <2>2. bad' = 0 /\ ~late' => \A b \in Blocks : asked'[p][b] <= 1
    BY <1>1, <1>2 DEF Fine, Known
  <2> QED
    BY <1>2, <1>3, <2>1, <2>2, Ended
<1>7. Shelf'
  BY <1>2 DEF Inv, Shelf, AllGood, Sound
<1> QED
  BY <1>2, <1>3, <1>4, <1>5, <1>6, <1>7, Step

LEMMA CheckShareStep ==
  ASSUME Inv, NEW p \in Peers, CheckShare(p)
  PROVE Inv'
<1>1. TypeOK /\ Fine(p)
  BY DEF Inv
<1>2. /\ UNCHANGED <<stored, holders, orphans, share, fails, open, links, choked, task, allowed, mine,
                     count, asked, trouble, bad, arrived, late, mixed, liars, blamed>>
      /\ checked' = [checked EXCEPT ![p] = TRUE]
      /\ open[p] /\ task[p] = "coop" /\ count[p] < Window
  BY DEF CheckShare, storage, history, MayAsk
<1>3. TypeOK'
  BY <1>1, <1>2 DEF TypeOK
<1>4. Forward
  BY <1>2 DEF Forward
<1>5. ASSUME NEW q \in Peers \ {p} PROVE Same(q)
  BY <1>1, <1>2 DEF Same, TypeOK
<1>6. Fine(p)'
  BY <1>1, <1>2 DEF Fine, Counted, InTask, Known, Clean, Given, Sound
<1>7. Shelf'
  BY <1>2 DEF Inv, Shelf, AllGood, Sound
<1>8. ASSUME ~stored', bad' = 0, NEW b \in Blocks
      PROVE /\ b \in arrived' => b \in arrived
            /\ mine[p][b].data = "good" => Holds(b)'
            /\ (\E k \in DOMAIN orphans : orphans[k].block = b) => Holds(b)'
  BY <1>2 DEF Holds
<1> QED
  BY <1>3, <1>4, <1>5, <1>6, <1>7, <1>8, Step

\* Whoever finds no block left waits, or goes.
LEMMA ShareEmptyStep ==
  ASSUME Inv, NEW p \in Peers, ShareEmpty(p)
  PROVE Inv'
<1>0. TypeOK /\ Fine(p)
  BY DEF Inv
<1>1. CASE count[p] = 0
  <2>1. trouble' \in 0 .. MaxTrouble
    BY <1>0 DEF ShareEmpty, TypeOK
  <2> QED
    BY <1>1, <2>1, Closing DEF ShareEmpty
<1>2. CASE count[p] # 0
  <2>1. /\ UNCHANGED <<stored, holders, orphans, share, fails, open, links, choked, task, allowed,
                       mine, count, asked, trouble, bad, arrived, late, mixed, liars, blamed>>
        /\ checked' = [checked EXCEPT ![p] = FALSE]
    BY <1>2 DEF ShareEmpty, storage, history
  <2>2. TypeOK'
    BY <1>0, <2>1 DEF TypeOK
  <2>3. Forward
    BY <2>1 DEF Forward
  <2>4. ASSUME NEW q \in Peers PROVE Same(q)
    BY <1>0, <2>1 DEF Same, TypeOK
  <2>5. Fine(p)'
    BY <1>0, <2>2, <2>3, <2>4, Unmoved
  <2>6. Shelf'
    BY <2>1 DEF Inv, Shelf, AllGood, Sound
  <2>7. ASSUME ~stored', bad' = 0, NEW b \in Blocks
        PROVE /\ b \in arrived' => b \in arrived
              /\ mine[p][b].data = "good" => Holds(b)'
              /\ (\E k \in DOMAIN orphans : orphans[k].block = b) => Holds(b)'
    BY <2>1 DEF Holds
  <2> QED
    BY <2>2, <2>3, <2>4, <2>5, <2>6, <2>7, Step
<1> QED
  BY <1>1, <1>2

-----------------------------------------------------------------------------
(* What is pending.                                                          *)

\* A step that leaves the data of the task alone.
LEMMA SameData ==
  ASSUME Inv, TypeOK', Forward, NEW p \in Peers,
         open'[p], task'[p] = task[p],
         \A b \in Blocks : mine'[p][b].data = mine[p][b].data,
         p \in liars \cup mixed => p \in liars' \cup mixed',
         task[p] = "none" => mine'[p] = NewMine /\ count'[p] = 0,
         checked'[p] => task[p] = "coop" /\ count'[p] < Window,
         task[p] = "coop" /\ share' = NoShare /\ ~stored' => mine'[p] = NewMine,
         Counted(p)', Known(p)'
  PROVE Fine(p)'
<1>1. Fine(p)
  BY DEF Inv
<1>2. InTask(p)'
  BY DEF InTask
<1>3. Clean(p)'
  BY <1>1 DEF Fine, Clean, Sound, Forward
<1>4. Given(p)'
  BY <1>1 DEF Fine, Given, Forward
<1> QED
  BY <1>2, <1>3, <1>4 DEF Fine

LEMMA Unpended ==
  ASSUME TypeOK, NEW p \in Peers, ResetPendingRequest(p)
  PROVE /\ mine' \in [Peers -> [Blocks -> Mine]] /\ count' \in [Peers -> Int]
        /\ \A q \in Peers \ {p} : mine'[q] = mine[q] /\ count'[q] = count[q]
        /\ \A b \in Blocks : mine'[p][b].data = mine[p][b].data /\ ~mine'[p][b].pending
        /\ count'[p] = 0 /\ Cardinality(Pending(mine'[p])) = 0
        /\ mine[p] = NewMine => mine'[p] = NewMine
<1>1. mine \in [Peers -> [Blocks -> Mine]] /\ count \in [Peers -> Int]
  BY DEF TypeOK
<1> DEFINE r == [b \in Blocks |-> [mine[p][b] EXCEPT !.pending = FALSE]]
<1>2. mine' = [mine EXCEPT ![p] = r] /\ count' = [count EXCEPT ![p] = 0]
  BY DEF ResetPendingRequest
<1>3. \A b \in Blocks : mine[p][b] \in Mine
  BY <1>1
<1>4. \A b \in Blocks : r[b] \in Mine /\ r[b].data = mine[p][b].data /\ ~r[b].pending
  BY <1>3 DEF Mine
<1>5. r \in [Blocks -> Mine]
  <2>1. \A b \in Blocks : [mine[p][b] EXCEPT !.pending = FALSE] \in Mine
    BY <1>4
  <2> QED
    BY <2>1
<1>6. mine[p] = NewMine => r = NewMine
  <2>1. SUFFICES ASSUME mine[p] = NewMine, NEW b \in Blocks PROVE r[b] = NewMine[b]
    BY <1>5, NewMineType
  <2>2. NewMine[b] = [data |-> NewMine[b].data, pending |-> FALSE, source |-> NewMine[b].source]
    BY DEF NewMine
  <2> HIDE DEF r
  <2>3. r[b] = [mine[p][b] EXCEPT !.pending = FALSE]
    BY DEF r
  <2> QED
    BY <2>1, <2>2, <2>3
<1> HIDE DEF r
<1>7. mine'[p] = r
  BY <1>1, <1>2
<1>8. Cardinality(Pending(r)) = 0
  <2>1. Pending(r) = {}
    BY <1>4 DEF Pending
  <2> QED
    BY <2>1, FS_EmptySet
<1> QED
  BY <1>1, <1>2, <1>4, <1>5, <1>6, <1>7, <1>8

LEMMA OnTimerStep ==
  ASSUME Inv, NEW p \in Peers, OnTimer(p)
  PROVE Inv'
<1>1. TypeOK /\ Fine(p)
  BY DEF Inv
<1>2. /\ mine' \in [Peers -> [Blocks -> Mine]] /\ count' \in [Peers -> Int]
      /\ \A q \in Peers \ {p} : mine'[q] = mine[q] /\ count'[q] = count[q]
      /\ \A b \in Blocks : mine'[p][b].data = mine[p][b].data /\ ~mine'[p][b].pending
      /\ count'[p] = 0 /\ Cardinality(Pending(mine'[p])) = 0
      /\ mine[p] = NewMine => mine'[p] = NewMine
  BY <1>1, Unpended DEF OnTimer
<1>3. /\ UNCHANGED <<stored, holders, orphans, share, fails, open, links, choked, task, allowed,
                     checked, asked, bad, arrived, mixed, liars, blamed>>
      /\ late' = TRUE /\ trouble < MaxTrouble /\ trouble' = trouble + 1
      /\ open[p] /\ ~checked[p] /\ Pending(mine[p]) # {}
  BY DEF OnTimer, Idle, Trouble, storage
<1>4. TypeOK'
  BY <1>1, <1>2, <1>3, BoundsAssumption DEF TypeOK
<1>5. Forward
  BY <1>3 DEF Forward
<1>6. ASSUME NEW q \in Peers \ {p} PROVE Same(q)
  BY <1>2, <1>3 DEF Same
<1>7. mine[p] # NewMine
  BY <1>3, NewPending
<1>8. Fine(p)'
  <2>1. Counted(p)'
    BY <1>2, NumbersAssumption DEF Counted
  <2>2. Known(p)'
    BY <1>1, <1>3, <1>7 DEF Fine, Known, InTask
  <2> QED
    BY <1>1, <1>2, <1>3, <1>4, <1>5, <1>7, <2>1, <2>2, SameData DEF Fine, InTask
<1>9. Shelf'
  BY <1>3 DEF Inv, Shelf, AllGood, Sound
<1>10. ASSUME ~stored', bad' = 0, NEW b \in Blocks
       PROVE /\ b \in arrived' => b \in arrived
             /\ mine[p][b].data = "good" => Holds(b)'
             /\ (\E k \in DOMAIN orphans : orphans[k].block = b) => Holds(b)'
  BY <1>2, <1>3 DEF Holds
<1> QED
  BY <1>4, <1>5, <1>6, <1>8, <1>9, <1>10, Step

LEMMA DoCmdChokeStep ==
  ASSUME Inv, NEW p \in Peers, DoCmdChoke(p)
  PROVE Inv'
<1>1. TypeOK /\ Fine(p)
  BY DEF Inv
<1>2. /\ UNCHANGED <<stored, holders, orphans, share, fails, open, links, task, allowed,
                     checked, bad, arrived, late, mixed, liars, blamed>>
      /\ choked' = [choked EXCEPT ![p] = TRUE]
      /\ trouble < MaxTrouble /\ trouble' = trouble + 1
      /\ open[p] /\ ~checked[p]
  BY DEF DoCmdChoke, Idle, Trouble, storage, history
<1>3. Forward
  BY <1>2 DEF Forward
<1>4. Shelf'
  BY <1>2 DEF Inv, Shelf, AllGood, Sound
<1>5. CASE p \in FastPeers
  <2>1. UNCHANGED <<mine, count, asked>>
    BY <1>5 DEF DoCmdChoke
  <2>2. TypeOK'
    BY <1>1, <1>2, <2>1, BoundsAssumption DEF TypeOK
  <2>3. ASSUME NEW q \in Peers PROVE Same(q)
    BY <1>2, <2>1 DEF Same
  <2>4. Fine(p)'
    BY <1>1, <1>3, <2>2, <2>3, Unmoved
  <2>5. ASSUME ~stored', bad' = 0, NEW b \in Blocks
        PROVE /\ b \in arrived' => b \in arrived
              /\ mine[p][b].data = "good" => Holds(b)'
              /\ (\E k \in DOMAIN orphans : orphans[k].block = b) => Holds(b)'
    BY <1>2, <2>1 DEF Holds
  <2> QED
    BY <1>3, <1>4, <2>2, <2>3, <2>4, <2>5, Step
<1>6. CASE p \notin FastPeers
  <2>1. ResetPendingRequest(p) /\ asked' = [asked EXCEPT ![p] = NoneAsked]
    BY <1>6 DEF DoCmdChoke
  <2>2. /\ mine' \in [Peers -> [Blocks -> Mine]] /\ count' \in [Peers -> Int]
        /\ \A q \in Peers \ {p} : mine'[q] = mine[q] /\ count'[q] = count[q]
        /\ \A b \in Blocks : mine'[p][b].data = mine[p][b].data /\ ~mine'[p][b].pending
        /\ count'[p] = 0 /\ Cardinality(Pending(mine'[p])) = 0
        /\ mine[p] = NewMine => mine'[p] = NewMine
    BY <1>1, <2>1, Unpended
  <2>3. TypeOK'
    <3>1. trouble' \in 0 .. MaxTrouble /\ choked' \in [Peers -> BOOLEAN]
      BY <1>1, <1>2, BoundsAssumption DEF TypeOK
    <3>2. asked' \in [Peers -> [Blocks -> Nat]]
      BY <1>1, <2>1, NewMineType DEF TypeOK
    <3> QED
      BY <1>1, <1>2, <2>2, <3>1, <3>2 DEF TypeOK
  <2>4. ASSUME NEW q \in Peers \ {p} PROVE Same(q)
    BY <1>1, <1>2, <2>1, <2>2 DEF Same, TypeOK
  <2>5. Fine(p)'
    <3>1. Counted(p)'
      BY <2>2, NumbersAssumption DEF Counted
    <3>2. Known(p)'
      <4>1. asked'[p] = NoneAsked
        BY <1>1, <2>1 DEF TypeOK
      <4>2. \A b \in Blocks : asked'[p][b] = 0
        BY <4>1 DEF NoneAsked
      <4> QED
        BY <4>2 DEF Known
    <3> QED
      BY <1>1, <1>2, <1>3, <2>2, <2>3, <3>1, <3>2, SameData DEF Fine, InTask
  <2>6. ASSUME ~stored', bad' = 0, NEW b \in Blocks
        PROVE /\ b \in arrived' => b \in arrived
              /\ mine[p][b].data = "good" => Holds(b)'
              /\ (\E k \in DOMAIN orphans : orphans[k].block = b) => Holds(b)'
    BY <1>2, <2>2 DEF Holds
  <2> QED
    BY <1>3, <1>4, <2>3, <2>4, <2>5, <2>6, Step
<1> QED
  BY <1>5, <1>6

\* A peer is asked for blocks that are not pending, within the window.
LEMMA Asking ==
  ASSUME TypeOK, NEW p \in Peers, Counted(p), NEW S \in SUBSET Blocks, Ask(p, S),
         \A b \in S : ~mine[p][b].pending, count[p] + Cardinality(S) <= Window
  PROVE /\ mine' \in [Peers -> [Blocks -> Mine]] /\ count' \in [Peers -> Int]
        /\ asked' \in [Peers -> [Blocks -> Nat]]
        /\ \A q \in Peers \ {p} : mine'[q] = mine[q] /\ count'[q] = count[q] /\ asked'[q] = asked[q]
        /\ \A b \in Blocks : /\ mine'[p][b].data = mine[p][b].data
                             /\ (mine'[p][b].pending <=> mine[p][b].pending \/ b \in S)
                             /\ asked'[p][b] = IF b \in S THEN asked[p][b] + 1 ELSE asked[p][b]
        /\ count'[p] = count[p] + Cardinality(S)
        /\ Counted(p)'
<1>1. /\ mine \in [Peers -> [Blocks -> Mine]] /\ count \in [Peers -> Int]
      /\ asked \in [Peers -> [Blocks -> Nat]]
  BY DEF TypeOK
<1> DEFINE r == [b \in Blocks |-> IF b \in S THEN [mine[p][b] EXCEPT !.pending = TRUE] ELSE mine[p][b]]
           a == [b \in Blocks |-> IF b \in S THEN asked[p][b] + 1 ELSE asked[p][b]]
<1>2. /\ mine' = [mine EXCEPT ![p] = r] /\ asked' = [asked EXCEPT ![p] = a]
      /\ count' = [count EXCEPT ![p] = count[p] + Cardinality(S)]
  BY DEF Ask
<1>3. ASSUME NEW b \in Blocks
      PROVE /\ r[b] \in Mine /\ r[b].data = mine[p][b].data
            /\ (r[b].pending <=> mine[p][b].pending \/ b \in S)
            /\ a[b] \in Nat
  <2>1. mine[p][b] \in Mine /\ asked[p][b] \in Nat
    BY <1>1
  <2>2. mine[p][b].pending \in BOOLEAN
    BY <2>1 DEF Mine
  <2>3. CASE b \in S
    <3>1. r[b] = [mine[p][b] EXCEPT !.pending = TRUE] /\ a[b] = asked[p][b] + 1
      BY <2>3
    <3>2. r[b] \in Mine /\ r[b].data = mine[p][b].data /\ r[b].pending = TRUE
      <4> HIDE DEF r, a
      <4> QED
        BY <2>1, <3>1 DEF Mine
    <3> HIDE DEF r, a
    <3> QED
      BY <2>1, <2>3, <3>1, <3>2
  <2>4. CASE b \notin S
    <3>1. r[b] = mine[p][b] /\ a[b] = asked[p][b]
      BY <2>4
    <3> QED
      BY <2>1, <2>2, <2>4, <3>1
  <2> QED
    BY <2>3, <2>4
<1>4. r \in [Blocks -> Mine] /\ a \in [Blocks -> Nat]
  BY <1>3
<1>5. \A b \in Blocks : a[b] = IF b \in S THEN asked[p][b] + 1 ELSE asked[p][b]
  OBVIOUS
<1> HIDE DEF r, a
<1>6. Cardinality(S) \in Nat /\ IsFiniteSet(S) /\ IsFiniteSet(Pending(mine[p]))
  <2>1. IsFiniteSet(Blocks)
    BY BlocksAssumption, FS_Interval DEF Blocks
  <2>2. IsFiniteSet(S)
    BY <2>1, FS_Subset
  <2>3. IsFiniteSet(Pending(mine[p]))
    BY <2>1, FS_Subset DEF Pending
  <2> QED
    BY <2>2, <2>3, FS_CardinalityType
<1>7. mine'[p] = r /\ asked'[p] = a /\ count'[p] = count[p] + Cardinality(S)
  BY <1>1, <1>2
<1>8. Counted(p)'
  <2>1. Pending(r) = Pending(mine[p]) \cup S /\ Pending(mine[p]) \cap S = {}
    BY <1>3 DEF Pending
  <2>2. Cardinality(Pending(mine[p]) \cup S)
            = Cardinality(Pending(mine[p])) + Cardinality(S) - Cardinality(Pending(mine[p]) \cap S)
    BY <1>6, FS_Union
  <2>3. Cardinality(Pending(r)) = Cardinality(Pending(mine[p])) + Cardinality(S)
    <3>1. Cardinality(Pending(mine[p]) \cap S) = 0
      BY <2>1, FS_EmptySet
    <3>2. Cardinality(Pending(mine[p])) \in Nat
      BY <1>6, FS_CardinalityType
    <3> QED
      BY <1>6, <2>1, <2>2, <3>1, <3>2
  <2> QED
    BY <1>7, <2>3 DEF Counted
<1> QED
  BY <1>1, <1>2, <1>3, <1>4, <1>5, <1>6, <1>7, <1>8

\* So it is not asked twice.
LEMMA AskedKnownOnce ==
  ASSUME TypeOK, Forward, NEW p \in Peers, Fine(p), NEW S \in SUBSET Blocks,
         task[p] # "none", task'[p] = task[p],
         \A b \in S : ~mine[p][b].pending,
         \A b \in Blocks : /\ (mine'[p][b].pending <=> mine[p][b].pending \/ b \in S)
                           /\ asked'[p][b] = IF b \in S THEN asked[p][b] + 1 ELSE asked[p][b],
         task[p] = "coop" => share' # NoShare
  PROVE Known(p)'
<1>1. SUFFICES ASSUME bad' = 0, NEW b \in Blocks
               PROVE /\ ~late' => asked'[p][b] <= 1
                     /\ asked'[p][b] > 0 =>
                          /\ late' \/ mine'[p][b].pending \/ (stored' /\ task'[p] = "none")
                          /\ stored' \/ task'[p] = "solo" \/ (task'[p] = "coop" /\ share' # NoShare)
  BY DEF Known
<1>2. /\ asked[p][b] \in Nat /\ task[p] \in {"none", "solo", "coop"}
      /\ ~late => asked[p][b] <= 1
      /\ asked[p][b] > 0 => late \/ mine[p][b].pending
  BY <1>1 DEF TypeOK, Fine, Known, Forward
<1>3. ~late' => asked'[p][b] <= 1 /\ (asked'[p][b] > 0 => mine'[p][b].pending)
  BY <1>2 DEF Forward
<1> QED
  BY <1>2, <1>3

LEMMA CountNat ==
  ASSUME TypeOK, NEW p \in Peers, Counted(p)
  PROVE count[p] \in Nat
<1>1. IsFiniteSet(Blocks)
  BY BlocksAssumption, FS_Interval DEF Blocks
<1>2. IsFiniteSet(Pending(mine[p]))
  BY <1>1, FS_Subset DEF Pending
<1> QED
  BY <1>2, FS_CardinalityType DEF Counted

LEMMA NextFits ==
  ASSUME TypeOK, NEW p \in Peers, Counted(p), count[p] < Window
  PROVE /\ Next12(p) \in SUBSET Blocks /\ \A b \in Next12(p) : ~mine[p][b].pending
        /\ count[p] + Cardinality(Next12(p)) <= Window
<1>1. Missing(mine[p]) \in SUBSET Blocks /\ \A b \in Missing(mine[p]) : ~mine[p][b].pending
  BY DEF Missing
<1>2. count[p] \in Nat /\ Window \in Nat /\ Window - count[p] \in Nat
  BY CountNat, NumbersAssumption
<1>3. /\ Next12(p) \in SUBSET Missing(mine[p])
      /\ Cardinality(Next12(p)) \in Nat /\ Cardinality(Next12(p)) <= Window - count[p]
  BY <1>1, <1>2, FirstBound DEF Next12
<1> QED
  BY <1>1, <1>2, <1>3

LEMMA DoMyRequestStep ==
  ASSUME Inv, NEW p \in Peers, DoMyRequest(p)
  PROVE Inv'
<1>1. TypeOK /\ Fine(p) /\ Counted(p)
  BY DEF Inv, Fine
<1> DEFINE S == Next12(p)
<1>2. /\ UNCHANGED <<stored, holders, orphans, share, fails, open, links, choked, task, allowed,
                     checked, trouble, bad, arrived, late, mixed, liars, blamed>>
      /\ open[p] /\ task[p] = "solo" /\ count[p] < Window /\ Ask(p, S)
  BY DEF DoMyRequest, MayAsk, storage, history
<1>3. S \in SUBSET Blocks /\ (\A b \in S : ~mine[p][b].pending) /\ count[p] + Cardinality(S) <= Window
  BY <1>1, <1>2, NextFits
<1> HIDE DEF S
<1>4. /\ mine' \in [Peers -> [Blocks -> Mine]] /\ count' \in [Peers -> Int]
      /\ asked' \in [Peers -> [Blocks -> Nat]]
      /\ \A q \in Peers \ {p} : mine'[q] = mine[q] /\ count'[q] = count[q] /\ asked'[q] = asked[q]
      /\ \A b \in Blocks : /\ mine'[p][b].data = mine[p][b].data
                           /\ (mine'[p][b].pending <=> mine[p][b].pending \/ b \in S)
                           /\ asked'[p][b] = IF b \in S THEN asked[p][b] + 1 ELSE asked[p][b]
      /\ Counted(p)'
  BY <1>1, <1>2, <1>3, Asking
<1>5. TypeOK'
  BY <1>1, <1>2, <1>4 DEF TypeOK
<1>6. Forward
  BY <1>2 DEF Forward
<1>7. ASSUME NEW q \in Peers \ {p} PROVE Same(q)
  BY <1>2, <1>4 DEF Same
<1>8. Fine(p)'
  <2>1. Known(p)'
    BY <1>1, <1>2, <1>3, <1>4, <1>6, AskedKnownOnce
  <2>2. ~checked'[p]
    BY <1>1, <1>2 DEF Fine, InTask
  <2> QED
    BY <1>2, <1>4, <1>5, <1>6, <2>1, <2>2, SameData
<1>9. Shelf'
  BY <1>2 DEF Inv, Shelf, AllGood, Sound
<1>10. ASSUME ~stored', bad' = 0, NEW b \in Blocks
       PROVE /\ b \in arrived' => b \in arrived
             /\ mine[p][b].data = "good" => Holds(b)'
             /\ (\E k \in DOMAIN orphans : orphans[k].block = b) => Holds(b)'
  BY <1>2, <1>4 DEF Holds
<1> QED
  BY <1>5, <1>6, <1>7, <1>8, <1>9, <1>10, Step

-----------------------------------------------------------------------------
(* The share request.                                                        *)

\* A share request has blocks.
LEMMA IsShare ==
  ASSUME NEW r \in [Blocks -> Shared]
  PROVE r # NoShare
<1>1. DOMAIN r = Blocks /\ 1 \in Blocks
  BY BlocksAssumption DEF Blocks
<1>2. DOMAIN NoShare = {}
  BY DEF NoShare
<1> QED
  BY <1>1, <1>2

\* What is sound and whole is right.
LEMMA WholeIsRight ==
  ASSUME NEW r, \A b \in Blocks : r[b].data \in Data, Sound(r), IsFinish(r)
  PROVE HashOK(r)
BY DEF Sound, IsFinish, HashOK, Data

LEMMA CurrentFine ==
  ASSUME Inv
  PROVE /\ Current \in [Blocks -> Shared] /\ \A b \in Blocks : Current[b].data \in Data
        /\ share # NoShare => Current = share
        /\ bad = 0 => Sound(Current)
        /\ bad = 0 /\ share = NoShare =>
             \A k \in DOMAIN orphans : Current[orphans[k].block].data = "good"
<1>1. orphans \in Seq(Orphans) /\ share \in [Blocks -> Shared] \cup {NoShare}
  BY DEF Inv, TypeOK
<1>2. CASE share # NoShare
  <2>1. Current = share /\ share \in [Blocks -> Shared]
    BY <1>1, <1>2 DEF Current
  <2>2. \A b \in Blocks : share[b].data \in Data
    BY <2>1 DEF Shared
  <2> QED
    BY <1>2, <2>1, <2>2 DEF Inv, Shelf
<1>3. CASE share = NoShare
  <2> DEFINE r == SharedOrphans[Len(orphans)]
  <2>1. /\ r \in [Blocks -> Shared]
        /\ AllGood => Sound(r) /\ \A k \in DOMAIN orphans : r[orphans[k].block].data = "good"
    BY <1>1, SharedFilled
  <2>2. Current = r
    BY <1>3 DEF Current
  <2> HIDE DEF r
  <2>3. \A b \in Blocks : r[b].data \in Data
    BY <2>1 DEF Shared
  <2> QED
    BY <1>3, <2>1, <2>2, <2>3 DEF Inv, Shelf
<1> QED
  BY <1>2, <1>3

LEMMA ShareTaskStep ==
  ASSUME Inv, NEW p \in Peers, ShareTask(p)
  PROVE Inv'
<1> DEFINE r == IF NewIsWhole THEN BareShare ELSE Current
<1>1. TypeOK /\ Fine(p) /\ Counted(p)
  BY DEF Inv, Fine
<1>2. PICK b \in First(Askable(r), 1) :
        /\ share' = [r EXCEPT ![b].pending = Wrapped(@ + 1)]
        /\ Ask(p, IF mine[p][b].pending THEN Next12(p) ELSE {b})
        /\ checked' = [checked EXCEPT ![p] = ~mine[p][b].pending /\ count[p] + 1 < Window /\ ~stored]
  BY DEF ShareTask
<1> DEFINE S == IF mine[p][b].pending THEN Next12(p) ELSE {b}
<1>3. /\ UNCHANGED <<stored, holders, open, links, choked, task, allowed, trouble, bad,
                     arrived, late, mixed, liars, blamed>>
      /\ checked[p] /\ ~(NewIsWhole /\ HashOK(Current))
      /\ orphans' = IF share = NoShare THEN <<>> ELSE orphans
      /\ fails' = IF share = NoShare THEN 0 ELSE fails
  BY DEF ShareTask, history
<1>4. open[p] /\ task[p] = "coop" /\ count[p] < Window
  BY <1>1, <1>3 DEF Fine, InTask
<1>5. /\ Current \in [Blocks -> Shared] /\ \A c \in Blocks : Current[c].data \in Data
      /\ share # NoShare => Current = share
      /\ bad = 0 => Sound(Current)
      /\ bad = 0 /\ share = NoShare =>
           \A k \in DOMAIN orphans : Current[orphans[k].block].data = "good"
  BY CurrentFine
<1>6. bad = 0 => r = Current
  BY <1>3, <1>5, WholeIsRight DEF NewIsWhole
<1>7. share # NoShare => r = share
  BY <1>5 DEF NewIsWhole
<1>8. r \in [Blocks -> Shared] /\ b \in Blocks
  <2>1. BareShare \in [Blocks -> Shared]
    BY NumbersAssumption DEF BareShare, Shared, Data
  <2> QED
    BY <1>2, <1>5, <2>1 DEF First, Askable
<1> HIDE DEF r
<1>9. share' \in [Blocks -> Shared] /\ \A c \in Blocks : share'[c].data = r[c].data
  <2> DEFINE x == [r[b] EXCEPT !.pending = Wrapped(r[b].pending + 1)]
  <2>1. r[b] \in Shared
    BY <1>8
  <2>2. r[b].pending \in Int
    BY <2>1 DEF Shared
  <2>3. Wrapped(r[b].pending + 1) \in 0 .. MaxPending
    BY <2>2, WrappedType
  <2>4. x \in Shared /\ x.data = r[b].data
    BY <2>1, <2>3 DEF Shared
  <2>5. share' = [r EXCEPT ![b] = x]
    BY <1>2
  <2> HIDE DEF x
  <2> QED
    BY <1>8, <2>4, <2>5
<1>10. /\ Ask(p, S) /\ S \in SUBSET Blocks /\ (\A c \in S : ~mine[p][c].pending)
       /\ count[p] + Cardinality(S) <= Window
       /\ checked'[p] => count[p] + Cardinality(S) < Window
  <2>1. checked'[p] = (~mine[p][b].pending /\ count[p] + 1 < Window /\ ~stored)
    BY <1>1, <1>2 DEF TypeOK
  <2>2. CASE mine[p][b].pending
    BY <1>1, <1>2, <1>4, <2>1, <2>2, NextFits
  <2>3. CASE ~mine[p][b].pending
    <3>1. S = {b} /\ Cardinality(S) = 1
      BY <2>3, FS_Singleton
    <3>2. count[p] \in Nat /\ Window \in Nat
      BY <1>1, CountNat, NumbersAssumption
    <3>3. Ask(p, S)
      BY <1>2
    <3>4. checked'[p] => count[p] + 1 < Window
      BY <2>1
    <3> HIDE DEF S
    <3> QED
      BY <1>4, <1>8, <2>3, <3>1, <3>2, <3>3, <3>4
  <2> QED
    BY <2>2, <2>3
<1> HIDE DEF S
<1>11. /\ mine' \in [Peers -> [Blocks -> Mine]] /\ count' \in [Peers -> Int]
       /\ asked' \in [Peers -> [Blocks -> Nat]]
       /\ \A q \in Peers \ {p} : mine'[q] = mine[q] /\ count'[q] = count[q] /\ asked'[q] = asked[q]
       /\ \A c \in Blocks : /\ mine'[p][c].data = mine[p][c].data
                            /\ (mine'[p][c].pending <=> mine[p][c].pending \/ c \in S)
                            /\ asked'[p][c] = IF c \in S THEN asked[p][c] + 1 ELSE asked[p][c]
       /\ count'[p] = count[p] + Cardinality(S)
       /\ Counted(p)'
  BY <1>1, <1>10, Asking
<1>12. TypeOK'
  <2>1. checked' \in [Peers -> BOOLEAN]
    BY <1>1, <1>2 DEF TypeOK
  <2>2. orphans' \in Seq(Orphans) /\ fails' \in Nat
    BY <1>1, <1>3 DEF TypeOK
  <2> QED
    BY <1>1, <1>3, <1>9, <1>11, <2>1, <2>2 DEF TypeOK
<1>13. share' # NoShare
  BY <1>9, IsShare
<1>14. Forward
  BY <1>3, <1>7, <1>9, <1>13 DEF Forward
<1>15. ASSUME NEW q \in Peers \ {p} PROVE Same(q)
  <2>1. checked'[q] = checked[q]
    BY <1>1, <1>2 DEF TypeOK
  <2> QED
    BY <1>3, <1>11, <2>1 DEF Same
<1>16. Fine(p)'
  <2>1. Known(p)'
    BY <1>1, <1>3, <1>4, <1>10, <1>11, <1>13, <1>14, AskedKnownOnce
  <2> QED
    BY <1>3, <1>4, <1>10, <1>11, <1>12, <1>13, <1>14, <2>1, SameData
<1>17. Shelf'
  <2>1. SUFFICES ASSUME bad = 0 PROVE Sound(share') /\ AllGood'
    BY <1>3 DEF Shelf
  <2>2. Sound(share')
    BY <1>5, <1>6, <1>9, <2>1 DEF Sound
  <2>3. AllGood'
    BY <1>3, <2>1 DEF Inv, Shelf, AllGood
  <2> QED
    BY <2>2, <2>3
<1>18. ASSUME ~stored', bad' = 0, NEW c \in Blocks
       PROVE /\ c \in arrived' => c \in arrived
             /\ mine[p][c].data = "good" => Holds(c)'
             /\ (\E k \in DOMAIN orphans : orphans[k].block = c) => Holds(c)'
  <2>1. mine[p][c].data = "good" => Holds(c)'
    BY <1>11 DEF Holds
  <2>2. ASSUME NEW k \in DOMAIN orphans, orphans[k].block = c PROVE Holds(c)'
    <3>1. CASE share = NoShare
      <4>1. share'[c].data = "good"
        BY <1>3, <1>5, <1>6, <1>9, <1>18, <2>2, <3>1
      <4> QED
        BY <1>13, <4>1 DEF Holds
    <3>2. CASE share # NoShare
      BY <1>3, <2>2, <3>2 DEF Holds
    <3> QED
      BY <3>1, <3>2
  <2> QED
    BY <1>3, <2>1, <2>2
<1> QED
  BY <1>12, <1>14, <1>15, <1>16, <1>17, <1>18, Step

\* The orphans were the piece.
LEMMA ShareFromOrphansStep ==
  ASSUME Inv, NEW p \in Peers, ShareFromOrphans(p)
  PROVE Inv'
<1>1. TypeOK /\ Fine(p)
  BY DEF Inv
<1>2. /\ UNCHANGED <<share, fails, links, trouble, bad, arrived, late, mixed, liars, blamed>>
      /\ stored' = TRUE /\ orphans' = <<>> /\ checked' = [checked EXCEPT ![p] = FALSE]
  BY DEF ShareFromOrphans, history, Write
<1>3. Forward
  BY <1>2 DEF Forward
<1>4. Shelf'
  BY <1>2 DEF Inv, Shelf, AllGood, Sound
<1>5. CASE count[p] = 0
  <2>1. /\ open' = [open EXCEPT ![p] = FALSE] /\ choked' = [choked EXCEPT ![p] = TRUE]
        /\ asked' = [asked EXCEPT ![p] = NoneAsked]
        /\ task' = [task EXCEPT ![p] = "none"] /\ mine' = [mine EXCEPT ![p] = NewMine]
        /\ count' = [count EXCEPT ![p] = 0] /\ allowed' = [allowed EXCEPT ![p] = FALSE]
        /\ holders' = IF holders > 0 THEN holders - 1 ELSE 0
    BY <1>5 DEF ShareFromOrphans, Shut, CancelMyRequest, AbandonPieceTask, Reset
  <2>2. TypeOK'
    <3>1. orphans' \in Seq(Orphans) /\ holders' \in Nat
      BY <1>1, <1>2, <2>1 DEF TypeOK
    <3> QED
      BY <1>1, <1>2, <2>1, <3>1, NewMineType DEF TypeOK
  <2>3. ASSUME NEW q \in Peers \ {p} PROVE Same(q)
    BY <1>1, <1>2, <2>1 DEF Same, TypeOK
  <2>4. Fine(p)'
    <3>1. task'[p] = "none" /\ mine'[p] = NewMine /\ count'[p] = 0 /\ ~checked'[p] /\ asked'[p] = NoneAsked
      BY <1>1, <1>2, <2>1 DEF TypeOK
    <3> QED
      BY <2>2, <3>1, Ended
  <2> QED
    BY <1>2, <1>3, <1>4, <2>2, <2>3, <2>4, Step
<1>6. CASE count[p] # 0
  <2>1. UNCHANGED <<open, choked, asked, holders, task, allowed, mine, count>>
    BY <1>6 DEF ShareFromOrphans
  <2>2. TypeOK'
    BY <1>1, <1>2, <2>1 DEF TypeOK
  <2>3. ASSUME NEW q \in Peers PROVE Same(q)
    BY <1>1, <1>2, <2>1 DEF Same, TypeOK
  <2>4. Fine(p)'
    BY <1>1, <1>3, <2>2, <2>3, Unmoved
  <2> QED
    BY <1>2, <1>3, <1>4, <2>2, <2>3, <2>4, Step
<1> QED
  BY <1>5, <1>6

\* What the orphans hold is not asked for again, and none of it is lost.
LEMMA TakeTaskStep ==
  ASSUME Inv, NEW p \in Peers, TakeTask(p)
  PROVE Inv'
<1>1. TypeOK /\ Fine(p)
  BY DEF Inv
<1>2. /\ UNCHANGED <<share, fails, open, links, choked, count, checked, asked,
                     trouble, bad, arrived, late, liars, blamed>>
      /\ open[p] /\ ~checked[p] /\ task[p] = "none" /\ ~stored
  BY DEF TakeTask, Idle
<1>3. mine[p] = NewMine /\ count[p] = 0 /\ count'[p] = 0 /\ count'[p] = Cardinality(Pending(NewMine))
  BY <1>1, <1>2, NewPending DEF Fine, InTask
<1>5. bad = 0 => \A b \in Blocks : ~(asked[p][b] > 0)
  BY <1>1, <1>2 DEF Fine, Known
<1>6. Window \in Nat
  BY NumbersAssumption
<1>7. CASE /\ task' = [task EXCEPT ![p] = "coop"] /\ holders' = holders + 1
           /\ allowed' = [allowed EXCEPT ![p] = choked[p]] /\ mixed' = mixed \ {p}
           /\ UNCHANGED <<stored, orphans, mine>>
  <2>1. TypeOK'
    BY <1>1, <1>2, <1>7 DEF TypeOK
  <2>2. Forward
    BY <1>2, <1>7 DEF Forward
  <2>3. ASSUME NEW q \in Peers \ {p} PROVE Same(q)
    BY <1>1, <1>2, <1>7 DEF Same, TypeOK
  <2>4. Fine(p)'
    <3>1. task'[p] = "coop"
      BY <1>1, <1>7 DEF TypeOK
    <3>2. Counted(p)' /\ InTask(p)'
      BY <1>1, <1>2, <1>3, <1>6, <1>7, <3>1 DEF Fine, Counted, InTask
    <3>3. Known(p)'
      <4>1. \A b \in Blocks : asked[p][b] \in Nat
        BY <1>1 DEF TypeOK
      <4>2. bad = 0 => \A b \in Blocks : asked'[p][b] = 0
        BY <1>2, <1>5, <4>1
      <4> QED
        BY <1>2, <4>2 DEF Known
    <3>4. Clean(p)' /\ Given(p)'
      <4>1. \A b \in Blocks : NewMine[b].data = IF b \in Virtual THEN "good" ELSE "none"
        BY DEF NewMine
      <4> QED
        BY <1>3, <1>7, <4>1 DEF Clean, Given, Sound
    <3> QED
      BY <3>2, <3>3, <3>4 DEF Fine
  <2>5. Shelf'
    BY <1>2, <1>7 DEF Inv, Shelf, AllGood, Sound
  <2>6. ASSUME ~stored', bad' = 0, NEW b \in Blocks
        PROVE /\ b \in arrived' => b \in arrived
              /\ mine[p][b].data = "good" => Holds(b)'
              /\ (\E k \in DOMAIN orphans : orphans[k].block = b) => Holds(b)'
    BY <1>2, <1>7 DEF Holds
  <2> QED
    BY <2>1, <2>2, <2>3, <2>4, <2>5, <2>6, Step
<1> DEFINE r == OwnOrphans[Len(orphans)]
<1>8. /\ r \in [Blocks -> Mine] /\ Pending(r) = {}
      /\ orphans = <<>> => r = NewMine
      /\ AllGood => Sound(r) /\ \A k \in DOMAIN orphans : r[orphans[k].block].data = "good"
  <2>1. orphans \in Seq(Orphans)
    BY <1>1 DEF TypeOK
  <2> QED
    BY <2>1, OwnFilled
<1>9. CASE holders' = 1 /\ IsFinish(r) /\ HashOK(r) /\ Write /\ UNCHANGED <<task, allowed, mine, mixed>>
  <2> HIDE DEF r
  <2>1. stored' = TRUE /\ orphans' = <<>> /\ orphans' \in Seq(Orphans)
    BY <1>9 DEF Write
  <2>2. TypeOK'
    BY <1>1, <1>2, <1>9, <2>1 DEF TypeOK
  <2>3. Forward
    BY <1>2, <2>1 DEF Forward
  <2>4. ASSUME NEW q \in Peers PROVE Same(q)
    BY <1>2, <1>9 DEF Same
  <2>5. Fine(p)'
    BY <1>1, <2>2, <2>3, <2>4, Unmoved
  <2>6. Shelf'
    BY <1>2, <2>1 DEF Inv, Shelf, AllGood, Sound
  <2> QED
    BY <2>1, <2>2, <2>3, <2>4, <2>5, <2>6, Step
<1> DEFINE x == IF IsFinish(r) THEN ClearAlien(r, p) ELSE r
<1>10. CASE /\ holders' = 1 /\ ~(IsFinish(r) /\ HashOK(r)) /\ orphans' = <<>> /\ stored' = stored
            /\ task' = [task EXCEPT ![p] = "solo"] /\ allowed' = [allowed EXCEPT ![p] = choked[p]]
            /\ mine' = [mine EXCEPT ![p] = x]
            /\ mixed' = IF orphans = <<>> THEN mixed \ {p} ELSE mixed \cup {p}
  <2> HIDE DEF r
  <2>1. bad = 0 => x = r /\ Sound(r)
    <3>1. \A b \in Blocks : r[b].data \in Data
      BY <1>8 DEF Mine
    <3> QED
      BY <1>8, <1>10, <3>1, WholeIsRight DEF Inv, Shelf
  <2>2. /\ x \in [Blocks -> Mine] /\ Pending(x) = {}
        /\ \A b \in Blocks : r[b].data # "bad" => x[b].data # "bad"
    <3>1. \A b \in Blocks : r[b] \in Mine /\ ~r[b].pending
      BY <1>8 DEF Pending
    <3>2. ASSUME NEW b \in Blocks
          PROVE /\ ClearAlien(r, p)[b] \in Mine /\ ~ClearAlien(r, p)[b].pending
                /\ r[b].data # "bad" => ClearAlien(r, p)[b].data # "bad"
      <4>1. CASE r[b].source # p /\ r[b].data # "none"
        <5>1. ClearAlien(r, p)[b] = [r[b] EXCEPT !.data = "none", !.source = NoPeer]
          BY <4>1 DEF ClearAlien
        <5> QED
          BY <3>1, <5>1 DEF Mine, Data
      <4>2. CASE ~(r[b].source # p /\ r[b].data # "none")
        <5>1. ClearAlien(r, p)[b] = r[b]
          BY <4>2 DEF ClearAlien
        <5> QED
          BY <3>1, <5>1
      <4> QED
        BY <4>1, <4>2
    <3>3. ClearAlien(r, p) \in [Blocks -> Mine]
      <4>1. ClearAlien(r, p) = [b \in Blocks |-> ClearAlien(r, p)[b]]
        BY DEF ClearAlien
      <4> QED
        BY <3>2, <4>1
    <3> QED
      BY <1>8, <3>1, <3>2, <3>3 DEF Pending
  <2> HIDE DEF x
  <2>3. task'[p] = "solo" /\ mine'[p] = x
    BY <1>1, <1>10 DEF TypeOK
  <2>4. TypeOK'
    <3>1. orphans' \in Seq(Orphans) /\ mixed' \in SUBSET Peers
      BY <1>1, <1>10 DEF TypeOK
    <3> QED
      BY <1>1, <1>2, <1>10, <2>2, <3>1 DEF TypeOK
  <2>5. Forward
    BY <1>2, <1>10 DEF Forward
  <2>6. ASSUME NEW q \in Peers \ {p} PROVE Same(q)
    BY <1>1, <1>2, <1>10 DEF Same, TypeOK
  <2>7. Fine(p)'
    <3>1. Counted(p)'
      <4>1. Cardinality(Pending(x)) = 0
        BY <2>2, FS_EmptySet
      <4> QED
        BY <1>3, <1>6, <2>3, <4>1 DEF Counted
    <3>2. InTask(p)'
      BY <1>2, <2>3 DEF InTask
    <3>3. Known(p)'
      <4>1. \A b \in Blocks : asked[p][b] \in Nat
        BY <1>1 DEF TypeOK
      <4>2. bad = 0 => \A b \in Blocks : asked'[p][b] = 0
        BY <1>2, <1>5, <4>1
      <4> QED
        BY <1>2, <4>2 DEF Known
    <3>4. Clean(p)'
      <4>1. p \notin mixed' => \A b \in Blocks : x[b].data # "bad"
        <5>1. SUFFICES ASSUME p \notin mixed', NEW b \in Blocks PROVE r[b].data # "bad"
          BY <2>2
        <5>2. r = NewMine
          BY <1>8, <1>10, <5>1
        <5> QED
          BY <5>2 DEF NewMine
      <4> QED
        BY <1>2, <2>1, <2>3, <4>1 DEF Clean
    <3>5. Given(p)'
      BY <2>3 DEF Given
    <3> QED
      BY <3>1, <3>2, <3>3, <3>4, <3>5 DEF Fine
  <2>8. Shelf'
    BY <1>2, <1>10 DEF Inv, Shelf, AllGood, Sound
  <2>9. ASSUME ~stored', bad' = 0, NEW b \in Blocks
        PROVE /\ b \in arrived' => b \in arrived
              /\ mine[p][b].data = "good" => Holds(b)'
              /\ (\E k \in DOMAIN orphans : orphans[k].block = b) => Holds(b)'
    <3>1. x = r /\ Sound(r) /\ \A k \in DOMAIN orphans : r[orphans[k].block].data = "good"
      BY <1>2, <1>8, <2>1, <2>9 DEF Inv, Shelf
    <3>2. mine[p][b].data = "good" => mine'[p][b].data = "good"
      <4>1. mine[p][b].data = "good" => b \in Virtual
        BY <1>3 DEF NewMine
      <4> QED
        BY <2>3, <3>1, <4>1 DEF Sound
    <3> QED
      BY <1>2, <2>3, <3>1, <3>2 DEF Holds
  <2> QED
    BY <2>4, <2>5, <2>6, <2>7, <2>8, <2>9, Step
<1> QED
  BY <1>7, <1>9, <1>10 DEF TakeTask

-----------------------------------------------------------------------------
(* The blocks that come, and the rejects.                                    *)

\* A request is answered.
LEMMA OneAnswered ==
  ASSUME TypeOK, NEW p \in Peers, NEW b \in Blocks, Answered(p, b)
  PROVE /\ asked' \in [Peers -> [Blocks -> Nat]]
        /\ \A q \in Peers \ {p} : asked'[q] = asked[q]
        /\ \A c \in Blocks : asked'[p][c] <= asked[p][c]
        /\ asked[p][b] <= 1 => asked'[p][b] = 0
<1>1. asked \in [Peers -> [Blocks -> Nat]]
  BY DEF TypeOK
<1> DEFINE n == IF asked[p][b] > 0 THEN asked[p][b] - 1 ELSE 0
<1>2. asked[p][b] \in Nat /\ asked[p] \in [Blocks -> Nat]
  BY <1>1
<1>3. n \in Nat /\ n <= asked[p][b] /\ (asked[p][b] <= 1 => n = 0)
  BY <1>2
<1>4. asked' = [asked EXCEPT ![p] = [asked[p] EXCEPT ![b] = n]]
  BY DEF Answered
<1> HIDE DEF n
<1>5. asked'[p] = [asked[p] EXCEPT ![b] = n] /\ asked'[p] \in [Blocks -> Nat]
  BY <1>1, <1>2, <1>3, <1>4
<1>6. asked' \in [Peers -> [Blocks -> Nat]] /\ \A q \in Peers \ {p} : asked'[q] = asked[q]
  BY <1>1, <1>4, <1>5
<1>7. asked'[p][b] = n /\ \A c \in Blocks : c # b => asked'[p][c] = asked[p][c]
  BY <1>2, <1>5
<1>8. \A c \in Blocks : asked[p][c] \in Nat
  BY <1>2
<1>9. \A c \in Blocks : asked'[p][c] <= asked[p][c]
  BY <1>3, <1>7, <1>8
<1> QED
  BY <1>3, <1>6, <1>7, <1>9

\* And its block is no longer pending.
LEMMA OneLess ==
  ASSUME TypeOK, NEW p \in Peers, Counted(p), NEW b \in Blocks,
         \A c \in Blocks : mine'[p][c].pending <=> c # b /\ mine[p][c].pending,
         count' = [count EXCEPT ![p] = IF mine[p][b].pending THEN @ - 1 ELSE @]
  PROVE Counted(p)' /\ count' \in [Peers -> Int] /\ \A q \in Peers \ {p} : count'[q] = count[q]
<1>1. count \in [Peers -> Int] /\ count[p] \in Int
  BY DEF TypeOK
<1>2. count'[p] = (IF mine[p][b].pending THEN count[p] - 1 ELSE count[p])
  BY <1>1
<1>3. IsFiniteSet(Pending(mine[p]))
  <2>1. IsFiniteSet(Blocks)
    BY BlocksAssumption, FS_Interval DEF Blocks
  <2> QED
    BY <2>1, FS_Subset DEF Pending
<1>4. Pending(mine'[p]) = Pending(mine[p]) \ {b}
  BY DEF Pending
<1>5. Cardinality(Pending(mine[p]) \ {b}) =
        IF b \in Pending(mine[p]) THEN Cardinality(Pending(mine[p])) - 1 ELSE Cardinality(Pending(mine[p]))
  BY <1>3, FS_RemoveElement
<1>6. b \in Pending(mine[p]) <=> mine[p][b].pending
  BY DEF Pending
<1>7. Cardinality(Pending(mine'[p])) = count'[p]
  BY <1>2, <1>4, <1>5, <1>6 DEF Counted
<1>8. count'[p] <= count[p]
  BY <1>1, <1>2
<1>9. count' \in [Peers -> Int] /\ \A q \in Peers \ {p} : count'[q] = count[q]
  BY <1>1
<1>10. count'[p] <= Window
  BY <1>1, <1>2, NumbersAssumption DEF Counted
<1> QED
  BY <1>7, <1>9, <1>10 DEF Counted

LEMMA OneKnown ==
  ASSUME TypeOK, Forward, NEW p \in Peers, Fine(p), NEW b \in Blocks, Answered(p, b),
         task'[p] = task[p],
         \A c \in Blocks : mine'[p][c].pending <=> c # b /\ mine[p][c].pending
  PROVE Known(p)'
<1>1. SUFFICES ASSUME bad' = 0, NEW c \in Blocks
               PROVE /\ ~late' => asked'[p][c] <= 1
                     /\ asked'[p][c] > 0 =>
                          /\ late' \/ mine'[p][c].pending \/ (stored' /\ task'[p] = "none")
                          /\ stored' \/ task'[p] = "solo" \/ (task'[p] = "coop" /\ share' # NoShare)
  BY DEF Known
<1>2. /\ asked'[p][c] \in Nat /\ asked[p][c] \in Nat /\ asked'[p][c] <= asked[p][c]
      /\ asked[p][b] <= 1 => asked'[p][b] = 0
  <2>1. asked \in [Peers -> [Blocks -> Nat]] /\ asked' \in [Peers -> [Blocks -> Nat]]
    BY OneAnswered DEF TypeOK
  <2> QED
    BY <2>1, OneAnswered
<1>3. /\ ~late => asked[p][c] <= 1 /\ asked[p][b] <= 1
      /\ asked[p][c] > 0 =>
           /\ late \/ mine[p][c].pending \/ (stored /\ task[p] = "none")
           /\ stored \/ task[p] = "solo" \/ (task[p] = "coop" /\ share # NoShare)
  BY <1>1 DEF Fine, Known, Forward
<1>4. ~late' => asked'[p][c] <= 1 /\ (asked'[p][c] > 0 => c # b)
  BY <1>2, <1>3 DEF Forward
<1>5. asked'[p][c] > 0 => asked[p][c] > 0
  BY <1>2
<1>6. asked'[p][c] > 0 => stored' \/ task'[p] = "solo" \/ (task'[p] = "coop" /\ share' # NoShare)
  BY <1>3, <1>5 DEF Forward
<1>7. asked'[p][c] > 0 => late' \/ mine'[p][c].pending \/ (stored' /\ task'[p] = "none")
  BY <1>3, <1>4, <1>5 DEF Forward
<1> QED
  BY <1>4, <1>6, <1>7

LEMMA DoCmdRejectRequestStep ==
  ASSUME Inv, NEW p \in Peers, DoCmdRejectRequest(p)
  PROVE Inv'
<1>1. TypeOK /\ Fine(p) /\ Counted(p)
  BY DEF Inv, Fine
<1>2. PICK b \in Blocks :
        /\ Idle(p) /\ Trouble
        /\ IF task[p] # "none" /\ ~choked[p]
           THEN OnClose(p)
           ELSE /\ Answered(p, b)
                /\ IF task[p] = "none" THEN UNCHANGED <<mine, count>> ELSE Unask(p, b)
                /\ UNCHANGED <<storage, open, links, choked, task, allowed, checked>>
        /\ UNCHANGED <<bad, history>>
  BY DEF DoCmdRejectRequest
<1>3. trouble' \in 0 .. MaxTrouble /\ open[p] /\ ~checked[p]
  BY <1>1, <1>2, BoundsAssumption DEF Trouble, TypeOK, Idle
<1>4. CASE task[p] # "none" /\ ~choked[p]
  BY <1>2, <1>3, <1>4, Closing
<1>5. CASE ~(task[p] # "none" /\ ~choked[p])
  <2>1. /\ UNCHANGED <<stored, holders, orphans, share, fails, open, links, choked, task, allowed, checked,
                       bad, arrived, late, mixed, liars, blamed>>
        /\ Answered(p, b)
    BY <1>2, <1>5 DEF storage, history
  <2>2. Forward
    BY <2>1 DEF Forward
  <2>3. Shelf'
    BY <2>1 DEF Inv, Shelf, AllGood, Sound
  <2>4. /\ asked' \in [Peers -> [Blocks -> Nat]]
        /\ \A q \in Peers \ {p} : asked'[q] = asked[q]
        /\ \A c \in Blocks : asked'[p][c] <= asked[p][c]
    BY <1>1, <2>1, OneAnswered
  <2>5. CASE task[p] = "none"
    <3>1. UNCHANGED <<mine, count>>
      BY <1>2, <1>5, <2>5
    <3>2. TypeOK'
      BY <1>1, <1>3, <2>1, <2>4, <3>1 DEF TypeOK
    <3>3. ASSUME NEW q \in Peers PROVE Same(q)
      BY <1>3, <2>1, <2>4, <3>1 DEF Same
    <3>4. Fine(p)'
      BY <1>1, <2>2, <3>2, <3>3, Unmoved
    <3>5. ASSUME ~stored', bad' = 0, NEW c \in Blocks
          PROVE /\ c \in arrived' => c \in arrived
                /\ mine[p][c].data = "good" => Holds(c)'
                /\ (\E k \in DOMAIN orphans : orphans[k].block = c) => Holds(c)'
      BY <2>1, <3>1 DEF Holds
    <3> QED
      BY <2>2, <2>3, <3>2, <3>3, <3>4, <3>5, Step
  <2>6. CASE task[p] # "none"
    <3> DEFINE x == [mine[p] EXCEPT ![b] = [mine[p][b] EXCEPT !.pending = FALSE]]
    <3>1. /\ mine' = [mine EXCEPT ![p] = x]
          /\ count' = [count EXCEPT ![p] = IF mine[p][b].pending THEN @ - 1 ELSE @]
      BY <1>2, <1>5, <2>6 DEF Unask
    <3>2. mine \in [Peers -> [Blocks -> Mine]] /\ mine[p] \in [Blocks -> Mine] /\ mine[p][b] \in Mine
      BY <1>1 DEF TypeOK
    <3> DEFINE y == [mine[p][b] EXCEPT !.pending = FALSE]
    <3>3. y \in Mine /\ y.data = mine[p][b].data /\ ~y.pending
      BY <3>2 DEF Mine
    <3>4. mine[p][b] = NewMine[b] => y = NewMine[b]
      <4>1. NewMine[b] = [data |-> NewMine[b].data, pending |-> FALSE, source |-> NewMine[b].source]
        BY DEF NewMine
      <4>2. NewMine[b] \in Mine
        BY NewMineType
      <4>3. y.source = mine[p][b].source
        BY <3>2 DEF Mine
      <4> HIDE DEF y
      <4> QED
        BY <3>3, <4>1, <4>2, <4>3 DEF Mine
    <3>5. x = [mine[p] EXCEPT ![b] = y]
      OBVIOUS
    <3> HIDE DEF x, y
    <3>6. /\ x \in [Blocks -> Mine] /\ x[b] = y
          /\ \A c \in Blocks : c # b => x[c] = mine[p][c]
      BY <3>2, <3>3, <3>5
    <3>7. mine[p] = NewMine => x = NewMine
      BY <3>4, <3>6, NewMineType
    <3>8. /\ mine' \in [Peers -> [Blocks -> Mine]] /\ mine'[p] = x
          /\ \A q \in Peers \ {p} : mine'[q] = mine[q]
      BY <3>1, <3>2, <3>6
    <3>9. \A c \in Blocks : /\ mine'[p][c].data = mine[p][c].data
                            /\ (mine'[p][c].pending <=> c # b /\ mine[p][c].pending)
      BY <3>3, <3>6, <3>8
    <3>10. Counted(p)' /\ count' \in [Peers -> Int] /\ \A q \in Peers \ {p} : count'[q] = count[q]
      BY <1>1, <3>1, <3>9, OneLess
    <3>11. Known(p)'
      BY <1>1, <2>1, <2>2, <3>9, OneKnown
    <3>12. TypeOK'
      BY <1>1, <1>3, <2>1, <2>4, <3>8, <3>10 DEF TypeOK
    <3>13. ASSUME NEW q \in Peers \ {p} PROVE Same(q)
      BY <2>1, <2>4, <3>8, <3>10 DEF Same
    <3>14. Fine(p)'
      <4>1. task[p] = "coop" /\ share' = NoShare /\ ~stored' => mine'[p] = NewMine
        BY <1>1, <2>1, <3>7, <3>8 DEF Fine, InTask
      <4> QED
        BY <1>3, <2>1, <2>2, <2>6, <3>9, <3>10, <3>11, <3>12, <4>1, SameData
    <3>15. ASSUME ~stored', bad' = 0, NEW c \in Blocks
           PROVE /\ c \in arrived' => c \in arrived
                 /\ mine[p][c].data = "good" => Holds(c)'
                 /\ (\E k \in DOMAIN orphans : orphans[k].block = c) => Holds(c)'
      BY <2>1, <3>9 DEF Holds
    <3> QED
      BY <2>2, <2>3, <3>12, <3>13, <3>14, <3>15, Step
  <2> QED
    BY <2>5, <2>6
<1> QED
  BY <1>4, <1>5

\* What a block that comes in changes whatever is done with it.
LEMMA ComesIn ==
  ASSUME TypeOK, NEW p \in Peers, NEW b \in Blocks, NEW d \in {"good", "bad"}, Arrives(p, b, d)
  PROVE /\ open[p] /\ ~checked[p]
        /\ UNCHANGED <<links, checked, late, mixed, trouble>>
        /\ bad' \in 0 .. MaxBad /\ arrived' \subseteq Blocks /\ liars' \subseteq Peers
        /\ bad' = 0 => bad = 0 /\ d = "good" /\ asked[p][b] > 0
        /\ arrived' \subseteq arrived \cup {b}
        /\ liars \subseteq liars' /\ (d = "bad" => p \in liars')
<1>1. bad \in 0 .. MaxBad /\ arrived \subseteq Blocks /\ liars \subseteq Peers /\ MaxBad \in Nat
  BY BoundsAssumption DEF TypeOK
<1>2. bad' \in 0 .. MaxBad /\ (bad' = 0 => bad = 0 /\ d = "good" /\ asked[p][b] > 0)
  BY <1>1 DEF Arrives
<1>3. /\ arrived' \subseteq Blocks /\ liars' \subseteq Peers /\ arrived' \subseteq arrived \cup {b}
      /\ liars \subseteq liars' /\ (d = "bad" => p \in liars')
  BY <1>1 DEF Arrives
<1> QED
  BY <1>2, <1>3 DEF Arrives, Idle

LEMMA PieceFinishedStep ==
  ASSUME Inv, NEW p \in Peers, NEW b \in Blocks, NEW d \in {"good", "bad"}, Arrives(p, b, d),
         PieceFinished(p, b)
  PROVE Inv'
<1>1. TypeOK /\ Fine(p)
  BY DEF Inv
<1>2. /\ open[p] /\ UNCHANGED <<links, checked, late, mixed, trouble>>
      /\ bad' \in 0 .. MaxBad /\ arrived' \subseteq Blocks /\ liars' \subseteq Peers
      /\ bad' = 0 => bad = 0
      /\ liars \subseteq liars'
  BY <1>1, ComesIn
<1>3. /\ UNCHANGED <<stored, holders, orphans, share, fails, open, choked, task, allowed, mine, count, blamed>>
      /\ stored /\ Answered(p, b)
  BY DEF PieceFinished, storage
<1>4. /\ asked' \in [Peers -> [Blocks -> Nat]]
      /\ \A q \in Peers \ {p} : asked'[q] = asked[q]
      /\ \A c \in Blocks : asked'[p][c] <= asked[p][c]
  BY <1>1, <1>3, OneAnswered
<1>5. TypeOK'
  BY <1>1, <1>2, <1>3, <1>4 DEF TypeOK
<1>6. Forward
  BY <1>2, <1>3 DEF Forward
<1>7. ASSUME NEW q \in Peers PROVE Same(q)
  BY <1>2, <1>3, <1>4 DEF Same
<1>8. Fine(p)'
  BY <1>1, <1>5, <1>6, <1>7, Unmoved
<1>9. Shelf'
  BY <1>2, <1>3 DEF Inv, Shelf, AllGood, Sound
<1> QED
  BY <1>3, <1>5, <1>6, <1>7, <1>8, <1>9, Step

LEMMA CheckInOrphanDataStep ==
  ASSUME Inv, NEW p \in Peers, NEW b \in Blocks, NEW d \in {"good", "bad"}, Arrives(p, b, d),
         CheckInOrphanData(p, b, d)
  PROVE Inv'
<1>1. TypeOK /\ Fine(p) /\ orphans \in Seq(Orphans)
  BY DEF Inv, TypeOK
<1>2. /\ open[p] /\ UNCHANGED <<links, checked, late, mixed, trouble>>
      /\ bad' \in 0 .. MaxBad /\ arrived' \subseteq Blocks /\ liars' \subseteq Peers
      /\ bad' = 0 => bad = 0 /\ d = "good"
      /\ arrived' \subseteq arrived \cup {b}
      /\ liars \subseteq liars'
  BY <1>1, ComesIn
<1> DEFINE o == [block |-> b, data |-> d, source |-> p]
<1>3. /\ UNCHANGED <<stored, holders, share, fails, open, choked, task, allowed, mine, count, blamed>>
      /\ orphans' = Append(orphans, o) /\ Answered(p, b)
  BY DEF CheckInOrphanData
<1>4. /\ asked' \in [Peers -> [Blocks -> Nat]]
      /\ \A q \in Peers \ {p} : asked'[q] = asked[q]
      /\ \A c \in Blocks : asked'[p][c] <= asked[p][c]
  BY <1>1, <1>3, OneAnswered
<1>5. o \in Orphans /\ o.block = b /\ o.data = d
  BY DEF Orphans, Data
<1> HIDE DEF o
<1>6. /\ orphans' \in Seq(Orphans)
      /\ \A k \in DOMAIN orphans : k \in DOMAIN orphans' /\ orphans'[k] = orphans[k]
      /\ Len(orphans) + 1 \in DOMAIN orphans' /\ orphans'[Len(orphans) + 1] = o
      /\ \A k \in DOMAIN orphans' : orphans'[k] = o \/ \E j \in DOMAIN orphans : orphans'[k] = orphans[j]
  <2>1. /\ orphans' \in Seq(Orphans) /\ Len(orphans') = Len(orphans) + 1 /\ Len(orphans) \in Nat
        /\ DOMAIN orphans = 1 .. Len(orphans) /\ DOMAIN orphans' = 1 .. Len(orphans')
    BY <1>1, <1>3, <1>5
  <2>2. (\A k \in 1 .. Len(orphans) : orphans'[k] = orphans[k]) /\ orphans'[Len(orphans) + 1] = o
    BY <1>1, <1>3, <1>5
  <2>3. \A k \in 1 .. Len(orphans) + 1 : k \in 1 .. Len(orphans) \/ k = Len(orphans) + 1
    BY <2>1
  <2> QED
    BY <2>1, <2>2, <2>3
<1>7. TypeOK'
  BY <1>1, <1>2, <1>3, <1>4, <1>6 DEF TypeOK
<1>8. Forward
  BY <1>2, <1>3 DEF Forward
<1>9. ASSUME NEW q \in Peers PROVE Same(q)
  BY <1>2, <1>3, <1>4 DEF Same
<1>10. Fine(p)'
  BY <1>1, <1>7, <1>8, <1>9, Unmoved
<1>11. Shelf'
  <2>1. SUFFICES ASSUME bad' = 0 PROVE (share # NoShare => Sound(share)) /\ AllGood'
    BY <1>3 DEF Shelf, Sound
  <2>2. (share # NoShare => Sound(share)) /\ AllGood /\ d = "good"
    BY <1>2, <2>1 DEF Inv, Shelf
  <2> QED
    BY <1>5, <1>6, <2>2 DEF AllGood
<1>12. ASSUME ~stored', bad' = 0, NEW c \in Blocks
       PROVE /\ c \in arrived' => c \in arrived \/ Holds(c)'
             /\ mine[p][c].data = "good" => Holds(c)'
             /\ (\E k \in DOMAIN orphans : orphans[k].block = c) => Holds(c)'
  <2>1. c \in arrived' => c \in arrived \/ Holds(c)'
    BY <1>2, <1>5, <1>6 DEF Holds
  <2>2. mine[p][c].data = "good" => Holds(c)'
    BY <1>3 DEF Holds
  <2>3. (\E k \in DOMAIN orphans : orphans[k].block = c) => Holds(c)'
    BY <1>6 DEF Holds
  <2> QED
    BY <2>1, <2>2, <2>3
<1> QED
  BY <1>7, <1>8, <1>9, <1>10, <1>11, <1>12, Step

\* The piece is not asked for from a peer that has nothing to be asked for.
LEMMA PieceUnsharedStep ==
  ASSUME Inv, NEW p \in Peers, NEW b \in Blocks, NEW d \in {"good", "bad"}, Arrives(p, b, d),
         PieceUnshared(p, b)
  PROVE Inv'
<1>1. TypeOK /\ Fine(p)
  BY DEF Inv
<1>2. /\ open[p] /\ ~checked[p] /\ UNCHANGED <<links, checked, late, mixed, trouble>>
      /\ bad' \in 0 .. MaxBad /\ arrived' \subseteq Blocks /\ liars' \subseteq Peers
      /\ bad' = 0 => bad = 0 /\ asked[p][b] > 0
      /\ liars \subseteq liars'
  BY <1>1, ComesIn
<1>3. /\ UNCHANGED <<stored, orphans, share, fails, open, choked, blamed>>
      /\ task' = [task EXCEPT ![p] = "none"] /\ mine' = [mine EXCEPT ![p] = NewMine]
      /\ count' = [count EXCEPT ![p] = 0] /\ allowed' = [allowed EXCEPT ![p] = FALSE]
      /\ holders' = IF holders > 0 THEN holders - 1 ELSE 0
      /\ Answered(p, b)
      /\ ~stored /\ task[p] = "coop" /\ share = NoShare
  BY DEF PieceUnshared, CancelMyRequest, AbandonPieceTask, Reset
<1>4. bad' # 0
  BY <1>1, <1>2, <1>3 DEF Fine, Known
<1>5. /\ asked' \in [Peers -> [Blocks -> Nat]]
      /\ \A q \in Peers \ {p} : asked'[q] = asked[q]
  BY <1>1, <1>3, OneAnswered
<1>6. TypeOK'
  <2>1. holders' \in Nat
    BY <1>1, <1>3 DEF TypeOK
  <2>2. /\ mine' \in [Peers -> [Blocks -> Mine]] /\ task' \in [Peers -> {"none", "solo", "coop"}]
        /\ count' \in [Peers -> Int] /\ allowed' \in [Peers -> BOOLEAN]
    BY <1>1, <1>3, NewMineType DEF TypeOK
  <2> QED
    BY <1>1, <1>2, <1>3, <1>5, <2>1, <2>2 DEF TypeOK
<1>7. Forward
  BY <1>2, <1>3 DEF Forward
<1>8. ASSUME NEW q \in Peers \ {p} PROVE Same(q)
  BY <1>1, <1>2, <1>3, <1>5 DEF Same, TypeOK
<1>9. Fine(p)'
  <2>1. task'[p] = "none" /\ mine'[p] = NewMine /\ count'[p] = 0
    BY <1>1, <1>3 DEF TypeOK
  <2>2. Counted(p)'
    BY <2>1, NewPending, NumbersAssumption DEF Counted
  <2>3. InTask(p)'
    BY <1>2, <1>3, <2>1 DEF InTask
  <2>4. Clean(p)'
    <3>1. \A c \in Blocks : mine'[p][c].data # "bad"
      BY <2>1 DEF NewMine
    <3> QED
      BY <1>4, <3>1 DEF Clean
  <2> QED
    BY <1>4, <2>2, <2>3, <2>4 DEF Fine, Known, Given
<1>10. Shelf'
  BY <1>4 DEF Shelf
<1> QED
  BY <1>4, <1>6, <1>7, <1>8, <1>9, <1>10, Step

\* The piece is complete.
LEMMA Completing ==
  ASSUME Inv, NEW p \in Peers, NEW b \in Blocks, NEW d \in {"good", "bad"}, Arrives(p, b, d),
         Complete(p, b), share' \in [Blocks -> Shared] \cup {NoShare}, fails' \in Nat,
         bad' = 0 /\ share' # NoShare => Sound(share')
  PROVE Inv'
<1>1. TypeOK /\ Fine(p)
  BY DEF Inv
<1>2. /\ open[p] /\ ~checked[p] /\ UNCHANGED <<links, checked, late, mixed, trouble>>
      /\ bad' \in 0 .. MaxBad /\ arrived' \subseteq Blocks /\ liars' \subseteq Peers
      /\ bad' = 0 => bad = 0
      /\ liars \subseteq liars'
  BY <1>1, ComesIn
<1>3. /\ UNCHANGED <<open, choked, blamed>> /\ stored' = TRUE /\ orphans' = <<>>
      /\ task' = [task EXCEPT ![p] = "none"] /\ mine' = [mine EXCEPT ![p] = NewMine]
      /\ count' = [count EXCEPT ![p] = 0] /\ allowed' = [allowed EXCEPT ![p] = FALSE]
      /\ holders' = IF holders > 0 THEN holders - 1 ELSE 0
      /\ Answered(p, b)
  BY DEF Complete, Write, CancelMyRequest, AbandonPieceTask, Reset
<1>4. /\ asked' \in [Peers -> [Blocks -> Nat]]
      /\ \A q \in Peers \ {p} : asked'[q] = asked[q]
      /\ \A c \in Blocks : asked'[p][c] <= asked[p][c]
  BY <1>1, <1>3, OneAnswered
<1>5. TypeOK'
  <2>1. holders' \in Nat /\ orphans' \in Seq(Orphans)
    BY <1>1, <1>3 DEF TypeOK
  <2>2. /\ mine' \in [Peers -> [Blocks -> Mine]] /\ task' \in [Peers -> {"none", "solo", "coop"}]
        /\ count' \in [Peers -> Int] /\ allowed' \in [Peers -> BOOLEAN]
    BY <1>1, <1>3, NewMineType DEF TypeOK
  <2> QED
    BY <1>1, <1>2, <1>3, <1>4, <2>1, <2>2 DEF TypeOK
<1>6. Forward
  BY <1>2, <1>3 DEF Forward
<1>7. ASSUME NEW q \in Peers \ {p} PROVE Same(q)
  BY <1>1, <1>2, <1>3, <1>4 DEF Same, TypeOK
<1>8. Fine(p)'
  <2>1. task'[p] = "none" /\ mine'[p] = NewMine /\ count'[p] = 0 /\ ~checked'[p] /\ open'[p]
    BY <1>1, <1>2, <1>3 DEF TypeOK
  <2>2. ASSUME bad' = 0, ~late', NEW c \in Blocks PROVE asked'[p][c] <= 1
    <3>1. asked[p][c] <= 1 /\ asked'[p][c] <= asked[p][c]
      BY <1>1, <1>2, <1>4, <2>2 DEF Fine, Known
    <3>2. asked[p][c] \in Nat /\ asked'[p][c] \in Nat
      <4>1. asked \in [Peers -> [Blocks -> Nat]]
        BY <1>1 DEF TypeOK
      <4> QED
        BY <1>4, <4>1
    <3> QED
      BY <3>1, <3>2
  <2> QED
    BY <1>3, <1>5, <2>1, <2>2, Ended
<1>9. Shelf'
  BY <1>3 DEF Shelf, AllGood
<1> QED
  BY <1>3, <1>5, <1>6, <1>7, <1>8, <1>9, Step

\* The share request has what it had, and what the peer brings, unless it is done.
Grows(p, b) ==
  /\ share' \in [Blocks -> Shared] \cup {NoShare} /\ fails' \in Nat
  /\ share # NoShare \/ task[p] = "coop" => share' # NoShare
  /\ bad' = 0 /\ share' # NoShare => Sound(share')
  /\ bad' = 0 /\ share # NoShare =>
       \A c \in Blocks : share[c].data = "good" => share'[c].data = "good"
  /\ bad' = 0 /\ task[p] = "coop" => share'[b].data = "good"

\* The task goes on with x, in which the block is.
GoesOn(p, b, d, x) ==
  /\ ~stored /\ task[p] # "none" /\ Answered(p, b)
  /\ UNCHANGED <<stored, orphans, open, choked, holders, task, allowed, blamed>>
  /\ count' = [count EXCEPT ![p] = IF mine[p][b].pending THEN @ - 1 ELSE @]
  /\ mine' = [mine EXCEPT ![p] = x]
  /\ \A c \in Blocks : x[c].pending <=> c # b /\ mine[p][c].pending
  /\ bad' = 0 => \A c \in Blocks : x[c].data = IF c = b THEN "good" ELSE mine[p][c].data
  /\ d # "bad" /\ (\A c \in Blocks : mine[p][c].data # "bad") => \A c \in Blocks : x[c].data # "bad"

LEMMA Keeping ==
  ASSUME Inv, NEW p \in Peers, NEW b \in Blocks, NEW d \in {"good", "bad"}, Arrives(p, b, d),
         Grows(p, b), NEW x \in [Blocks -> Mine], GoesOn(p, b, d, x)
  PROVE Inv'
<1>0. /\ ~stored /\ task[p] # "none" /\ Answered(p, b)
      /\ UNCHANGED <<stored, orphans, open, choked, holders, task, allowed, blamed>>
      /\ count' = [count EXCEPT ![p] = IF mine[p][b].pending THEN @ - 1 ELSE @]
      /\ mine' = [mine EXCEPT ![p] = x]
      /\ \A c \in Blocks : x[c].pending <=> c # b /\ mine[p][c].pending
      /\ bad' = 0 => \A c \in Blocks : x[c].data = IF c = b THEN "good" ELSE mine[p][c].data
      /\ d # "bad" /\ (\A c \in Blocks : mine[p][c].data # "bad") => \A c \in Blocks : x[c].data # "bad"
  BY DEF GoesOn
<1>1. TypeOK /\ Fine(p) /\ Counted(p)
  BY DEF Inv, Fine
<1>2. /\ open[p] /\ ~checked[p] /\ UNCHANGED <<links, checked, late, mixed, trouble>>
      /\ bad' \in 0 .. MaxBad /\ arrived' \subseteq Blocks /\ liars' \subseteq Peers
      /\ bad' = 0 => bad = 0
      /\ arrived' \subseteq arrived \cup {b}
      /\ liars \subseteq liars' /\ (d = "bad" => p \in liars')
  BY <1>0, <1>1, ComesIn
<1>3. /\ asked' \in [Peers -> [Blocks -> Nat]]
      /\ \A q \in Peers \ {p} : asked'[q] = asked[q]
  BY <1>0, <1>1, OneAnswered
<1>4. /\ mine' \in [Peers -> [Blocks -> Mine]] /\ mine'[p] = x
      /\ \A q \in Peers \ {p} : mine'[q] = mine[q]
  BY <1>0, <1>1 DEF TypeOK
<1>5. \A c \in Blocks : mine'[p][c].pending <=> c # b /\ mine[p][c].pending
  BY <1>0, <1>4
<1>6. Counted(p)' /\ count' \in [Peers -> Int] /\ \A q \in Peers \ {p} : count'[q] = count[q]
  BY <1>0, <1>1, <1>5, OneLess
<1>7. TypeOK'
  BY <1>0, <1>1, <1>2, <1>3, <1>4, <1>6 DEF TypeOK, Grows
<1>8. Forward
  BY <1>0, <1>2 DEF Forward, Grows
<1>9. ASSUME NEW q \in Peers \ {p} PROVE Same(q)
  BY <1>0, <1>2, <1>3, <1>4, <1>6 DEF Same
<1>10. Fine(p)'
  <2>1. Known(p)'
    BY <1>0, <1>1, <1>5, <1>8, OneKnown
  <2>2. InTask(p)'
    BY <1>0, <1>2 DEF InTask, Grows
  <2>3. Clean(p)'
    <3>1. bad' = 0 => Sound(x)
      BY <1>0, <1>1, <1>2 DEF Fine, Clean, Sound
    <3>2. p \notin liars' \cup mixed' => \A c \in Blocks : x[c].data # "bad"
      BY <1>0, <1>1, <1>2 DEF Fine, Clean
    <3> QED
      BY <1>0, <1>4, <3>1, <3>2 DEF Clean
  <2>4. Given(p)'
    <3>1. SUFFICES ASSUME bad' = 0, task[p] = "coop", NEW c \in Blocks \ Virtual, mine'[p][c].data = "good"
                   PROVE share' # NoShare /\ share'[c].data = "good"
      BY <1>0 DEF Given
    <3>2. CASE c = b
      BY <1>0, <3>1, <3>2 DEF Grows
    <3>3. CASE c # b
      <4>1. mine[p][c].data = "good"
        BY <1>0, <1>4, <3>1, <3>3
      <4>2. share # NoShare /\ share[c].data = "good"
        BY <1>0, <1>1, <1>2, <3>1, <4>1 DEF Fine, Given
      <4> QED
        BY <1>0, <3>1, <4>2 DEF Grows
    <3> QED
      BY <3>2, <3>3
  <2> QED
    BY <1>0, <1>6, <2>1, <2>2, <2>3, <2>4 DEF Fine
<1>11. Shelf'
  BY <1>0, <1>2 DEF Inv, Shelf, AllGood, Grows
<1>12. ASSUME ~stored', bad' = 0, NEW c \in Blocks
       PROVE /\ c \in arrived' => c \in arrived \/ Holds(c)'
             /\ mine[p][c].data = "good" => Holds(c)'
             /\ (\E k \in DOMAIN orphans : orphans[k].block = c) => Holds(c)'
  <2>1. c = b \/ mine[p][c].data = "good" => mine'[p][c].data = "good"
    BY <1>0, <1>4, <1>12
  <2> QED
    BY <1>0, <1>2, <2>1 DEF Holds
<1> QED
  BY <1>0, <1>7, <1>8, <1>9, <1>10, <1>11, <1>12, Step

\* The block is put among those of the task.
LEMMA ReceivedFine ==
  ASSUME TypeOK, NEW p \in Peers, NEW b \in Blocks, NEW d \in {"good", "bad"}
  PROVE /\ Received(p, b, d) \in [Blocks -> Mine]
        /\ \A c \in Blocks :
             /\ Received(p, b, d)[c].pending <=> c # b /\ mine[p][c].pending
             /\ Received(p, b, d)[c].data = IF c = b THEN d ELSE mine[p][c].data
             /\ Received(p, b, d)[c].data \in Data
             /\ Received(p, b, d)[c].pending \in BOOLEAN
<1>1. mine[p] \in [Blocks -> Mine] /\ mine[p][b] \in Mine
  BY DEF TypeOK
<1> DEFINE y == [data |-> d, pending |-> FALSE, source |-> mine[p][b].source]
<1>2. y \in Mine /\ y.data = d /\ ~y.pending
  BY <1>1 DEF Mine, Data
<1>3. Received(p, b, d) = [mine[p] EXCEPT ![b] = y]
  BY DEF Received
<1> HIDE DEF y
<1>4. /\ Received(p, b, d) \in [Blocks -> Mine] /\ Received(p, b, d)[b] = y
      /\ \A c \in Blocks : c # b => Received(p, b, d)[c] = mine[p][c]
  BY <1>1, <1>2, <1>3
<1>5. \A c \in Blocks : Received(p, b, d)[c].data \in Data /\ Received(p, b, d)[c].pending \in BOOLEAN
  BY <1>4 DEF Mine
<1> QED
  BY <1>2, <1>4, <1>5

\* A finished piece that is wrong was spoiled by somebody.
LEMMA SpoiledByOne ==
  ASSUME TypeOK, NEW p \in Peers, Clean(p), NEW b \in Blocks, NEW d \in {"good", "bad"},
         Arrives(p, b, d), IsFinish(Received(p, b, d)), ~HashOK(Received(p, b, d))
  PROVE bad' # 0 /\ p \in liars' \cup mixed
<1>1. /\ \A c \in Blocks :
           /\ Received(p, b, d)[c].data = IF c = b THEN d ELSE mine[p][c].data
           /\ Received(p, b, d)[c].data \in Data
  BY ReceivedFine
<1>2. /\ bad' = 0 => bad = 0 /\ d = "good"
      /\ liars \subseteq liars' /\ (d = "bad" => p \in liars')
  BY ComesIn
<1>3. PICK c \in Blocks : Received(p, b, d)[c].data = "bad"
  BY <1>1 DEF IsFinish, HashOK, Data
<1>4. (c = b /\ d = "bad") \/ mine[p][c].data = "bad"
  BY <1>1, <1>3
<1> QED
  BY <1>2, <1>4 DEF Clean, Sound

LEMMA OwnStep ==
  ASSUME Inv, NEW p \in Peers, NEW b \in Blocks, NEW d \in {"good", "bad"}, Arrives(p, b, d),
         Grows(p, b), ~stored, task[p] # "none", Own(p, b, d)
  PROVE Inv'
<1> DEFINE r == Received(p, b, d)
<1>1. TypeOK /\ Fine(p) /\ Clean(p)
  BY DEF Inv, Fine
<1>2. /\ open[p] /\ ~checked[p] /\ UNCHANGED <<links, checked, late, mixed, trouble>>
      /\ bad' \in 0 .. MaxBad /\ arrived' \subseteq Blocks /\ liars' \subseteq Peers
      /\ bad' = 0 => bad = 0 /\ d = "good"
      /\ liars \subseteq liars'
  BY <1>1, ComesIn
<1>3. /\ r \in [Blocks -> Mine]
      /\ \A c \in Blocks : /\ r[c].pending <=> c # b /\ mine[p][c].pending
                           /\ r[c].data = IF c = b THEN d ELSE mine[p][c].data
                           /\ r[c].data \in Data
                           /\ r[c].pending \in BOOLEAN
  BY <1>1, ReceivedFine
<1>4. CASE ~IsFinish(r) /\ Take(p, b, d) /\ UNCHANGED <<stored, orphans>>
  <2>1. /\ mine' = [mine EXCEPT ![p] = r] /\ Answered(p, b)
        /\ count' = [count EXCEPT ![p] = IF mine[p][b].pending THEN @ - 1 ELSE @]
        /\ UNCHANGED <<stored, orphans, open, choked, holders, task, allowed, blamed>>
    BY <1>4 DEF Take
  <2> HIDE DEF r
  <2>2. bad' = 0 => \A c \in Blocks : r[c].data = IF c = b THEN "good" ELSE mine[p][c].data
    BY <1>2, <1>3
  <2>3. d # "bad" /\ (\A c \in Blocks : mine[p][c].data # "bad") => \A c \in Blocks : r[c].data # "bad"
    BY <1>3
  <2>4. GoesOn(p, b, d, r)
    BY <1>3, <2>1, <2>2, <2>3 DEF GoesOn
  <2> QED
    BY <1>3, <2>4, Keeping
<1>5. CASE IsFinish(r) /\ HashOK(r) /\ Complete(p, b)
  BY <1>5, Completing DEF Grows
<1>6. CASE IsFinish(r) /\ ~HashOK(r) /\ Spoiled(p, b, d)
  <2>1. bad' # 0
    BY <1>1, <1>6, SpoiledByOne
  <2>2. UNCHANGED <<stored, orphans>>
    BY <1>6 DEF Spoiled
  <2>3. CASE HaveAlien(r, p)
    <3> DEFINE x == ClearAlien(r, p)
    <3>1. /\ mine' = [mine EXCEPT ![p] = x] /\ Answered(p, b)
          /\ count' = [count EXCEPT ![p] = IF mine[p][b].pending THEN @ - 1 ELSE @]
          /\ UNCHANGED <<open, choked, holders, task, allowed, blamed>>
      BY <1>6, <2>3 DEF Spoiled
    <3> HIDE DEF r
    <3>2. ASSUME NEW c \in Blocks
          PROVE /\ x[c] \in Mine /\ (x[c].pending <=> r[c].pending)
                /\ r[c].data # "bad" => x[c].data # "bad"
      <4>1. r[c] \in Mine
        BY <1>3
      <4>2. CASE r[c].source # p /\ r[c].data # "none"
        <5>1. x[c] = [r[c] EXCEPT !.data = "none", !.source = NoPeer]
          BY <4>2 DEF ClearAlien
        <5> HIDE DEF x
        <5> QED
          BY <4>1, <5>1 DEF Mine, Data
      <4>3. CASE ~(r[c].source # p /\ r[c].data # "none")
        <5>1. x[c] = r[c]
          BY <4>3 DEF ClearAlien
        <5> QED
          BY <4>1, <5>1
      <4> QED
        BY <4>2, <4>3
    <3>3. x \in [Blocks -> Mine]
      <4>1. x = [c \in Blocks |-> x[c]]
        BY DEF ClearAlien
      <4> HIDE DEF x
      <4> QED
        BY <3>2, <4>1
    <3> HIDE DEF x
    <3>4. \A c \in Blocks : x[c].pending <=> c # b /\ mine[p][c].pending
      BY <1>3, <3>2
    <3>5. d # "bad" /\ (\A c \in Blocks : mine[p][c].data # "bad") => \A c \in Blocks : x[c].data # "bad"
      BY <1>3, <3>2
    <3>6. GoesOn(p, b, d, x)
      BY <2>1, <2>2, <3>1, <3>4, <3>5 DEF GoesOn
    <3> QED
      BY <3>3, <3>6, Keeping
  <2>4. CASE ~HaveAlien(r, p)
    <3>1. /\ open' = [open EXCEPT ![p] = FALSE] /\ choked' = [choked EXCEPT ![p] = TRUE]
          /\ asked' = [asked EXCEPT ![p] = NoneAsked]
          /\ task' = [task EXCEPT ![p] = "none"] /\ mine' = [mine EXCEPT ![p] = NewMine]
          /\ count' = [count EXCEPT ![p] = 0] /\ allowed' = [allowed EXCEPT ![p] = FALSE]
          /\ holders' = IF holders > 0 THEN holders - 1 ELSE 0
          /\ blamed' = blamed \cup {p}
      BY <1>6, <2>4 DEF Spoiled, Shut, CancelMyRequest, AbandonPieceTask, Reset
    <3>2. TypeOK'
      <4>1. holders' \in Nat /\ blamed' \subseteq Peers
        BY <1>1, <3>1 DEF TypeOK
      <4>2. /\ mine' \in [Peers -> [Blocks -> Mine]] /\ task' \in [Peers -> {"none", "solo", "coop"}]
            /\ count' \in [Peers -> Int] /\ allowed' \in [Peers -> BOOLEAN]
        BY <1>1, <3>1, NewMineType DEF TypeOK
      <4>3. /\ open' \in [Peers -> BOOLEAN] /\ choked' \in [Peers -> BOOLEAN]
            /\ asked' \in [Peers -> [Blocks -> Nat]]
        BY <1>1, <3>1, NewMineType DEF TypeOK
      <4> QED
        BY <1>1, <1>2, <2>2, <4>1, <4>2, <4>3 DEF TypeOK, Grows
    <3>3. Forward
      BY <1>2, <2>2 DEF Forward, Grows
    <3>4. ASSUME NEW q \in Peers \ {p} PROVE Same(q)
      BY <1>1, <1>2, <3>1 DEF Same, TypeOK
    <3>5. Fine(p)'
      <4>1. task'[p] = "none" /\ mine'[p] = NewMine /\ count'[p] = 0 /\ ~checked'[p] /\ asked'[p] = NoneAsked
        BY <1>1, <1>2, <3>1 DEF TypeOK
      <4> QED
        BY <3>2, <4>1, Ended
    <3>6. Shelf'
      BY <2>1 DEF Shelf
    <3> QED
      BY <2>1, <3>2, <3>3, <3>4, <3>5, <3>6, Step
  <2> QED
    BY <2>3, <2>4
<1> QED
  BY <1>4, <1>5, <1>6 DEF Own

LEMMA PieceSoloStep ==
  ASSUME Inv, NEW p \in Peers, NEW b \in Blocks, NEW d \in {"good", "bad"}, Arrives(p, b, d),
         PieceSolo(p, b, d)
  PROVE Inv'
<1>1. TypeOK /\ Shelf
  BY DEF Inv
<1>2. bad' = 0 => bad = 0
  BY <1>1, ComesIn
<1>3. /\ Own(p, b, d) /\ ~stored /\ task[p] = "solo" /\ UNCHANGED <<share, fails>>
  BY DEF PieceSolo
<1>4. Grows(p, b)
  BY <1>1, <1>2, <1>3 DEF Grows, TypeOK, Shelf, Sound
<1> QED
  BY <1>3, <1>4, OwnStep

\* The block is submitted: the share request gets it, or is done with.
LEMMA PieceSharedStep ==
  ASSUME Inv, NEW p \in Peers, NEW b \in Blocks, NEW d \in {"good", "bad"}, Arrives(p, b, d),
         PieceShared(p, b, d)
  PROVE Inv'
<1> DEFINE o == [block |-> b, data |-> d, source |-> p]
           s == SetShared(share, o)
<1>1. TypeOK /\ Shelf
  BY DEF Inv
<1>2. bad' = 0 => bad = 0 /\ d = "good"
  BY <1>1, ComesIn
<1>3. /\ ~stored /\ task[p] = "coop" /\ share # NoShare
      /\ IF IsFinish(s) /\ HashOK(s)
         THEN share' = NoShare /\ fails' = 0 /\ Complete(p, b)
         ELSE /\ share' = IF IsFinish(s) THEN ClearComfirm(s, fails + 1) ELSE s
              /\ fails' = IF IsFinish(s) THEN fails + 1 ELSE fails
              /\ Own(p, b, d)
  BY DEF PieceShared
<1>4. share \in [Blocks -> Shared] /\ o \in Orphans /\ o.block = b /\ o.data = d
  BY <1>1, <1>3 DEF TypeOK, Orphans, Data
<1> HIDE DEF o
<1>5. s \in [Blocks -> Shared] /\ \A c \in Blocks : s[c].data \in Data
  <2>1. s \in [Blocks -> Shared]
    BY <1>4, SharedType
  <2> HIDE DEF s
  <2> QED
    BY <2>1 DEF Shared
<1>6. s[b] = Answer(share[b], o) /\ \A c \in Blocks : c # b => s[c] = share[c]
  BY <1>4 DEF SetShared
<1> HIDE DEF s
<1>7. bad' = 0 => /\ Sound(s) /\ s[b].data = "good"
                  /\ \A c \in Blocks : share[c].data = "good" => s[c].data = "good"
  <2>1. SUFFICES ASSUME bad' = 0
                 PROVE /\ Sound(s) /\ s[b].data = "good"
                       /\ \A c \in Blocks : share[c].data = "good" => s[c].data = "good"
    OBVIOUS
  <2>2. Sound(share) /\ o.data = "good"
    BY <1>1, <1>2, <1>3, <1>4, <2>1 DEF Shelf
  <2>3. share[b].data \in Data /\ share[b].data # "bad"
    BY <1>4, <2>2 DEF Sound, Shared
  <2>4. s[b].data = "good"
    BY <1>6, <2>2, <2>3 DEF Answer, Replaced, Data
  <2> QED
    BY <1>6, <2>2, <2>4 DEF Sound
<1>8. CASE IsFinish(s) /\ HashOK(s)
  <2>1. share' = NoShare /\ fails' = 0 /\ Complete(p, b)
    BY <1>3, <1>8
  <2> QED
    BY <2>1, Completing
<1>9. CASE ~(IsFinish(s) /\ HashOK(s))
  <2>1. bad' = 0 => ~IsFinish(s)
    BY <1>5, <1>7, <1>9, WholeIsRight
  <2>2. fails \in Nat
    BY <1>1 DEF TypeOK
  <2>3. ClearComfirm(s, fails + 1) \in [Blocks -> Shared]
    <3> DEFINE x == ClearComfirm(s, fails + 1)
    <3>1. ASSUME NEW c \in Blocks PROVE x[c] \in Shared
      <4>1. s[c] \in Shared
        BY <1>5
      <4>2. CASE s[c].data # "none" /\ s[c].comfirm < fails + 1
        <5>1. x[c] = [s[c] EXCEPT !.data = "none", !.source = NoPeer]
          BY <4>2 DEF ClearComfirm
        <5> HIDE DEF x
        <5> QED
          BY <4>1, <5>1 DEF Shared, Data
      <4>3. CASE ~(s[c].data # "none" /\ s[c].comfirm < fails + 1)
        <5>1. x[c] = s[c]
          BY <4>3 DEF ClearComfirm
        <5> QED
          BY <4>1, <5>1
      <4> QED
        BY <4>2, <4>3
    <3>2. x = [c \in Blocks |-> x[c]]
      BY DEF ClearComfirm
    <3> HIDE DEF x
    <3>3. x \in [Blocks -> Shared]
      BY <3>1, <3>2
    <3> QED
      BY <3>3 DEF x
  <2>4. /\ share' = IF IsFinish(s) THEN ClearComfirm(s, fails + 1) ELSE s
        /\ fails' = IF IsFinish(s) THEN fails + 1 ELSE fails
        /\ Own(p, b, d)
    BY <1>3, <1>9
  <2>5. share' \in [Blocks -> Shared] /\ fails' \in Nat /\ (bad' = 0 => share' = s)
    BY <1>5, <2>1, <2>2, <2>3, <2>4
  <2>6. share' # NoShare
    BY <2>5, IsShare
  <2>7. Grows(p, b)
    BY <1>7, <2>5, <2>6 DEF Grows
  <2> QED
    BY <1>3, <2>4, <2>7, OwnStep
<1> QED
  BY <1>8, <1>9

LEMMA DoCmdPieceStep ==
  ASSUME Inv, NEW p \in Peers, DoCmdPiece(p)
  PROVE Inv'
<1>1. PICK b \in Blocks, d \in {"good", "bad"} :
        /\ Arrives(p, b, d)
        /\ \/ PieceFinished(p, b) \/ CheckInOrphanData(p, b, d)
           \/ PieceSolo(p, b, d) \/ PieceShared(p, b, d) \/ PieceUnshared(p, b)
  BY DEF DoCmdPiece
<1> QED
  BY <1>1, PieceFinishedStep, CheckInOrphanDataStep, PieceSoloStep, PieceSharedStep, PieceUnsharedStep

-----------------------------------------------------------------------------
(* The theorems.                                                             *)

LEMMA InitInv ==
  ASSUME Init
  PROVE Inv
<1>1. TypeOK
  <2>1. links \in [Peers -> 0 .. MaxLinks] /\ trouble \in 0 .. MaxTrouble /\ bad \in 0 .. MaxBad
    BY BoundsAssumption DEF Init
  <2>2. mine \in [Peers -> [Blocks -> Mine]] /\ asked \in [Peers -> [Blocks -> Nat]]
    BY NewMineType DEF Init
  <2>3. orphans \in Seq(Orphans)
    BY DEF Init
  <2>4. /\ open \in [Peers -> BOOLEAN] /\ choked \in [Peers -> BOOLEAN] /\ allowed \in [Peers -> BOOLEAN]
        /\ checked \in [Peers -> BOOLEAN] /\ count \in [Peers -> Int]
        /\ task \in [Peers -> {"none", "solo", "coop"}]
    BY DEF Init
  <2>5. /\ stored = FALSE /\ holders = 0 /\ share = NoShare /\ fails = 0 /\ late = FALSE
        /\ arrived = {} /\ mixed = {} /\ liars = {} /\ blamed = {}
    BY DEF Init
  <2> QED
    BY <2>1, <2>2, <2>3, <2>4, <2>5 DEF TypeOK
<1>2. ASSUME NEW p \in Peers PROVE Fine(p)
  <2>1. /\ task[p] = "none" /\ mine[p] = NewMine /\ count[p] = 0 /\ ~checked[p]
        /\ asked[p] = NoneAsked /\ ~open[p]
    BY DEF Init
  <2>2. \A b \in Blocks : asked[p][b] = 0 /\ NewMine[b].data = IF b \in Virtual THEN "good" ELSE "none"
    BY <2>1 DEF NoneAsked, NewMine
  <2>3. Counted(p)
    BY <2>1, NewPending, NumbersAssumption DEF Counted
  <2>4. InTask(p) /\ Known(p) /\ Given(p)
    BY <2>1, <2>2 DEF InTask, Known, Given
  <2>5. Clean(p)
    BY <2>1, <2>2 DEF Clean, Sound
  <2> QED
    BY <2>3, <2>4, <2>5 DEF Fine
<1>3. Shelf /\ NothingLost
  BY DEF Init, Shelf, AllGood, NothingLost
<1> QED
  BY <1>1, <1>2, <1>3 DEF Inv

LEMMA NextInv ==
  ASSUME Inv, [Next]_vars
  PROVE Inv'
<1>1. CASE Next
  <2>1. PICK p \in Peers :
          \/ OnConnectOk(p) \/ PeerCloses(p)
          \/ DoCmdChoke(p) \/ DoCmdUnchoke(p) \/ OnTimer(p)
          \/ Requests(p)
          \/ DoCmdPiece(p) \/ DoCmdRejectRequest(p) \/ NoticeNewHavePiece(p)
    BY <1>1 DEF Next
  <2>2. CASE OnConnectOk(p)
    BY <2>2, OnConnectOkStep
  <2>3. CASE PeerCloses(p)
    BY <2>3, PeerClosesStep
  <2>4. CASE DoCmdChoke(p)
    BY <2>4, DoCmdChokeStep
  <2>5. CASE DoCmdUnchoke(p)
    BY <2>5, DoCmdUnchokeStep
  <2>6. CASE OnTimer(p)
    BY <2>6, OnTimerStep
  <2>7. CASE Requests(p)
    <3>1. CASE TakeTask(p)
      BY <3>1, TakeTaskStep
    <3>2. CASE DoMyRequest(p)
      BY <3>2, DoMyRequestStep
    <3>3. CASE CheckShare(p)
      BY <3>3, CheckShareStep
    <3>4. CASE ShareRefused(p)
      BY <3>4, ShareRefusedStep
    <3>5. CASE ShareFromOrphans(p)
      BY <3>5, ShareFromOrphansStep
    <3>6. CASE ShareTask(p)
      BY <3>6, ShareTaskStep
    <3>7. CASE ShareEmpty(p)
      BY <3>7, ShareEmptyStep
    <3> QED
      BY <2>7, <3>1, <3>2, <3>3, <3>4, <3>5, <3>6, <3>7 DEF Requests
  <2>8. CASE DoCmdPiece(p)
    BY <2>8, DoCmdPieceStep
  <2>9. CASE DoCmdRejectRequest(p)
    BY <2>9, DoCmdRejectRequestStep
  <2>10. CASE NoticeNewHavePiece(p)
    BY <2>10, NoticeNewHavePieceStep
  <2> QED
    BY <2>1, <2>2, <2>3, <2>4, <2>5, <2>6, <2>7, <2>8, <2>9, <2>10
<1>2. CASE UNCHANGED vars
  <2>1. UNCHANGED <<stored, holders, orphans, share, fails, open, links, choked, task, allowed, mine,
                    count, checked, asked, trouble, bad, arrived, late, mixed, liars, blamed>>
    BY <1>2 DEF vars, storage, requests, history
  <2> QED
    BY <2>1 DEF Inv, TypeOK, Fine, Counted, InTask, Known, Clean, Given, Shelf, AllGood, Sound,
                NothingLost, Holds
<1> QED
  BY <1>1, <1>2

LEMMA Always ==
  Spec => []Inv
<1>1. Init => Inv
  BY InitInv
<1>2. Inv /\ [Next]_vars => Inv'
  BY NextInv
<1> QED
  BY <1>1, <1>2, PTL DEF Spec

\* For any peers, blocks, window and limits: m_nPending counts the blocks that
\* are pending and stays within PENDING_REQUEST_SIZE, a block is asked of a peer
\* once unless an answer was late, and as long as nobody sends anything wrong a
\* block that came in is held by a task, the share request or the orphans until
\* the piece is stored.
THEOREM BlocksHold ==
  Spec => []BlockInv
<1>1. Inv => BlockInv
  BY InvMeans
<1> QED
  BY <1>1, Always, PTL

\* Only a block that was wrong gets a peer closed for bad data.
LEMMA BlameStep ==
  ASSUME Inv, [Next]_vars
  PROVE blamed' \ blamed \subseteq liars' \cup mixed
<1>1. CASE blamed' = blamed
  BY <1>1
<1>2. CASE blamed' # blamed
  <2>1. PICK p \in Peers : DoCmdPiece(p)
    <3>1. CASE UNCHANGED vars
      BY <1>2, <3>1 DEF vars, history
    <3>2. CASE Next
      <4>1. PICK p \in Peers :
              \/ OnConnectOk(p) \/ PeerCloses(p)
              \/ DoCmdChoke(p) \/ DoCmdUnchoke(p) \/ OnTimer(p)
              \/ Requests(p)
              \/ DoCmdPiece(p) \/ DoCmdRejectRequest(p) \/ NoticeNewHavePiece(p)
        BY <3>2 DEF Next
      <4>2. ~(OnConnectOk(p) \/ PeerCloses(p) \/ DoCmdChoke(p) \/ DoCmdUnchoke(p) \/ OnTimer(p))
        BY <1>2 DEF OnConnectOk, PeerCloses, DoCmdChoke, DoCmdUnchoke, OnTimer, history
      <4>3. ~Requests(p)
        BY <1>2 DEF Requests, TakeTask, DoMyRequest, CheckShare, ShareRefused, ShareFromOrphans,
                    ShareTask, ShareEmpty, history
      <4>4. ~(DoCmdRejectRequest(p) \/ NoticeNewHavePiece(p))
        BY <1>2 DEF DoCmdRejectRequest, NoticeNewHavePiece, history
      <4> QED
        BY <4>1, <4>2, <4>3, <4>4
    <3> QED
      BY <3>1, <3>2
  <2>2. PICK b \in Blocks, d \in {"good", "bad"} :
          /\ Arrives(p, b, d)
          /\ \/ PieceFinished(p, b) \/ CheckInOrphanData(p, b, d)
             \/ PieceSolo(p, b, d) \/ PieceShared(p, b, d) \/ PieceUnshared(p, b)
    BY <2>1 DEF DoCmdPiece
  <2>3. Own(p, b, d)
    BY <1>2, <2>2 DEF PieceFinished, CheckInOrphanData, PieceSolo, PieceShared, PieceUnshared, Complete
  <2> DEFINE r == Received(p, b, d)
  <2>4. IsFinish(r) /\ ~HashOK(r) /\ Spoiled(p, b, d)
    BY <1>2, <2>3 DEF Own, Take, Complete
  <2>5. blamed' = blamed \cup {p}
    BY <1>2, <2>4 DEF Spoiled
  <2>6. p \in liars' \cup mixed
    BY <2>2, <2>4, SpoiledByOne DEF Inv, Fine
  <2> QED
    BY <2>5, <2>6
<1> QED
  BY <1>1, <1>2

\* For any peers, blocks and limits: a peer is closed for bad data only if it sent
\* some, or if its task had taken over blocks of others.
THEOREM BlameHolds ==
  Spec => BlameFounded
<1>1. Inv /\ [Next]_vars => [blamed' \ blamed \subseteq liars' \cup mixed]_vars
  BY BlameStep
<1> QED
  BY <1>1, Always, PTL DEF Spec, BlameFounded

=============================================================================
