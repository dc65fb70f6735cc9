---------------------------- MODULE Threads_proofs ----------------------------
(* What the threads of the program keep lists of: the sessions and links of  *)
(* a job (Application), the sockets and timers of a dealer (Dealer) and the  *)
(* connecting handles of the trackers (Trackers), for any tasks, sessions,   *)
(* links, sockets, trackers and limits.                                      *)
EXTENDS Application, Dealer, Trackers, SequenceTheorems, FiniteSetTheorems,
        WellFoundedInduction, NaturalsInduction, TLAPS

-----------------------------------------------------------------------------
(* Lists.                                                                  *)

\* A set of numbers has a least one.
LEMMA Least ==
  ASSUME NEW T, T \subseteq Nat, T # {}
  PROVE  \E x \in T : \A y \in T : x <= y
<1> DEFINE R == {ss \in Nat \X Nat : ss[1] < ss[2]}
<1>1. IsWellFoundedOn(R, Nat)
  BY NatLessThanWellFounded DEF OpToRel
<1>2. PICK x \in T : \A y \in T : ~(<<y, x>> \in R)
  BY <1>1, WFMin
<1>3. ASSUME NEW y \in T, y < x
      PROVE  FALSE
  <2>1. <<y, x>> \in R
    BY <1>3
  <2> QED
    BY <1>2, <2>1
<1> QED
  BY <1>3

\* Induction up to n, for a set of numbers.
LEMMA Upwards ==
  ASSUME NEW n \in Nat, NEW T, 0 \in T, \A m \in 0..n - 1 : m \in T => m + 1 \in T
  PROVE  \A m \in 0..n : m \in T
<1> SUFFICES ASSUME (0..n) \ T # {} PROVE FALSE
  OBVIOUS
<1>1. PICK x \in (0..n) \ T : \A y \in (0..n) \ T : x <= y
  <2>1. (0..n) \ T \subseteq Nat
    OBVIOUS
  <2> QED
    BY <2>1, Least
<1>2. x - 1 \in 0..n - 1 /\ x - 1 < x
  OBVIOUS
<1>3. x - 1 \in T
  BY <1>1, <1>2
<1> QED
  BY <1>2, <1>3

\* The first i elements without those of S are kept[i], up to n.
Goes(kept, n, s, S) ==
    /\ n = Len(s) /\ DOMAIN s = 1..n
    /\ Without(s, S) = kept[n]
    /\ kept[0] = <<>>
    /\ \A i \in 1..n :
          kept[i] = IF s[i] \in S THEN kept[i - 1] ELSE Append(kept[i - 1], s[i])

\* How Without goes through a sequence.
LEMMA WithoutBuilt ==
  ASSUME NEW T, NEW s \in Seq(T), NEW S
  PROVE  \E n \in Nat : \E kept \in [0..n -> Seq(T)] : Goes(kept, n, s, S)
<1> DEFINE Step(q, i) == IF s[i] \in S THEN q ELSE Append(q, s[i])
           Whole(g) == [i \in 0..Len(s) |-> IF i = 0 THEN <<>>
                            ELSE IF s[i] \in S THEN g[i - 1] ELSE Append(g[i - 1], s[i])]
           f == CHOOSE g : g = Whole(g)
           Part(m, g) == g[0] = <<>> /\ \A i \in 1..m : g[i] = Step(g[i - 1], i)
           U == {m \in Nat : \E g \in [0..m -> Seq(T)] : Part(m, g)}
<1>1. PICK n \in Nat : n = Len(s)
  OBVIOUS
<1>2. Without(s, S) = f[Len(s)]
  BY DEF Without
<1>3. \A i \in 1..n, q \in Seq(T) : Step(q, i) \in Seq(T)
  BY <1>1
<1>4. ASSUME NEW g
       PROVE  /\ DOMAIN Whole(g) = 0..n /\ Whole(g) = [i \in 0..n |-> Whole(g)[i]]
              /\ Whole(g)[0] = <<>>
              /\ \A i \in 1..n : Whole(g)[i] = Step(g[i - 1], i)
  <2>1. \A i \in 1..n : i # 0 /\ i \in 0..Len(s)
    BY <1>1
  <2>2. DOMAIN Whole(g) = 0..n /\ Whole(g) = [i \in 0..n |-> Whole(g)[i]]
    BY <1>1
  <2>3. Whole(g)[0] = <<>>
    BY <1>1
  <2>4. ASSUME NEW i \in 1..n
        PROVE  Whole(g)[i] = Step(g[i - 1], i)
    BY <2>1
  <2> HIDE DEF Whole, Step
  <2> QED
    BY <2>2, <2>3, <2>4
<1>5. 0 \in U
  <2>1. [i \in 0..0 |-> <<>>] \in [0..0 -> Seq(T)] /\ Part(0, [i \in 0..0 |-> <<>>])
    OBVIOUS
  <2> QED
    BY <2>1
<1>6. ASSUME NEW m \in 0..n - 1, m \in U
      PROVE  m + 1 \in U
  <2>1. PICK g \in [0..m -> Seq(T)] : Part(m, g)
    BY <1>6
  <2> DEFINE h == [i \in 0..m + 1 |-> IF i = m + 1 THEN Step(g[m], m + 1) ELSE g[i]]
  <2>2. Step(g[m], m + 1) \in Seq(T)
    BY <1>3
  <2> HIDE DEF Step
  <2>3. h \in [0..m + 1 -> Seq(T)]
    BY <2>1, <2>2
  <2>4. h[0] = <<>> /\ h[m + 1] = Step(g[m], m + 1) /\ \A i \in 0..m : h[i] = g[i]
    BY <2>1
  <2> HIDE DEF h
  <2>5. ASSUME NEW i \in 1..m + 1
        PROVE  h[i] = Step(h[i - 1], i)
    <3>1. i - 1 \in 0..m /\ (i = m + 1 \/ i \in 1..m)
      OBVIOUS
    <3> QED
      BY <2>1, <2>4, <3>1
  <2>6. Part(m + 1, h)
    BY <2>4, <2>5
  <2> HIDE DEF Part
  <2> QED
    BY <2>3, <2>6
<1>7. n \in U
  <2>1. \A m \in 0..n - 1 : m \in U => m + 1 \in U
    BY <1>6
  <2> HIDE DEF U
  <2>2. \A m \in 0..n : m \in U
    BY <1>5, <2>1, Upwards
  <2> QED
    BY <2>2
<1>8. PICK g \in [0..n -> Seq(T)] : Part(n, g)
  BY <1>7
<1>9. g = Whole(g)
  <2>1. g = [i \in 0..n |-> g[i]]
    BY <1>8
  <2>2. g[0] = <<>> /\ \A i \in 1..n : g[i] = Step(g[i - 1], i)
    BY <1>8
  <2> HIDE DEF Whole, Part, Step
  <2>3. PICK w : w = Whole(g)
    OBVIOUS
  <2>4. /\ w = [i \in 0..n |-> w[i]] /\ w[0] = <<>>
        /\ \A i \in 1..n : w[i] = Step(g[i - 1], i)
    BY <1>4, <2>3
  <2>5. \A i \in 0..n : i = 0 \/ i \in 1..n
    OBVIOUS
  <2>6. \A i \in 0..n : g[i] = w[i]
    BY <2>2, <2>4, <2>5
  <2> QED
    BY <2>1, <2>3, <2>4, <2>6
<1>10. f = Whole(f)
  BY <1>9
<1>11. f[0] = <<>> /\ (\A i \in 1..n : f[i] = Step(f[i - 1], i)) /\ f = [i \in 0..n |-> f[i]]
  <2> HIDE DEF f, Whole, Step
  <2> QED
    BY <1>10, <1>4
<1> HIDE DEF f, Whole, U, Step
<1>12. \A i \in 0..n : f[i] \in Seq(T)
  <2> DEFINE V == {i \in 0..n : f[i] \in Seq(T)}
  <2>1. 0 \in V
    BY <1>11
  <2>2. ASSUME NEW m \in 0..n - 1, m \in V
        PROVE  m + 1 \in V
    <3>1. m + 1 \in 1..n /\ (m + 1) - 1 = m
      OBVIOUS
    <3>2. f[m + 1] = Step(f[m], m + 1)
      BY <1>11, <3>1
    <3> QED
      BY <1>3, <2>2, <3>1, <3>2
  <2> HIDE DEF V
  <2>3. \A m \in 0..n : m \in V
    BY <2>1, <2>2, Upwards
  <2> QED
    BY <2>3 DEF V
<1>13. f \in [0..n -> Seq(T)]
  BY <1>11, <1>12
<1>14. DOMAIN s = 1..n
  BY <1>1
<1>15. \A i \in 1..n : f[i] = IF s[i] \in S THEN f[i - 1] ELSE Append(f[i - 1], s[i])
  BY <1>11 DEF Step
<1>16. Goes(f, n, s, S)
  BY <1>1, <1>2, <1>11, <1>14, <1>15 DEF Goes
<1> QED
  BY <1>13, <1>16
\* The elements of q are elements of s, and none is in S.
LeftOf(q, s, S) == \A k \in DOMAIN q : q[k] \notin S /\ \E i \in DOMAIN s : s[i] = q[k]

\* What is removed is gone, and nothing comes.
LEMMA WithoutLeaves ==
  ASSUME NEW T, NEW s \in Seq(T), NEW S
  PROVE  Without(s, S) \in Seq(T) /\ LeftOf(Without(s, S), s, S)
<1>1. PICK n \in Nat : \E g \in [0..n -> Seq(T)] : Goes(g, n, s, S)
  BY WithoutBuilt
<1>2. PICK kept \in [0..n -> Seq(T)] : Goes(kept, n, s, S)
  BY <1>1
<1>3. n = Len(s) /\ DOMAIN s = 1..n /\ \A i \in 1..n : s[i] \in T
  BY <1>2 DEF Goes
<1>4. /\ Without(s, S) = kept[n]
      /\ kept[0] = <<>>
      /\ \A i \in 1..n : kept[i] = IF s[i] \in S THEN kept[i - 1] ELSE Append(kept[i - 1], s[i])
  BY <1>2 DEF Goes
<1> DEFINE Left(q) == \A k \in DOMAIN q : q[k] \notin S /\ \E i \in DOMAIN s : s[i] = q[k]
           U == {m \in 0..n : Left(kept[m])}
<1>5. 0 \in U
  BY <1>4
<1>6. ASSUME NEW m \in 0..n - 1, m \in U
      PROVE  m + 1 \in U
  <2>1. m + 1 \in 1..n /\ (m + 1) - 1 = m /\ m + 1 \in DOMAIN s /\ m \in 0..n
    BY <1>3
  <2>2. kept[m] \in Seq(T) /\ Left(kept[m]) /\ s[m + 1] \in T
    BY <1>4, <1>6, <2>1
  <2>3. CASE s[m + 1] \in S
    BY <1>4, <2>1, <2>2, <2>3
  <2>4. CASE s[m + 1] \notin S
    <3>1. kept[m + 1] = Append(kept[m], s[m + 1])
      BY <1>4, <2>1, <2>4
    <3>2. PICK q \in Seq(T), x \in T : q = kept[m] /\ x = s[m + 1]
      BY <2>2
    <3>3. PICK a : a = Append(q, x)
      OBVIOUS
    <3>4. PICK l \in Nat : l = Len(q)
      OBVIOUS
    <3>5. DOMAIN q = 1..l /\ DOMAIN a = 1..l + 1 /\ a[l + 1] = x /\ \A k \in 1..l : a[k] = q[k]
      BY <3>4, <3>3
    <3>6. \A k \in 1..l + 1 : k = l + 1 \/ k \in 1..l
      OBVIOUS
    <3>7. \A k \in DOMAIN q : q[k] \notin S /\ \E i \in DOMAIN s : s[i] = q[k]
      BY <2>2, <3>2
    <3>8. x \notin S /\ \E i \in DOMAIN s : s[i] = x
      BY <2>1, <2>4, <3>2
    <3>9. ASSUME NEW k \in DOMAIN a
          PROVE  a[k] \notin S /\ \E i \in DOMAIN s : s[i] = a[k]
      <4>1. k \in 1..l + 1
        BY <3>5
      <4>2. CASE k = l + 1
        BY <3>5, <3>8, <4>2
      <4>3. CASE k \in 1..l
        BY <3>5, <3>7, <4>3
      <4> QED
        BY <3>6, <4>1, <4>2, <4>3
    <3>10. Left(a)
      BY <3>9
    <3> HIDE DEF Left
    <3>11. m + 1 \in 0..n /\ a = kept[m + 1]
      BY <2>1, <3>1, <3>2, <3>3
    <3> QED
      BY <3>11, <3>10
  <2> QED
    BY <2>3, <2>4
<1>7. n \in U
  <2>1. \A m \in 0..n - 1 : m \in U => m + 1 \in U
    BY <1>6
  <2> HIDE DEF U
  <2>2. \A m \in 0..n : m \in U
    BY <1>5, <2>1, Upwards
  <2> QED
    BY <2>2
<1> HIDE DEF U, Left
<1>8. Left(kept[n])
  BY <1>7 DEF U
<1> QED
  BY <1>4, <1>8 DEF Left, LeftOf

\* How often an element stands in a sequence.
LEMMA TimesType ==
  ASSUME NEW T, NEW q \in Seq(T), NEW e
  PROVE  Times(q, e) \in Nat /\ (Times(q, e) = 0 <=> \A i \in DOMAIN q : q[i] # e)
<1> DEFINE P == {i \in DOMAIN q : q[i] = e}
<1>1. IsFiniteSet(DOMAIN q) /\ P \subseteq DOMAIN q
  <2>1. DOMAIN q = 1..Len(q) /\ Len(q) \in Nat
    OBVIOUS
  <2> QED
    BY <2>1, FS_Interval
<1>2. IsFiniteSet(P) /\ Cardinality(P) \in Nat
  BY <1>1, FS_Subset, FS_CardinalityType
<1>3. Cardinality(P) = 0 <=> P = {}
  BY <1>2, FS_EmptySet
<1> QED
  BY <1>2, <1>3 DEF Times

LEMMA TimesEmpty ==
  ASSUME NEW e
  PROVE  Times(<<>>, e) = 0
<1>1. {i \in DOMAIN <<>> : <<>>[i] = e} = {}
  OBVIOUS
<1> QED
  BY <1>1, FS_EmptySet DEF Times

LEMMA TimesAppend ==
  ASSUME NEW T, NEW q \in Seq(T), NEW x \in T, NEW e
  PROVE  Times(Append(q, x), e) = Times(q, e) + (IF x = e THEN 1 ELSE 0)
<1>1. PICK n \in Nat : n = Len(q)
  OBVIOUS
<1>2. PICK a : a = Append(q, x)
  OBVIOUS
<1>3. DOMAIN q = 1..n /\ DOMAIN a = 1..n + 1 /\ a[n + 1] = x /\ \A i \in 1..n : a[i] = q[i]
  BY <1>1, <1>2
<1> DEFINE P == {i \in DOMAIN q : q[i] = e}
           A == {i \in DOMAIN a : a[i] = e}
<1>4. IsFiniteSet(P) /\ n + 1 \notin P /\ Cardinality(P) \in Nat
  <2>1. IsFiniteSet(1..n) /\ P \subseteq 1..n
    BY <1>3, FS_Interval
  <2> QED
    BY <2>1, FS_Subset, FS_CardinalityType
<1>5. CASE x = e
  <2>1. A = P \cup {n + 1}
    BY <1>3, <1>5
  <2> HIDE DEF A, P
  <2>2. Cardinality(A) = Cardinality(P) + 1
    BY <1>4, <2>1, FS_AddElement
  <2> QED
    BY <1>2, <1>5, <2>2 DEF Times, A, P
<1>6. CASE x # e
  <2>1. A = P
    BY <1>3, <1>6
  <2> HIDE DEF A, P
  <2>2. Cardinality(A) = Cardinality(P) + 0
    BY <1>4, <2>1
  <2> QED
    BY <1>2, <1>6, <2>2 DEF Times, A, P
<1> QED
  BY <1>5, <1>6

\* Everything that is not removed stands there as often as before.
LEMMA TimesWithout ==
  ASSUME NEW T, NEW s \in Seq(T), NEW S, NEW e
  PROVE  Times(Without(s, S), e) = IF e \in S THEN 0 ELSE Times(s, e)
<1>1. PICK n \in Nat : \E g \in [0..n -> Seq(T)] : Goes(g, n, s, S)
  BY WithoutBuilt
<1>2. PICK kept \in [0..n -> Seq(T)] : Goes(kept, n, s, S)
  BY <1>1
<1>3. n = Len(s) /\ DOMAIN s = 1..n /\ \A i \in 1..n : s[i] \in T
  BY <1>2 DEF Goes
<1>4. /\ Without(s, S) = kept[n]
      /\ kept[0] = <<>>
      /\ \A i \in 1..n : kept[i] = IF s[i] \in S THEN kept[i - 1] ELSE Append(kept[i - 1], s[i])
  BY <1>2 DEF Goes
<1> DEFINE P(m) == {i \in 1..m : s[i] = e}
           U == {m \in 0..n : Times(kept[m], e) = IF e \in S THEN 0 ELSE Cardinality(P(m))}
<1>5. 0 \in U
  <2>1. P(0) = {}
    OBVIOUS
  <2> QED
    BY <1>4, <2>1, TimesEmpty, FS_EmptySet
<1>6. ASSUME NEW m \in 0..n - 1, m \in U
      PROVE  m + 1 \in U
  <2>1. m + 1 \in 1..n /\ (m + 1) - 1 = m /\ m \in 0..n /\ m \in Nat
    OBVIOUS
  <2>2. kept[m] \in Seq(T) /\ s[m + 1] \in T
    BY <1>3, <1>4, <2>1
  <2>3. IsFiniteSet(P(m)) /\ m + 1 \notin P(m) /\ Cardinality(P(m)) \in Nat
    <3>1. IsFiniteSet(1..m)
      BY <2>1, FS_Interval
    <3>2. P(m) \subseteq 1..m /\ m + 1 \notin P(m)
      BY <2>1
    <3> HIDE DEF P
    <3> QED
      BY <3>1, <3>2, FS_Subset, FS_CardinalityType
  <2>4. CASE s[m + 1] = e
    <3>1. P(m + 1) = P(m) \cup {m + 1}
      BY <2>1, <2>4
    <3> HIDE DEF P
    <3>2. Cardinality(P(m + 1)) = Cardinality(P(m)) + 1
      BY <2>3, <3>1, FS_AddElement
    <3>3. e \notin S => Times(kept[m + 1], e) = Times(kept[m], e) + 1
      BY <1>4, <2>1, <2>2, <2>4, TimesAppend
    <3>4. e \in S => kept[m + 1] = kept[m]
      BY <1>4, <2>1, <2>4
    <3> QED
      BY <1>6, <2>1, <2>3, <3>2, <3>3, <3>4
  <2>5. CASE s[m + 1] # e
    <3>1. P(m + 1) = P(m)
      BY <2>1, <2>5
    <3> HIDE DEF P
    <3>2. Times(kept[m], e) \in Nat
      BY <2>2, TimesType
    <3>3. Times(kept[m + 1], e) = Times(kept[m], e)
      <4>1. CASE s[m + 1] \in S
        BY <1>4, <2>1, <4>1
      <4>2. CASE s[m + 1] \notin S
        <5>1. kept[m + 1] = Append(kept[m], s[m + 1])
          BY <1>4, <2>1, <4>2
        <5>2. Times(Append(kept[m], s[m + 1]), e) = Times(kept[m], e) + 0
          BY <2>2, <2>5, TimesAppend
        <5> QED
          BY <3>2, <5>1, <5>2
      <4> QED
        BY <4>1, <4>2
    <3> QED
      BY <1>6, <2>1, <3>1, <3>3
  <2> QED
    BY <2>4, <2>5
<1>7. n \in U
  <2>1. \A m \in 0..n - 1 : m \in U => m + 1 \in U
    BY <1>6
  <2> HIDE DEF U
  <2>2. \A m \in 0..n : m \in U
    BY <1>5, <2>1, Upwards
  <2> QED
    BY <2>2
<1>8. P(n) = {i \in DOMAIN s : s[i] = e}
  BY <1>3
<1> QED
  BY <1>4, <1>7, <1>8 DEF Times

\* Two lists, one after the other.
LEMMA TimesConcat ==
  ASSUME NEW T, NEW q \in Seq(T), NEW r \in Seq(T), NEW e
  PROVE  Times(q \o r, e) = Times(q, e) + Times(r, e)
<1>1. PICK n \in Nat, k \in Nat : n = Len(q) /\ k = Len(r)
  OBVIOUS
<1>2. PICK c : c = q \o r
  OBVIOUS
<1>3. /\ DOMAIN q = 1..n /\ DOMAIN r = 1..k /\ DOMAIN c = 1..n + k
      /\ \A i \in 1..n + k : c[i] = IF i <= n THEN q[i] ELSE r[i - n]
  BY <1>1, <1>2, ConcatProperties
<1> DEFINE Q == {i \in DOMAIN q : q[i] = e}
           R == {i \in DOMAIN r : r[i] = e}
           L == {i \in n + 1..n + k : r[i - n] = e}
           f == [i \in R |-> n + i]
<1>4. IsFiniteSet(Q) /\ IsFiniteSet(R) /\ IsFiniteSet(L)
  <2>1. IsFiniteSet(1..n) /\ IsFiniteSet(1..k) /\ IsFiniteSet(n + 1..n + k)
    BY FS_Interval
  <2>2. Q \subseteq 1..n /\ R \subseteq 1..k /\ L \subseteq n + 1..n + k
    BY <1>3
  <2> QED
    BY <2>1, <2>2, FS_Subset
<1>5. Cardinality(L) = Cardinality(R)
  <2>1. \A i \in R : i \in 1..k /\ n + i \in L /\ f[i] = n + i
    BY <1>3
  <2>2. \A l \in L : l - n \in R /\ f[l - n] = l
    BY <1>3
  <2>3. f \in [R -> L]
    BY <2>1
  <2>4. \A i, j \in R : f[i] = f[j] => i = j
    <3> HIDE DEF f, R, L
    <3> QED
      BY <2>1
  <2>5. f \in Bijection(R, L)
    <3> HIDE DEF f, R, L
    <3> QED
      BY <2>2, <2>3, <2>4 DEF Bijection, Injection, Surjection, IsInjective
  <2> HIDE DEF f, R, L
  <2> QED
    BY <1>4, <2>5, FS_Bijection DEF ExistsBijection
<1>6. {i \in DOMAIN c : c[i] = e} = Q \cup L /\ Q \cap L = {}
  BY <1>3
<1>7. Cardinality(Q \cup L) = Cardinality(Q) + Cardinality(L)
  <2> HIDE DEF Q, L
  <2>1. Cardinality({}) = 0
    BY FS_EmptySet
  <2>2. Cardinality(Q) \in Nat /\ Cardinality(L) \in Nat
    BY <1>4, FS_CardinalityType
  <2>3. PICK x, y, z, u : /\ x = Cardinality(Q \cup L) /\ y = Cardinality(Q)
                          /\ z = Cardinality(L) /\ u = Cardinality(Q \cap L)
    OBVIOUS
  <2>4. x = y + z - u
    BY <1>4, <2>3, FS_Union
  <2>5. u = 0
    BY <1>6, <2>1, <2>3
  <2>6. x = y + z
    BY <2>2, <2>3, <2>4, <2>5
  <2> QED
    BY <2>3, <2>6
<1> QED
  BY <1>2, <1>5, <1>6, <1>7 DEF Times

-----------------------------------------------------------------------------
(* Jobs, their sessions and the links the sessions hold.                   *)

\* A session that has left the list stands in it no more, and one that has ended
\* holds no link: nobody can hand it another.
LinksEnd ==
    \A t \in Tasks, s \in Numbers :
        /\ session[t][s] \in {"left", "ended"} => \A i \in DOMAIN sessions[t] : sessions[t][i] # s
        /\ session[t][s] = "ended" => Owned(t, s) = {}

AppTypes ==
    /\ AppTypeOK /\ listed \subseteq Tasks
    /\ session \in [Tasks -> [Numbers -> {"none", "run", "left", "ended"}]]
    /\ sessions \in [Tasks -> Seq(Numbers)]
    /\ DOMAIN linkAt = Links

AppIInv == AppTypes /\ WindowAgrees /\ LinksEnd

\* Away from the links and the sessions.
LEMMA LinksStand ==
  ASSUME LinksEnd, UNCHANGED <<session, sessions, linkAt>>
  PROVE  LinksEnd'
BY DEF LinksEnd, Owned

\* A start makes new threads of the tasks of Ok.
LEMMA Started ==
  ASSUME AppIInv, NEW S \in SUBSET Tasks, NEW Ok \in SUBSET S, Start(S, Ok),
         UNCHANGED <<listener, wild>>, S \subseteq listed', listed \subseteq listed', listed' \subseteq Tasks
  PROVE  AppIInv'
<1>1. AppTypes'
  <2>1. running' \subseteq listed' /\ jobs' \subseteq Tasks /\ searched' \subseteq Tasks
    BY DEF AppIInv, AppTypes, AppTypeOK, Start
  <2>2. registered' \subseteq Tasks /\ shaking' \in Links \cup {NoLink} /\ wild' \in BOOLEAN
        /\ DOMAIN linkAt' = Links
    BY DEF AppIInv, AppTypes, AppTypeOK, listener
  <2>3. jobTold' \in [Tasks -> BOOLEAN]
    BY DEF AppIInv, AppTypes, AppTypeOK, Start
  <2>4. session' \in [Tasks -> [Numbers -> {"none", "run", "left", "ended"}]]
    <3>1. [s \in Numbers |-> "none"] \in [Numbers -> {"none", "run", "left", "ended"}]
      OBVIOUS
    <3> QED
      BY <3>1 DEF AppIInv, AppTypes, Start
  <2>5. sessions' \in [Tasks -> Seq(Numbers)]
    <3>1. <<>> \in Seq(Numbers)
      OBVIOUS
    <3> QED
      BY <3>1 DEF AppIInv, AppTypes, Start
  <2> QED
    BY <2>1, <2>2, <2>3, <2>4, <2>5 DEF AppTypes, AppTypeOK
<1>2. WindowAgrees'
  BY DEF AppIInv, WindowAgrees, Start, listener
<1>3. LinksEnd'
  <2>1. ASSUME NEW t \in Tasks, NEW s \in Numbers
        PROVE  /\ session'[t][s] \in {"left", "ended"}
                    => \A i \in DOMAIN sessions'[t] : sessions'[t][i] # s
               /\ session'[t][s] = "ended" => Owned(t, s)' = {}
    <3>1. CASE t \in Ok
      <4>1. session'[t] = [n \in Numbers |-> "none"]
        BY <3>1 DEF Start
      <4>2. session'[t][s] = "none"
        BY <4>1
      <4> QED
        BY <4>2
    <3>2. CASE t \notin Ok
      <4>1. session'[t] = session[t] /\ sessions'[t] = sessions[t] /\ linkAt' = linkAt
        BY <3>2 DEF Start, listener
      <4> QED
        BY <4>1 DEF AppIInv, LinksEnd, Owned
    <3> QED
      BY <3>1, <3>2
  <2> QED
    BY <2>1 DEF LinksEnd
<1> QED
  BY <1>1, <1>2, <1>3 DEF AppIInv

\* What the user asks of the window.
LEMMA UserSteps ==
  ASSUME AppIInv, User
  PROVE  AppIInv'
<1>1. ASSUME NEW t \in Tasks, NEW Ok \in SUBSET Tasks, OnMenuOpen(t, Ok)
      PROVE  AppIInv'
  <2>1. listed' = listed \cup {t} /\ listed' \subseteq Tasks /\ UNCHANGED <<listener, wild>>
    BY <1>1 DEF OnMenuOpen, AppIInv, AppTypes
  <2>2. CASE Cardinality(running) >= MaxRunning
    <3>1. UNCHANGED <<running, searched, jobs, jobThreads, sessions>>
      BY <1>1, <2>2 DEF OnMenuOpen, ScheduleTask
    <3>2. LinksEnd'
      BY <2>1, <3>1, LinksStand DEF AppIInv, jobThreads, listener
    <3> QED
      BY <2>1, <3>1, <3>2 DEF AppIInv, AppTypes, AppTypeOK, WindowAgrees, jobThreads, listener
  <2>3. CASE ~(Cardinality(running) >= MaxRunning)
    <3>1. Ok \subseteq listed' \ running /\ Start(listed' \ running, Ok)
      BY <1>1, <2>3 DEF OnMenuOpen, ScheduleTask
    <3> QED
      BY <2>1, <3>1, Started
  <2> QED
    BY <2>2, <2>3
<1>2. ASSUME NEW t \in Tasks, NEW ok \in BOOLEAN, OnMenuRun(t, ok)
      PROVE  AppIInv'
  <2> DEFINE Ok == IF ok THEN {t} ELSE {}
  <2>1. Start({t}, Ok) /\ Ok \in SUBSET {t} /\ {t} \in SUBSET Tasks
        /\ UNCHANGED <<listed, listener, wild>> /\ t \in listed /\ listed \subseteq Tasks
    BY <1>2 DEF OnMenuRun, AppIInv, AppTypes
  <2> HIDE DEF Ok
  <2>2. {t} \subseteq listed' /\ listed \subseteq listed' /\ listed' \subseteq Tasks
    BY <2>1
  <2> QED
    BY <2>1, <2>2, Started
<1>3. ASSUME NEW t \in Tasks, OnMenuStop(t)
      PROVE  AppIInv'
  <2>1. LinksEnd'
    BY <1>3, LinksStand DEF OnMenuStop, DeleteJob, AppIInv, listener
  <2>2. WindowAgrees'
    BY <1>3 DEF OnMenuStop, DeleteJob, Forgotten, AppIInv, WindowAgrees, listener
  <2>3. wild' \in BOOLEAN
    BY <1>3 DEF OnMenuStop, DeleteJob, Alive
  <2>4. AppTypes'
    BY <1>3, <2>3 DEF OnMenuStop, DeleteJob, Forgotten, AppIInv, AppTypes, AppTypeOK, listener
  <2> QED
    BY <2>1, <2>2, <2>4 DEF AppIInv
<1>4. ASSUME NEW t \in Tasks, OnMenuDelete(t)
      PROVE  AppIInv'
  <2>1. UNCHANGED <<listener, session, sessions, jobTold>>
    BY <1>4 DEF OnMenuDelete, DeleteJob, jobThreads
  <2>2. LinksEnd'
    BY <2>1, LinksStand DEF AppIInv, listener
  <2>3. wild' \in BOOLEAN
    BY <1>4 DEF OnMenuDelete, DeleteJob, Alive, AppIInv, AppTypes, AppTypeOK
  <2>4. WindowAgrees'
    BY <1>4, <2>1 DEF OnMenuDelete, DeleteJob, Forgotten, AppIInv, WindowAgrees, listener
  <2>5. AppTypes'
    BY <1>4, <2>1, <2>3 DEF OnMenuDelete, DeleteJob, Forgotten, AppIInv, AppTypes, AppTypeOK, listener
  <2> QED
    BY <2>2, <2>4, <2>5 DEF AppIInv
<1>5. ASSUME NEW t \in Tasks, StopJob(t)
      PROVE  AppIInv'
  <2>1. LinksEnd'
    BY <1>5, LinksStand DEF StopJob, AppIInv, listener
  <2>2. jobTold' \in [Tasks -> BOOLEAN]
    BY <1>5 DEF StopJob, AppIInv, AppTypes, AppTypeOK
  <2> QED
    BY <1>5, <2>1, <2>2 DEF StopJob, AppIInv, AppTypes, AppTypeOK, WindowAgrees, window, listener
<1>6. CASE OnMenuQuit
  <2>1. /\ listening' = FALSE /\ searched' = {}
        /\ UNCHANGED <<jobs, jobTold, session, sessions, listed, running, registered, shaking>>
        /\ linkAt' = [l \in Links |-> IF linkAt[l] = AtListener THEN Closed ELSE linkAt[l]]
    BY <1>6 DEF OnMenuQuit, StopAllJob
  <2>2. wild' \in BOOLEAN
    BY <1>6 DEF OnMenuQuit, StopAllJob, Alive
  <2>3. \A t \in Tasks, s \in Numbers : Owned(t, s)' \subseteq Owned(t, s)
    BY <2>1, <2>2 DEF Owned, Closed, AppIInv, AppTypes
  <2>4. LinksEnd'
    BY <2>1, <2>3 DEF AppIInv, LinksEnd
  <2>5. AppTypes'
    BY <2>1, <2>2 DEF AppIInv, AppTypes, AppTypeOK
  <2> QED
    BY <2>1, <2>4, <2>5 DEF AppIInv, WindowAgrees
<1> QED
  BY <1>1, <1>2, <1>3, <1>4, <1>5, <1>6 DEF User

\* A session joins the list before its thread runs, and never after it left.
LEMMA SessionStarts ==
  ASSUME AppIInv, NEW t \in Tasks, StartSession(t)
  PROVE  AppIInv'
<1>1. PICK s \in Numbers :
        /\ session[t][s] = "none"
        /\ sessions' = [sessions EXCEPT ![t] = Append(@, s)]
        /\ session' = [session EXCEPT ![t][s] = "run"] \/ UNCHANGED session
        /\ UNCHANGED <<NotJob, storage, storageTold, sessionTold>>
  BY DEF StartSession
<1>2. /\ session \in [Tasks -> [Numbers -> {"none", "run", "left", "ended"}]]
      /\ sessions \in [Tasks -> Seq(Numbers)]
  BY DEF AppIInv, AppTypes
<1>3. /\ session' \in [Tasks -> [Numbers -> {"none", "run", "left", "ended"}]]
      /\ \A u \in Tasks, n \in Numbers :
            session'[u][n] \in {"left", "ended"}
                => session'[u][n] = session[u][n] /\ ~(u = t /\ n = s)
  <2>1. CASE UNCHANGED session
    BY <1>1, <1>2, <2>1
  <2>2. CASE session' = [session EXCEPT ![t][s] = "run"]
    <3>1. session' \in [Tasks -> [Numbers -> {"none", "run", "left", "ended"}]]
      BY <1>2, <2>2
    <3>2. \A u \in Tasks, n \in Numbers :
            session'[u][n] = IF u = t /\ n = s THEN "run" ELSE session[u][n]
      BY <1>2, <2>2
    <3> QED
      BY <3>1, <3>2
  <2> QED
    BY <1>1, <2>1, <2>2
<1>4. PICK q \in Seq(Numbers) : q = sessions[t]
  BY <1>2
<1>5. PICK a : a = Append(q, s)
  OBVIOUS
<1>6. q = sessions[t] /\ a = Append(q, s)
  BY <1>4, <1>5
<1>7. PICK l \in Nat : l = Len(q)
  OBVIOUS
<1>8. /\ a \in Seq(Numbers) /\ DOMAIN q = 1..l /\ DOMAIN a = 1..l + 1
      /\ a[l + 1] = s /\ \A i \in 1..l : a[i] = q[i]
  BY <1>6, <1>7
<1>9. sessions'[t] = a /\ \A u \in Tasks : u # t => sessions'[u] = sessions[u]
  BY <1>1, <1>2, <1>6
<1>10. sessions' \in [Tasks -> Seq(Numbers)]
  BY <1>1, <1>2, <1>6, <1>8
<1>11. AppTypes'
  BY <1>1, <1>3, <1>10 DEF AppIInv, AppTypes, AppTypeOK, NotJob, window, listener
<1>12. WindowAgrees'
  BY <1>1 DEF AppIInv, WindowAgrees, NotJob, window, listener
<1>13. ASSUME NEW u \in Tasks, NEW n \in Numbers, session'[u][n] \in {"left", "ended"}
       PROVE  \A i \in DOMAIN sessions'[u] : sessions'[u][i] # n
  <2>1. session[u][n] \in {"left", "ended"} /\ ~(u = t /\ n = s)
    BY <1>3, <1>13
  <2>2. \A i \in DOMAIN sessions[u] : sessions[u][i] # n
    BY <2>1 DEF AppIInv, LinksEnd
  <2>3. CASE u # t
    BY <1>9, <2>2, <2>3
  <2>4. CASE u = t
    <3>1. n # s /\ \A i \in 1..l : q[i] # n
      BY <1>6, <1>8, <2>1, <2>2, <2>4
    <3>2. \A i \in 1..l + 1 : i = l + 1 \/ i \in 1..l
      OBVIOUS
    <3>3. \A i \in 1..l + 1 : a[i] # n
      BY <1>8, <3>1, <3>2
    <3> QED
      BY <1>8, <1>9, <2>4, <3>3
  <2> QED
    BY <2>3, <2>4
<1>14. ASSUME NEW u \in Tasks, NEW n \in Numbers, session'[u][n] = "ended"
       PROVE  Owned(u, n)' = {}
  BY <1>1, <1>3, <1>14 DEF AppIInv, LinksEnd, Owned, NotJob, listener
<1>15. LinksEnd'
  BY <1>13, <1>14 DEF LinksEnd
<1> QED
  BY <1>11, <1>12, <1>15 DEF AppIInv

\* What leaves the links and the sessions alone.
LEMMA OtherThreads ==
  ASSUME AppIInv, NEW t \in Tasks,
         \/ InitJob(t) \/ StopSessions(t) \/ Joined(t) \/ QuitJob(t)
         \/ RegisteTask(t) \/ UnregisteTask(t) \/ EndStorage(t)
  PROVE  AppIInv'
<1>1. UNCHANGED <<window, jobs, jobTold, session, sessions, listening, linkAt, shaking, wild>>
  BY DEF InitJob, StopSessions, Joined, QuitJob, NotJob, RegisteTask, UnregisteTask, EndStorage,
         StorageStep, listener
<1>2. registered' \subseteq Tasks
  BY DEF InitJob, StopSessions, Joined, QuitJob, NotJob, RegisteTask, UnregisteTask, EndStorage,
         listener, AppIInv, AppTypes, AppTypeOK
<1>3. LinksEnd'
  BY <1>1, LinksStand DEF AppIInv
<1> QED
  BY <1>1, <1>2, <1>3 DEF AppIInv, AppTypes, AppTypeOK, WindowAgrees, window

\* A session leaves the list, then it ends and closes its links.
LEMMA SessionEnds ==
  ASSUME AppIInv, NEW t \in Tasks, NEW s \in Numbers, SessionThread(t, s)
  PROVE  AppIInv'
<1>1. UNCHANGED <<window, jobs, jobTold, listening, registered, shaking, wild>>
  BY DEF SessionThread, UnregisteSession, EndSession, SessionStep
<1>2. /\ session \in [Tasks -> [Numbers -> {"none", "run", "left", "ended"}]]
      /\ sessions \in [Tasks -> Seq(Numbers)] /\ DOMAIN linkAt = Links
  BY DEF AppIInv, AppTypes
<1>3. WindowAgrees'
  BY <1>1 DEF AppIInv, WindowAgrees, window
<1>4. CASE UnregisteSession(t, s)
  <2>1. /\ session' = [session EXCEPT ![t][s] = "left"] /\ UNCHANGED linkAt
        /\ sessions' = [sessions EXCEPT ![t] = Without(sessions[t], {s})]
    BY <1>4 DEF UnregisteSession, SessionStep, LeaveList
  <2>2. PICK q : q = Without(sessions[t], {s})
    OBVIOUS
  <2>3. /\ q \in Seq(Numbers)
        /\ \A k \in DOMAIN q : q[k] # s /\ \E i \in DOMAIN sessions[t] : sessions[t][i] = q[k]
    <3>1. PICK p \in Seq(Numbers) : p = sessions[t]
      BY <1>2
    <3>2. Without(p, {s}) \in Seq(Numbers) /\ LeftOf(Without(p, {s}), p, {s})
      BY WithoutLeaves
    <3>3. q \in Seq(Numbers) /\ LeftOf(q, p, {s})
      BY <2>2, <3>1, <3>2
    <3> QED
      BY <3>1, <3>3 DEF LeftOf
  <2>4. /\ sessions'[t] = q /\ (\A u \in Tasks : u # t => sessions'[u] = sessions[u])
        /\ sessions' \in [Tasks -> Seq(Numbers)]
    BY <1>2, <2>1, <2>2, <2>3
  <2>5. /\ session' \in [Tasks -> [Numbers -> {"none", "run", "left", "ended"}]]
        /\ \A u \in Tasks, n \in Numbers :
              \/ session'[u][n] = session[u][n]
              \/ u = t /\ n = s /\ session'[u][n] = "left"
    BY <1>2, <2>1
  <2>6. ASSUME NEW u \in Tasks, NEW n \in Numbers, session'[u][n] \in {"left", "ended"}
        PROVE  \A i \in DOMAIN sessions'[u] : sessions'[u][i] # n
    <3>1. CASE u = t /\ n = s
      BY <2>3, <2>4, <3>1
    <3>2. CASE ~(u = t /\ n = s)
      <4>1. \A i \in DOMAIN sessions[u] : sessions[u][i] # n
        BY <2>5, <2>6, <3>2 DEF AppIInv, LinksEnd
      <4>2. CASE u = t
        BY <2>3, <2>4, <4>1, <4>2
      <4>3. CASE u # t
        BY <2>4, <4>1, <4>3
      <4> QED
        BY <4>2, <4>3
    <3> QED
      BY <3>1, <3>2
  <2>7. ASSUME NEW u \in Tasks, NEW n \in Numbers, session'[u][n] = "ended"
        PROVE  Owned(u, n)' = {}
    BY <2>1, <2>5, <2>7 DEF AppIInv, LinksEnd, Owned
  <2>8. LinksEnd'
    BY <2>6, <2>7 DEF LinksEnd
  <2>9. AppTypes'
    BY <1>1, <2>1, <2>4, <2>5 DEF AppIInv, AppTypes, AppTypeOK, window
  <2> QED
    BY <1>3, <2>8, <2>9 DEF AppIInv
<1>5. CASE EndSession(t, s)
  <2>1. /\ session[t][s] = "left" /\ session' = [session EXCEPT ![t][s] = "ended"]
        /\ linkAt' = [l \in Links |-> IF l \in Owned(t, s) THEN Closed ELSE linkAt[l]]
        /\ UNCHANGED sessions
    BY <1>5 DEF EndSession, SessionStep
  <2>2. /\ session' \in [Tasks -> [Numbers -> {"none", "run", "left", "ended"}]]
        /\ \A u \in Tasks, n \in Numbers :
              session'[u][n] = session[u][n] \/ (u = t /\ n = s /\ session'[u][n] = "ended")
    BY <1>2, <2>1
  <2>3. Owned(t, s)' = {} /\ \A u \in Tasks, n \in Numbers : Owned(u, n)' \subseteq Owned(u, n)
    BY <1>2, <2>1 DEF Owned, Closed
  <2>4. LinksEnd'
    BY <2>1, <2>2, <2>3 DEF AppIInv, LinksEnd
  <2>5. DOMAIN linkAt' = Links
    BY <2>1
  <2>6. AppTypes'
    BY <1>1, <2>1, <2>2, <2>5 DEF AppIInv, AppTypes, AppTypeOK, window
  <2> QED
    BY <1>3, <2>4, <2>6 DEF AppIInv
<1> QED
  BY <1>4, <1>5 DEF SessionThread

\* A link goes to a session of the list.
LEMMA LinkMoves ==
  ASSUME AppIInv,
         \/ \E t \in Tasks, s \in Numbers, l \in Links : CheckClosedConnection(t, s, l)
         \/ \E l \in Links : NewAccept(l) \/ LinkRefused(l) \/ \E t \in Tasks : LinkGotHash(l, t)
         \/ HandshakeDone
         \/ UNCHANGED appVars
  PROVE  AppIInv'
<1>1. UNCHANGED <<window, jobs, jobTold, listening, registered, session, sessions>>
  BY DEF CheckClosedConnection, NewAccept, LinkRefused, LinkGotHash, HandshakeDone, NotLinks,
         appVars, jobThreads, listener
<1>2. wild' \in BOOLEAN /\ shaking' \in Links \cup {NoLink} /\ DOMAIN linkAt' = Links
  BY DEF CheckClosedConnection, NewAccept, LinkRefused, LinkGotHash, HandshakeDone, NotLinks,
         appVars, listener, AppIInv, AppTypes, AppTypeOK
<1>3. AppTypes' /\ WindowAgrees'
  BY <1>1, <1>2 DEF AppIInv, AppTypes, AppTypeOK, WindowAgrees, window
<1>4. ASSUME NEW u \in Tasks, NEW n \in Numbers, session[u][n] = "ended"
      PROVE  Owned(u, n)' = {}
  <2>1. Owned(u, n) = {} /\ \A i \in DOMAIN sessions[u] : sessions[u][i] # n
    BY <1>4 DEF AppIInv, LinksEnd
  <2>2. DOMAIN linkAt = Links
    BY DEF AppIInv, AppTypes
  <2>3. CASE \E l \in Links, t \in Tasks : LinkGotHash(l, t)
    <3>1. PICK l \in Links, t \in Tasks :
                \E to \in Takers(t) : linkAt' = [linkAt EXCEPT ![l] = to]
      BY <2>3 DEF LinkGotHash
    <3>2. PICK to \in Takers(t) : linkAt' = [linkAt EXCEPT ![l] = to]
      BY <3>1
    <3>3. PICK i \in DOMAIN sessions[t] : linkAt' = [linkAt EXCEPT ![l] = <<t, sessions[t][i]>>]
      BY <3>2 DEF Takers
    <3>4. <<t, sessions[t][i]>> # <<u, n>>
      BY <2>1
    <3> QED
      BY <2>1, <2>2, <3>3, <3>4 DEF Owned
  <2>4. CASE ~ \E l \in Links, t \in Tasks : LinkGotHash(l, t)
    <3>1. UNCHANGED linkAt \/ \E l \in Links, to \in {AtListener, Closed} :
                                    linkAt' = [linkAt EXCEPT ![l] = to]
      BY <2>4 DEF CheckClosedConnection, NewAccept, LinkRefused, HandshakeDone, appVars, listener
    <3>2. AtListener # <<u, n>> /\ Closed # <<u, n>>
      BY DEF AtListener, Closed
    <3> QED
      BY <2>1, <2>2, <3>1, <3>2 DEF Owned
  <2> QED
    BY <2>3, <2>4
<1>5. LinksEnd'
  BY <1>1, <1>4 DEF AppIInv, LinksEnd
<1> QED
  BY <1>3, <1>5 DEF AppIInv

LEMMA AppStep ==
  ASSUME AppIInv, [AppNext]_appVars
  PROVE  AppIInv'
<1>1. CASE User
  BY <1>1, UserSteps
<1>2. ASSUME NEW t \in Tasks, JobThread(t) \/ StorageThread(t)
      PROVE  AppIInv'
  BY <1>2, SessionStarts, OtherThreads DEF JobThread, StorageThread
<1>3. ASSUME NEW t \in Tasks, NEW s \in Numbers, SessionThread(t, s)
      PROVE  AppIInv'
  BY <1>3, SessionEnds
<1>4. CASE \/ \E t \in Tasks, s \in Numbers, l \in Links : CheckClosedConnection(t, s, l)
           \/ \E l \in Links : NewAccept(l) \/ LinkRefused(l) \/ \E t \in Tasks : LinkGotHash(l, t)
           \/ HandshakeDone
           \/ UNCHANGED appVars
  BY <1>4, LinkMoves
<1> QED
  BY <1>1, <1>2, <1>3, <1>4 DEF AppNext

LEMMA AppStart ==
  ASSUME AppInit
  PROVE  AppIInv
<1>1. /\ session \in [Tasks -> [Numbers -> {"none", "run", "left", "ended"}]]
      /\ \A t \in Tasks, s \in Numbers : session[t][s] = "none"
  BY DEF AppInit
<1>2. sessions \in [Tasks -> Seq(Numbers)]
  <2>1. <<>> \in Seq(Numbers)
    OBVIOUS
  <2> QED
    BY <2>1 DEF AppInit
<1>3. LinksEnd
  BY <1>1 DEF LinksEnd
<1> QED
  BY <1>1, <1>2, <1>3 DEF AppInit, AppIInv, AppTypes, AppTypeOK, WindowAgrees

\* The window and the plug-in agree on what runs, and no session that has ended
\* keeps a link, for any tasks, sessions and links (MainFrm.cpp:1456,
\* BTSession.cpp:180).
THEOREM NothingLeftBehind == AppSpec => []ApplicationInv
<1>1. AppInit => AppIInv
  BY AppStart
<1>2. AppIInv /\ [AppNext]_appVars => AppIInv'
  BY AppStep
<1>3. AppIInv => ApplicationInv
  BY DEF AppIInv, AppTypes, LinksEnd, ApplicationInv, NoLinkLeftBehind
<1> QED
  BY <1>1, <1>2, <1>3, PTL DEF AppSpec

-----------------------------------------------------------------------------
(* Sockets and timers.                                                     *)

Timer == [id : Nat, client : Socks \cup {Marked, Owner}]

Shape(w) ==
    w \in [sock : [Socks -> Sock], sockList : Seq(Socks \cup {Marked}), sockPending : Seq(Socks),
          timers : Seq(Timer), fresh : Seq(Timer), counter : 0..MaxTimers,
          astray : SUBSET Socks, torn : BOOLEAN]

\* The socket has a handle and belongs to this dealer.
Here(w, s) == w.sock[s].handle # 0 /\ w.sock[s].here

\* It is to stand in the lists.
Listed(w, s) == Here(w, s) /\ s \notin w.astray

Count(w, s) == Times(w.sockList, s) + Times(w.sockPending, s)

\* The timers of sockets.
LiveIn(w) == {t \in ToSet(w.timers) \cup ToSet(w.fresh) : t.client \in Socks}

WorldOK(w) ==
    /\ Shape(w)
    /\ \A s \in Socks : Count(w, s) = IF Listed(w, s) THEN 1 ELSE 0
    /\ \A t \in LiveIn(w) : w.sock[t.client].timer = t.id /\ Here(w, t.client)

LEMMA ShapeFields ==
  ASSUME NEW w, Shape(w)
  PROVE  /\ w.sock \in [Socks -> Sock] /\ w.sockList \in Seq(Socks \cup {Marked})
         /\ w.sockPending \in Seq(Socks) /\ w.timers \in Seq(Timer) /\ w.fresh \in Seq(Timer)
         /\ w.counter \in 0..MaxTimers /\ w.astray \in SUBSET Socks /\ w.torn \in BOOLEAN
BY DEF Shape

\* Marking takes a socket off the list and leaves the others there.
Marks(q, s) == [i \in DOMAIN q |-> IF q[i] = s THEN Marked ELSE q[i]]

LEMMA MarkTimes ==
  ASSUME NEW q \in Seq(Socks \cup {Marked}), NEW s \in Socks, NEW e \in Socks, Marked \notin Socks
  PROVE  /\ Marks(q, s) \in Seq(Socks \cup {Marked})
         /\ Times(Marks(q, s), e) = IF e = s THEN 0 ELSE Times(q, e)
<1> DEFINE m == Marks(q, s)
<1>1. PICK n \in Nat : n = Len(q)
  OBVIOUS
<1>2. DOMAIN q = 1..n /\ \A i \in 1..n : q[i] \in Socks \cup {Marked}
  BY <1>1
<1>3. m \in [1..n -> Socks \cup {Marked}] /\ \A i \in 1..n : m[i] = IF q[i] = s THEN Marked ELSE q[i]
  BY <1>2 DEF Marks
<1> HIDE DEF m
<1>4. m \in Seq(Socks \cup {Marked}) /\ DOMAIN m = 1..n
  BY <1>3
<1>5. CASE e = s
  <2>1. {i \in DOMAIN m : m[i] = e} = {}
    BY <1>2, <1>3, <1>4, <1>5
  <2> QED
    BY <1>4, <1>5, <2>1, FS_EmptySet DEF Times, m
<1>6. CASE e # s
  <2>1. {i \in DOMAIN m : m[i] = e} = {i \in DOMAIN q : q[i] = e}
    BY <1>2, <1>3, <1>4, <1>6
  <2> QED
    BY <1>4, <1>6, <2>1 DEF Times, m
<1> QED
  BY <1>5, <1>6

\* u is w, except that s is gone from the lists of sockets.
UnlistedIn(u, w, s) ==
    /\ Shape(u) /\ u.sock = w.sock /\ u.timers = w.timers /\ u.fresh = w.fresh
    /\ u.counter = w.counter /\ u.astray = w.astray
    /\ \A e \in Socks : Count(u, e) = IF e = s THEN 0 ELSE Count(w, e)

\* A socket that stands in the lists once is gone from both.
LEMMA Unlisted ==
  ASSUME DealerAssumption, NEW w, Shape(w), NEW s \in Socks, Count(w, s) <= 1
  PROVE  UnlistedIn(RemoveSockClient(w, s), w, s)
<1>1. PICK u : u = RemoveSockClient(w, s)
  OBVIOUS
<1>2. /\ w.sock \in [Socks -> Sock] /\ w.sockList \in Seq(Socks \cup {Marked})
      /\ w.sockPending \in Seq(Socks) /\ w.timers \in Seq(Timer) /\ w.fresh \in Seq(Timer)
      /\ w.counter \in 0..MaxTimers
  BY ShapeFields
<1>3. \A e \in Socks : Times(w.sockList, e) \in Nat /\ Times(w.sockPending, e) \in Nat
  BY <1>2, TimesType
<1>4. CASE s \in ToSet(w.sockList)
  <2>1. PICK m : m = Marks(w.sockList, s)
    OBVIOUS
  <2>2. u = [w EXCEPT !.sockList = m]
    BY <1>1, <1>4, <2>1 DEF RemoveSockClient, Marks
  <2>3. /\ m \in Seq(Socks \cup {Marked})
        /\ \A e \in Socks : Times(m, e) = IF e = s THEN 0 ELSE Times(w.sockList, e)
    <3>1. \A e \in Socks : m \in Seq(Socks \cup {Marked})
                           /\ Times(m, e) = IF e = s THEN 0 ELSE Times(w.sockList, e)
      BY <1>2, <2>1, MarkTimes DEF DealerAssumption
    <3> QED
      BY <3>1
  <2>4. /\ u.sock = w.sock /\ u.timers = w.timers /\ u.fresh = w.fresh /\ u.counter = w.counter
        /\ u.astray = w.astray /\ u.sockList = m /\ u.sockPending = w.sockPending /\ Shape(u)
    BY <2>2, <2>3 DEF Shape
  <2>5. Times(w.sockPending, s) = 0
    <3>1. Times(w.sockList, s) # 0
      <4>1. \E i \in DOMAIN w.sockList : w.sockList[i] = s
        BY <1>4 DEF ToSet
      <4> QED
        BY <1>2, <4>1, TimesType
    <3> QED
      BY <1>3, <3>1 DEF Count
  <2>6. \A e \in Socks : Count(u, e) = IF e = s THEN 0 ELSE Count(w, e)
    BY <1>3, <2>3, <2>4, <2>5 DEF Count
  <2> QED
    BY <1>1, <2>4, <2>6 DEF UnlistedIn
<1>5. CASE s \notin ToSet(w.sockList)
  <2>1. PICK m : m = Without(w.sockPending, {s})
    OBVIOUS
  <2>2. u = [w EXCEPT !.sockPending = m]
    BY <1>1, <1>5, <2>1 DEF RemoveSockClient
  <2>3. /\ m \in Seq(Socks)
        /\ \A e \in Socks : Times(m, e) = IF e = s THEN 0 ELSE Times(w.sockPending, e)
    <3>1. m \in Seq(Socks)
      BY <1>2, <2>1, WithoutLeaves
    <3>2. \A e \in Socks : Times(m, e) = IF e \in {s} THEN 0 ELSE Times(w.sockPending, e)
      BY <1>2, <2>1, TimesWithout
    <3> QED
      BY <3>1, <3>2
  <2>4. /\ u.sock = w.sock /\ u.timers = w.timers /\ u.fresh = w.fresh /\ u.counter = w.counter
        /\ u.astray = w.astray /\ u.sockPending = m /\ u.sockList = w.sockList /\ Shape(u)
    BY <2>2, <2>3 DEF Shape
  <2>5. Times(w.sockList, s) = 0
    <3>1. \A i \in DOMAIN w.sockList : w.sockList[i] # s
      BY <1>5 DEF ToSet
    <3> QED
      BY <1>2, <3>1, TimesType
  <2>6. \A e \in Socks : Count(u, e) = IF e = s THEN 0 ELSE Count(w, e)
    BY <1>3, <2>3, <2>4, <2>5 DEF Count
  <2> QED
    BY <1>1, <2>4, <2>6 DEF UnlistedIn
<1> QED
  BY <1>4, <1>5

\* Timers of S are marked and none of them goes on for a socket.
LEMMA UnclaimedLive ==
  ASSUME DealerAssumption, NEW ts \in Seq(Timer), NEW S, NEW u, u = Unclaimed(ts, S)
  PROVE  /\ u \in Seq(Timer)
         /\ \A t \in ToSet(u) : t.client \in Socks => t \in ToSet(ts) /\ t \notin S
<1>1. PICK n \in Nat : n = Len(ts)
  OBVIOUS
<1>2. DOMAIN ts = 1..n /\ \A i \in 1..n : ts[i] \in Timer
  BY <1>1
<1>3. u = [i \in 1..n |-> IF ts[i] \in S THEN [ts[i] EXCEPT !.client = Marked] ELSE ts[i]]
  BY <1>2 DEF Unclaimed
<1>4. \A i \in 1..n : [ts[i] EXCEPT !.client = Marked] \in Timer
                     /\ [ts[i] EXCEPT !.client = Marked].client = Marked
  BY <1>2 DEF Timer
<1>5. u \in [1..n -> Timer]
  BY <1>2, <1>3, <1>4
<1>6. u \in Seq(Timer) /\ DOMAIN u = 1..n
  BY <1>5
<1>7. ASSUME NEW t \in ToSet(u), t.client \in Socks
      PROVE  t \in ToSet(ts) /\ t \notin S
  <2>1. PICK i \in 1..n : t = u[i]
    BY <1>6 DEF ToSet
  <2>2. ts[i] \notin S /\ t = ts[i]
    BY <1>3, <1>4, <1>7, <2>1 DEF DealerAssumption
  <2> QED
    BY <1>2, <2>2 DEF ToSet
<1> QED
  BY <1>6, <1>7

LEMMA WithoutLive ==
  ASSUME NEW ts \in Seq(Timer), NEW S, NEW u, u = Without(ts, S)
  PROVE  u \in Seq(Timer) /\ \A t \in ToSet(u) : t \in ToSet(ts) /\ t \notin S
<1>1. u \in Seq(Timer) /\ LeftOf(u, ts, S)
  BY WithoutLeaves
<1> QED
  BY <1>1 DEF LeftOf, ToSet

\* u is w, except that timers are gone and none has come.
UntimedIn(u, w) ==
    /\ Shape(u) /\ u.sock = w.sock /\ u.sockList = w.sockList
    /\ u.sockPending = w.sockPending /\ u.counter = w.counter /\ u.astray = w.astray
    /\ LiveIn(u) \subseteq LiveIn(w)

\* The timers of S and of F are taken away.
Cut(w, S, F) == [w EXCEPT !.timers = Unclaimed(@, S), !.fresh = Without(@, F)]

LEMMA Untimed ==
  ASSUME DealerAssumption, NEW w, Shape(w), NEW S, NEW F
  PROVE  /\ UntimedIn(Cut(w, S, F), w)
         /\ \A t \in LiveIn(Cut(w, S, F)) :
                \/ t \in ToSet(w.timers) /\ t \notin S
                \/ t \in ToSet(w.fresh) /\ t \notin F
<1>1. w.timers \in Seq(Timer) /\ w.fresh \in Seq(Timer)
  BY ShapeFields
<1>2. PICK a : a = Unclaimed(w.timers, S)
  OBVIOUS
<1>3. PICK b : b = Without(w.fresh, F)
  OBVIOUS
<1>4. PICK u : u = Cut(w, S, F)
  OBVIOUS
<1>5. a \in Seq(Timer) /\ \A t \in ToSet(a) : t.client \in Socks => t \in ToSet(w.timers) /\ t \notin S
  BY <1>1, <1>2, UnclaimedLive
<1>6. b \in Seq(Timer) /\ \A t \in ToSet(b) : t \in ToSet(w.fresh) /\ t \notin F
  BY <1>1, <1>3, WithoutLive
<1>7. u = [w EXCEPT !.timers = a, !.fresh = b]
  BY <1>2, <1>3, <1>4 DEF Cut
<1>8. /\ Shape(u) /\ u.sock = w.sock /\ u.sockList = w.sockList
      /\ u.sockPending = w.sockPending /\ u.counter = w.counter /\ u.astray = w.astray
      /\ u.timers = a /\ u.fresh = b
  BY <1>5, <1>6, <1>7 DEF Shape
<1>9. \A t \in LiveIn(u) : /\ t \in LiveIn(w)
                          /\ \/ t \in ToSet(w.timers) /\ t \notin S
                             \/ t \in ToSet(w.fresh) /\ t \notin F
  BY <1>5, <1>6, <1>8 DEF LiveIn
<1>10. UntimedIn(u, w)
  BY <1>8, <1>9 DEF UntimedIn
<1> QED
  BY <1>4, <1>9, <1>10

\* Nobody's timers go on for s.
LEMMA ClientUntimed ==
  ASSUME DealerAssumption, NEW w, Shape(w), NEW s \in Socks
  PROVE  /\ UntimedIn(RemoveTimerClient(w, s), w)
         /\ \A t \in LiveIn(RemoveTimerClient(w, s)) : t.client # s
<1>1. PICK S : S = Claimed(w.timers, s)
  OBVIOUS
<1>2. PICK F : F = Claimed(w.fresh, s)
  OBVIOUS
<1>3. RemoveTimerClient(w, s) = Cut(w, S, F)
  BY <1>1, <1>2 DEF RemoveTimerClient, Cut
<1>4. \A t : (t \in ToSet(w.timers) /\ t \notin S) \/ (t \in ToSet(w.fresh) /\ t \notin F) => t.client # s
  BY <1>1, <1>2 DEF Claimed
<1>5. /\ UntimedIn(Cut(w, S, F), w)
      /\ \A t \in LiveIn(Cut(w, S, F)) :
            \/ t \in ToSet(w.timers) /\ t \notin S
            \/ t \in ToSet(w.fresh) /\ t \notin F
  BY Untimed
<1> QED
  BY <1>3, <1>4, <1>5

\* The timer with the number is gone.
LEMMA NumberUntimed ==
  ASSUME DealerAssumption, NEW w, Shape(w), NEW id
  PROVE  /\ UntimedIn(RemoveTimer(w, id), w)
         /\ \A t \in LiveIn(RemoveTimer(w, id)) : t.id # id
<1>1. PICK S : S = Numbered(w.timers, id)
  OBVIOUS
<1>2. PICK F : F = Numbered(w.fresh, id)
  OBVIOUS
<1>3. RemoveTimer(w, id) = Cut(w, S, F)
  BY <1>1, <1>2 DEF RemoveTimer, Cut
<1>4. \A t : (t \in ToSet(w.timers) /\ t \notin S) \/ (t \in ToSet(w.fresh) /\ t \notin F) => t.id # id
  BY <1>1, <1>2 DEF Numbered
<1>5. /\ UntimedIn(Cut(w, S, F), w)
      /\ \A t \in LiveIn(Cut(w, S, F)) :
            \/ t \in ToSet(w.timers) /\ t \notin S
            \/ t \in ToSet(w.fresh) /\ t \notin F
  BY Untimed
<1> QED
  BY <1>3, <1>4, <1>5

\* Socket s changed in a way that takes it away, and its lists and timers are cleaned.
LEMMA GoesAway ==
  ASSUME DealerAssumption, NEW w, WorldOK(w), NEW s \in Socks,
         NEW x \in Sock, ~(x.handle # 0 /\ x.here),
         NEW v, v = [w EXCEPT !.sock = [w.sock EXCEPT ![s] = x]],
         NEW u, u = RemoveTimerClient(RemoveSockClient(v, s), s)
  PROVE  /\ WorldOK(u) /\ u.sock = [w.sock EXCEPT ![s] = x] /\ u.counter = w.counter
         /\ \A t \in LiveIn(u) : t.client # s
<1>1. w.sock \in [Socks -> Sock] /\ Shape(w)
  BY ShapeFields DEF WorldOK
<1>2. /\ Shape(v) /\ v.sock = [w.sock EXCEPT ![s] = x] /\ v.sockList = w.sockList
      /\ v.sockPending = w.sockPending /\ v.timers = w.timers /\ v.fresh = w.fresh
      /\ v.counter = w.counter /\ v.astray = w.astray
  BY <1>1 DEF Shape
<1>3. \A e \in Socks : Count(v, e) = Count(w, e) /\ Count(w, e) = IF Listed(w, e) THEN 1 ELSE 0
  BY <1>2 DEF Count, WorldOK
<1>4. Count(v, s) <= 1
  BY <1>3
<1>5. PICK r : r = RemoveSockClient(v, s)
  OBVIOUS
<1>6. /\ Shape(r) /\ r.sock = v.sock /\ r.timers = v.timers /\ r.fresh = v.fresh
      /\ r.counter = v.counter /\ r.astray = v.astray
      /\ \A e \in Socks : Count(r, e) = IF e = s THEN 0 ELSE Count(v, e)
  <2>1. UnlistedIn(RemoveSockClient(v, s), v, s)
    BY <1>2, <1>4, Unlisted
  <2>2. UnlistedIn(r, v, s)
    BY <1>5, <2>1
  <2> QED
    BY <2>2 DEF UnlistedIn
<1>7. u = RemoveTimerClient(r, s)
  BY <1>5
<1>8. /\ Shape(u) /\ u.sock = r.sock /\ u.sockList = r.sockList
      /\ u.sockPending = r.sockPending /\ u.counter = r.counter /\ u.astray = r.astray
      /\ \A t \in LiveIn(u) : t \in LiveIn(r) /\ t.client # s
  <2>1. /\ UntimedIn(RemoveTimerClient(r, s), r)
        /\ \A t \in LiveIn(RemoveTimerClient(r, s)) : t.client # s
    BY <1>6, ClientUntimed
  <2>2. UntimedIn(u, r) /\ \A t \in LiveIn(u) : t.client # s
    BY <1>7, <2>1
  <2> QED
    BY <2>2 DEF UntimedIn
<1>9. u.sock = [w.sock EXCEPT ![s] = x] /\ u.counter = w.counter
  BY <1>2, <1>6, <1>8
<1>10. u.sock[s] = x /\ \A e \in Socks : e # s => u.sock[e] = w.sock[e]
  BY <1>1, <1>9
<1>11. \A e \in Socks : Count(u, e) = IF Listed(u, e) THEN 1 ELSE 0
  <2>1. \A e \in Socks : Count(u, e) = Count(r, e)
    BY <1>8 DEF Count
  <2>2. ~Listed(u, s) /\ \A e \in Socks : e # s => (Listed(u, e) <=> Listed(w, e))
    BY <1>2, <1>6, <1>8, <1>10 DEF Here, Listed
  <2> QED
    BY <1>3, <1>6, <2>1, <2>2
<1>12. \A t \in LiveIn(u) : u.sock[t.client].timer = t.id /\ Here(u, t.client)
  <2>1. ASSUME NEW t \in LiveIn(u)
        PROVE  u.sock[t.client].timer = t.id /\ Here(u, t.client)
    <3>1. t \in LiveIn(w) /\ t.client # s /\ t.client \in Socks
      BY <1>2, <1>6, <1>8 DEF LiveIn
    <3>2. w.sock[t.client].timer = t.id /\ Here(w, t.client)
      BY <3>1 DEF WorldOK
    <3> QED
      BY <1>10, <3>1, <3>2 DEF Here
  <2> QED
    BY <2>1
<1> QED
  BY <1>8, <1>9, <1>11, <1>12 DEF WorldOK

LEMMA Closes ==
  ASSUME DealerAssumption, NEW w, WorldOK(w), NEW s \in Socks, NEW u, u = CloseSock(w, s)
  PROVE  /\ WorldOK(u) /\ u.counter = w.counter /\ u.sock[s].handle = 0
         /\ \A e \in Socks : e # s => u.sock[e] = w.sock[e]
         /\ \A t \in LiveIn(u) : t.client # s
<1>1. w.sock \in [Socks -> Sock] /\ Shape(w)
  BY ShapeFields DEF WorldOK
<1>2. PICK x : x = [w.sock[s] EXCEPT !.handle = 0, !.read = FALSE, !.write = FALSE]
  OBVIOUS
<1>3. w.sock[s] \in Sock
  BY <1>1
<1>4. x \in Sock /\ x.handle = 0
  BY <1>2, <1>3 DEF Sock
<1>5. PICK v : v = [w EXCEPT !.sock[s] = Shut(w.sock[s])]
  OBVIOUS
<1>6. v = [w EXCEPT !.sock = [w.sock EXCEPT ![s] = x]]
  BY <1>1, <1>2, <1>5 DEF Shut
<1>7. u = RemoveTimerClient(RemoveSockClient(v, s), s)
  BY <1>5 DEF CloseSock
<1>8. /\ WorldOK(u) /\ u.sock = [w.sock EXCEPT ![s] = x] /\ u.counter = w.counter
      /\ \A t \in LiveIn(u) : t.client # s
  BY <1>4, <1>6, <1>7, GoesAway
<1> QED
  BY <1>1, <1>4, <1>8

LEMMA HandsOn ==
  ASSUME DealerAssumption, NEW w, WorldOK(w), NEW s \in Socks, NEW u, u = SetNoDealer(w, s)
  PROVE  /\ WorldOK(u) /\ u.counter = w.counter
         /\ \A e \in Socks : e # s => u.sock[e] = w.sock[e]
<1>1. w.sock \in [Socks -> Sock] /\ Shape(w)
  BY ShapeFields DEF WorldOK
<1>2. PICK x : x = [w.sock[s] EXCEPT !.here = FALSE]
  OBVIOUS
<1>3. w.sock[s] \in Sock
  BY <1>1
<1>4. x \in Sock /\ x.here = FALSE
  BY <1>2, <1>3 DEF Sock
<1>5. PICK v : v = [w EXCEPT !.sock[s].here = FALSE]
  OBVIOUS
<1>6. v = [w EXCEPT !.sock = [w.sock EXCEPT ![s] = x]]
  BY <1>1, <1>2, <1>3, <1>5 DEF Shape, Sock
<1>7. u = RemoveTimerClient(RemoveSockClient(v, s), s)
  BY <1>5 DEF SetNoDealer
<1>8. WorldOK(u) /\ u.sock = [w.sock EXCEPT ![s] = x] /\ u.counter = w.counter
  BY <1>4, <1>6, <1>7, GoesAway
<1> QED
  BY <1>1, <1>8

\* u is w, except that s, which stood nowhere, stands in the lists or went astray.
AddedIn(u, w, s) ==
    /\ Shape(u) /\ u.sock = w.sock /\ u.timers = w.timers /\ u.fresh = w.fresh
    /\ u.counter = w.counter
    /\ Count(u, s) = IF s \in u.astray THEN 0 ELSE 1
    /\ \A e \in Socks : e # s => Count(u, e) = Count(w, e) /\ (e \in u.astray <=> e \in w.astray)

LEMMA Strays ==
  ASSUME NEW w, Shape(w), NEW s \in Socks, Count(w, s) = 0, NEW u, u = GoesAstray(w, {s})
  PROVE  AddedIn(u, w, s)
<1>1. PICK a : a = w.astray \cup {s}
  OBVIOUS
<1>2. a \in SUBSET Socks /\ s \in a /\ \A e \in Socks : e # s => (e \in a <=> e \in w.astray)
  BY <1>1, ShapeFields
<1>3. u = [w EXCEPT !.astray = a]
  BY <1>1 DEF GoesAstray
<1>4. /\ Shape(u) /\ u.sock = w.sock /\ u.sockList = w.sockList /\ u.sockPending = w.sockPending
      /\ u.timers = w.timers /\ u.fresh = w.fresh /\ u.counter = w.counter /\ u.astray = a
  BY <1>2, <1>3 DEF Shape
<1>5. \A e \in Socks : Count(u, e) = Count(w, e)
  BY <1>4 DEF Count
<1> QED
  BY <1>2, <1>4, <1>5 DEF AddedIn

LEMMA Adds ==
  ASSUME NEW w, Shape(w), NEW s \in Socks, Count(w, s) = 0, NEW u, u = AddSockClient(w, s)
  PROVE  AddedIn(u, w, s)
<1>1. CASE w.torn
  BY <1>1, Strays DEF AddSockClient
<1>2. CASE ~w.torn
  <2>1. PICK p : p = Append(w.sockPending, s)
    OBVIOUS
  <2>2. PICK a : a = w.astray \ {s}
    OBVIOUS
  <2>3. w.sockPending \in Seq(Socks) /\ w.sockList \in Seq(Socks \cup {Marked}) /\ w.astray \in SUBSET Socks
    BY ShapeFields
  <2>4. p \in Seq(Socks) /\ a \in SUBSET Socks /\ s \notin a
        /\ \A e \in Socks : e # s => (e \in a <=> e \in w.astray)
    BY <2>1, <2>2, <2>3
  <2>5. u = [w EXCEPT !.sockPending = p, !.astray = a]
    BY <1>2, <2>1, <2>2 DEF AddSockClient
  <2>6. /\ Shape(u) /\ u.sock = w.sock /\ u.sockList = w.sockList /\ u.sockPending = p
        /\ u.timers = w.timers /\ u.fresh = w.fresh /\ u.counter = w.counter /\ u.astray = a
    BY <2>4, <2>5 DEF Shape
  <2>7. \A e \in Socks : Count(u, e) = Count(w, e) + (IF s = e THEN 1 ELSE 0)
    <3>1. \A e \in Socks : Times(p, e) = Times(w.sockPending, e) + (IF s = e THEN 1 ELSE 0)
      BY <2>1, <2>3, TimesAppend
    <3>2. \A e \in Socks : Times(w.sockList, e) \in Nat /\ Times(w.sockPending, e) \in Nat
      BY <2>3, TimesType
    <3> QED
      BY <2>6, <3>1, <3>2 DEF Count
  <2>8. \A e \in Socks : Count(w, e) \in Nat
    <3>1. \A e \in Socks : Times(w.sockList, e) \in Nat /\ Times(w.sockPending, e) \in Nat
      BY <2>3, TimesType
    <3> QED
      BY <3>1 DEF Count
  <2> QED
    BY <2>4, <2>6, <2>7, <2>8 DEF AddedIn
<1> QED
  BY <1>1, <1>2

\* There is a free handle: fewer other sockets have one than there are handles.
LEMMA HandleFree ==
  ASSUME DealerAssumption, NEW w, Shape(w), NEW s \in Socks, w.sock[s].handle = 0
  PROVE  FreeHandle(w) \in Handles
<1> DEFINE Taken(h) == \E t \in Socks : w.sock[t].handle = h
           Left == {h \in Handles : ~Taken(h)}
<1>1. PICK n \in Nat : n = Cardinality(Socks) /\ Handles = 1..n
  BY FS_CardinalityType DEF DealerAssumption, Handles
<1>2. Left # {}
  <2>1. SUFFICES ASSUME \A h \in Handles : Taken(h)
                 PROVE  FALSE
    OBVIOUS
  <2>2. PICK f : f = [h \in Handles |-> CHOOSE t \in Socks : w.sock[t].handle = h]
    OBVIOUS
  <2>3. \A h \in Handles : f[h] \in Socks /\ w.sock[f[h]].handle = h
    BY <2>1, <2>2
  <2>4. \A h \in Handles : h # 0
    BY <1>1
  <2>5. f \in [Handles -> Socks \ {s}]
    BY <2>2, <2>3, <2>4
  <2>6. IsFiniteSet(Handles) /\ Cardinality(Handles) = n
    BY <1>1, FS_Interval
  <2>7. IsFiniteSet(Socks \ {s}) /\ Cardinality(Socks \ {s}) = n - 1
    BY <1>1, FS_RemoveElement DEF DealerAssumption
  <2>8. PICK g, h \in Handles : g # h /\ f[g] = f[h]
    <3>1. Cardinality(Socks \ {s}) < Cardinality(Handles)
      BY <2>6, <2>7
    <3> QED
      BY <2>5, <2>6, <2>7, <3>1, FS_PigeonHole
  <2> QED
    BY <2>3, <2>8
<1>3. PICK h \in Left : \A g \in Left : h <= g
  <2>1. Left \subseteq Nat
    BY <1>1
  <2> HIDE DEF Left
  <2> QED
    BY <1>2, <2>1, Least
<1>4. h \in Handles /\ (\A t \in Socks : w.sock[t].handle # h)
      /\ \A g \in 1..h-1 : \E t \in Socks : w.sock[t].handle = g
  <2>1. \A g \in 1..h-1 : g \in Handles /\ g \notin Left
    BY <1>1, <1>3
  <2> QED
    BY <1>3, <2>1
<1> QED
  BY <1>4 DEF FreeHandle

\* A closed socket is opened and connects; its time-out is the only timer it has.
LEMMA Opens ==
  ASSUME DealerAssumption, NEW w, WorldOK(w), NEW s \in Socks, w.sock[s].handle = 0,
         w.counter < MaxTimers, NEW u, u = Connect(CreateSock(w, s), s)
  PROVE  WorldOK(u) /\ \A e \in Socks : e # s => u.sock[e] = w.sock[e]
<1>1. /\ w.sock \in [Socks -> Sock] /\ w.sockList \in Seq(Socks \cup {Marked})
      /\ w.sockPending \in Seq(Socks) /\ w.timers \in Seq(Timer) /\ w.fresh \in Seq(Timer)
      /\ w.counter \in 0..MaxTimers /\ Shape(w)
  BY ShapeFields DEF WorldOK
<1>2. PICK h \in Handles : h = FreeHandle(w)
  BY <1>1, HandleFree
<1>3. h # 0 /\ MaxTimers \in Nat
  BY FS_CardinalityType DEF Handles, DealerAssumption
<1>4. PICK x : x = [w.sock[s] EXCEPT !.handle = h, !.here = TRUE, !.read = FALSE, !.write = TRUE,
                                     !.timer = w.counter + 1, !.told = "nothing"]
  OBVIOUS
<1>5. w.sock[s] \in Sock
  BY <1>1
<1>6. w.counter + 1 \in 0..MaxTimers /\ w.counter + 1 \in Nat
  BY <1>1, <1>3
<1>7. x \in Sock /\ x.handle = h /\ x.here = TRUE /\ x.timer = w.counter + 1
  BY <1>4, <1>5, <1>6 DEF Sock
<1>8. PICK t : t = [id |-> w.counter + 1, client |-> s]
  OBVIOUS
<1>9. t \in Timer /\ t.id = w.counter + 1 /\ t.client = s
  BY <1>6, <1>8 DEF Timer
<1>10. PICK y : y = [Shut(w.sock[s]) EXCEPT !.handle = h, !.here = TRUE]
  OBVIOUS
<1>11. PICK q : q = Append(w.fresh, t)
  OBVIOUS
<1>12. PICK o : o = [w EXCEPT !.sock = [w.sock EXCEPT ![s] = y]]
  OBVIOUS
<1>13. PICK v : v = AddSockClient(o, s)
  OBVIOUS
<1>14. y = [w.sock[s] EXCEPT !.handle = h, !.here = TRUE, !.read = FALSE, !.write = FALSE] /\ y \in Sock
  BY <1>5, <1>10 DEF Shut, Sock
<1>15. /\ Shape(o) /\ o.sock = [w.sock EXCEPT ![s] = y] /\ o.sockList = w.sockList
       /\ o.sockPending = w.sockPending /\ o.timers = w.timers /\ o.fresh = w.fresh
       /\ o.counter = w.counter /\ o.astray = w.astray
  BY <1>1, <1>12, <1>14 DEF Shape
<1>23. \A e \in Socks : Count(o, e) = Count(w, e)
  BY <1>15 DEF Count
<1>24. Count(o, s) = 0
  BY <1>23 DEF WorldOK, Listed, Here
<1>25. /\ Shape(v) /\ v.sock = o.sock /\ v.timers = w.timers /\ v.fresh = w.fresh
       /\ v.counter = w.counter
       /\ Count(v, s) = IF s \in v.astray THEN 0 ELSE 1
       /\ \A e \in Socks : e # s => Count(v, e) = Count(w, e) /\ (e \in v.astray <=> e \in w.astray)
  BY <1>13, <1>15, <1>23, <1>24, Adds DEF AddedIn
<1>16. u = [v EXCEPT !.sock = [v.sock EXCEPT ![s] = x], !.counter = w.counter + 1, !.fresh = q]
  <2>1. v.sock[s] = y /\ v.sock \in [Socks -> Sock]
    BY <1>1, <1>14, <1>15, <1>25
  <2>2. x = [v.sock[s] EXCEPT !.write = TRUE, !.read = FALSE, !.timer = v.counter + 1,
                              !.told = "nothing"]
    <3>1. v.counter = w.counter /\ v.sock[s] = [w.sock[s] EXCEPT !.handle = h, !.here = TRUE,
                                                    !.read = FALSE, !.write = FALSE]
      BY <1>14, <1>25, <2>1
    <3> QED
      BY <1>4, <1>5, <3>1 DEF Sock
  <2>3. PICK b : b = [v EXCEPT !.sock[s] = [v.sock[s] EXCEPT !.write = TRUE, !.read = FALSE,
                                  !.timer = v.counter + 1, !.told = "nothing"]]
    OBVIOUS
  <2>4. v = CreateSock(w, s)
    BY <1>2, <1>10, <1>12, <1>13 DEF CreateSock
  <2>5. b = [v EXCEPT !.sock = [v.sock EXCEPT ![s] = x]]
    BY <2>2, <2>3
  <2>6. u = [b EXCEPT !.counter = b.counter + 1, !.fresh = Append(b.fresh, [id |-> b.counter + 1, client |-> s])]
    BY <2>3, <2>4 DEF Connect, StartTimer
  <2>7. b.counter = w.counter /\ b.fresh = w.fresh
    BY <1>25, <2>5 DEF Shape
  <2> QED
    BY <1>8, <1>11, <1>25, <2>5, <2>6, <2>7 DEF Shape
<1>17. /\ u.sock = [w.sock EXCEPT ![s] = x] /\ u.sockList = v.sockList /\ u.sockPending = v.sockPending
       /\ u.timers = w.timers /\ u.fresh = q /\ u.astray = v.astray
  <2>1. [v.sock EXCEPT ![s] = x] = [w.sock EXCEPT ![s] = x]
    BY <1>1, <1>15, <1>25
  <2> QED
    BY <1>16, <1>25, <2>1 DEF Shape
<1>18. Shape(u)
  <2>1. q \in Seq(Timer)
    BY <1>1, <1>9, <1>11
  <2>2. PICK f : f = [v.sock EXCEPT ![s] = x]
    OBVIOUS
  <2>3. f \in [Socks -> Sock]
    BY <1>7, <1>25, <2>2 DEF Shape
  <2>4. u = [v EXCEPT !.sock = f, !.counter = w.counter + 1, !.fresh = q]
    BY <1>16, <2>2
  <2> QED
    BY <1>6, <1>25, <2>1, <2>3, <2>4 DEF Shape
<1>19. u.sock[s] = x /\ \A e \in Socks : e # s => u.sock[e] = w.sock[e]
  BY <1>1, <1>17
<1>20. \A e \in Socks : Count(u, e) = IF Listed(u, e) THEN 1 ELSE 0
  <2>1. \A e \in Socks : Count(u, e) = Count(v, e)
    BY <1>17 DEF Count
  <2>2. Listed(u, s) <=> s \notin v.astray
    BY <1>3, <1>7, <1>17, <1>19 DEF Here, Listed
  <2>3. \A e \in Socks : e # s => (Listed(u, e) <=> Listed(w, e))
    BY <1>17, <1>19, <1>25 DEF Here, Listed
  <2>4. \A e \in Socks : Count(w, e) = IF Listed(w, e) THEN 1 ELSE 0
    BY DEF WorldOK
  <2>5. Count(u, s) = IF Listed(u, s) THEN 1 ELSE 0
    BY <1>25, <2>1, <2>2
  <2>6. \A e \in Socks : e # s => Count(u, e) = IF Listed(u, e) THEN 1 ELSE 0
    BY <1>25, <2>1, <2>3, <2>4
  <2> QED
    BY <2>5, <2>6
<1>21. \A a \in LiveIn(u) : a = t \/ a \in LiveIn(w)
  <2>1. PICK n \in Nat : n = Len(w.fresh)
    BY <1>1
  <2>2. /\ DOMAIN w.fresh = 1..n /\ DOMAIN q = 1..n + 1
        /\ q[n + 1] = t /\ \A i \in 1..n : q[i] = w.fresh[i]
    BY <1>1, <1>11, <2>1
  <2>3. \A a \in ToSet(q) : a = t \/ a \in ToSet(w.fresh)
    <3>1. \A i \in 1..n + 1 : i = n + 1 \/ i \in 1..n
      OBVIOUS
    <3>2. \A i \in DOMAIN q : q[i] = t \/ \E j \in DOMAIN w.fresh : q[i] = w.fresh[j]
      BY <2>2, <3>1
    <3> QED
      BY <3>2 DEF ToSet
  <2> QED
    BY <1>17, <2>3 DEF LiveIn
<1>22. \A a \in LiveIn(u) : u.sock[a.client].timer = a.id /\ Here(u, a.client)
  <2>1. \A a \in LiveIn(w) : /\ a.client \in Socks /\ a.client # s
                            /\ w.sock[a.client].timer = a.id /\ Here(w, a.client)
    BY DEF WorldOK, Here, LiveIn
  <2>2. \A a \in LiveIn(w) : u.sock[a.client].timer = a.id /\ Here(u, a.client)
    BY <1>19, <2>1 DEF Here
  <2>3. u.sock[t.client].timer = t.id /\ Here(u, t.client)
    BY <1>3, <1>7, <1>9, <1>19 DEF Here
  <2> QED
    BY <1>21, <2>2, <2>3
<1> QED
  BY <1>18, <1>19, <1>20, <1>22 DEF WorldOK

\* The fields a socket's call and its lists go by stand, and no timer is new.
LEMMA SocketChanges ==
  ASSUME NEW w, WorldOK(w), NEW u, Shape(u), NEW s \in Socks, NEW x \in Sock,
         u.sock = [w.sock EXCEPT ![s] = x],
         x.handle = w.sock[s].handle /\ x.here = w.sock[s].here,
         u.sockList = w.sockList, u.sockPending = w.sockPending, u.astray = w.astray,
         LiveIn(u) \subseteq LiveIn(w),
         x.timer = w.sock[s].timer \/ \A t \in LiveIn(u) : t.client # s
  PROVE  WorldOK(u) /\ \A e \in Socks : Here(u, e) <=> Here(w, e)
<1>1. w.sock \in [Socks -> Sock]
  BY ShapeFields DEF WorldOK
<1>2. u.sock[s] = x /\ \A e \in Socks : e # s => u.sock[e] = w.sock[e]
  BY <1>1
<1>3. \A e \in Socks : Here(u, e) <=> Here(w, e)
  BY <1>2 DEF Here
<1>4. \A e \in Socks : Count(u, e) = IF Listed(u, e) THEN 1 ELSE 0
  BY <1>3 DEF Count, WorldOK, Listed
<1>5. ASSUME NEW t \in LiveIn(u)
      PROVE  u.sock[t.client].timer = t.id /\ Here(u, t.client)
  <2>1. t.client \in Socks /\ w.sock[t.client].timer = t.id /\ Here(w, t.client)
    BY DEF WorldOK, LiveIn
  <2>2. u.sock[t.client].timer = w.sock[t.client].timer
    BY <1>2, <2>1
  <2> QED
    BY <1>3, <2>1, <2>2
<1> QED
  BY <1>3, <1>4, <1>5 DEF WorldOK

\* The other sockets that were in the lists still are.
KeepsOthers(u, w, s) ==
    WorldOK(u) /\ \A e \in Socks : e # s /\ Here(w, e) => Here(u, e)

LEMMA UntimedOK ==
  ASSUME NEW w, WorldOK(w), NEW u, UntimedIn(u, w)
  PROVE  WorldOK(u)
<1>1. /\ Shape(u) /\ u.sock = w.sock /\ u.sockList = w.sockList /\ u.astray = w.astray
      /\ u.sockPending = w.sockPending /\ LiveIn(u) \subseteq LiveIn(w)
  BY DEF UntimedIn
<1>2. \A e \in Socks : Count(u, e) = Count(w, e) /\ (Listed(u, e) <=> Listed(w, e))
  BY <1>1 DEF Count, Here, Listed
<1>3. \A t \in LiveIn(u) : u.sock[t.client].timer = t.id /\ Here(u, t.client)
  BY <1>1 DEF WorldOK, Here
<1> QED
  BY <1>1, <1>2, <1>3 DEF WorldOK

\* The first write ends the attempt and its timer; later ones may close.
LEMMA Writes ==
  ASSUME DealerAssumption, NEW w, WorldOK(w), NEW s \in Socks, NEW u \in OnWrite(w, s)
  PROVE  KeepsOthers(u, w, s)
<1>1. w.sock \in [Socks -> Sock] /\ Shape(w) /\ w.sock[s] \in Sock
  BY ShapeFields DEF WorldOK
<1>2. CASE w.sock[s].timer # 0
  <2>1. PICK r : r = RemoveTimer(w, w.sock[s].timer)
    OBVIOUS
  <2>2. UntimedIn(r, w) /\ \A t \in LiveIn(r) : t.id # w.sock[s].timer
    <3>1. /\ UntimedIn(RemoveTimer(w, w.sock[s].timer), w)
          /\ \A t \in LiveIn(RemoveTimer(w, w.sock[s].timer)) : t.id # w.sock[s].timer
      BY <1>1, NumberUntimed
    <3> QED
      BY <2>1, <3>1
  <2>3. WorldOK(r) /\ Shape(r) /\ r.sock = w.sock
    BY <2>2, UntimedOK DEF UntimedIn
  <2>4. PICK x : x = ConnectOk([r.sock[s] EXCEPT !.timer = 0])
    OBVIOUS
  <2>5. x \in Sock /\ x.handle = r.sock[s].handle /\ x.here = r.sock[s].here
    <3>1. 0 \in 0..MaxTimers
      BY DEF DealerAssumption
    <3> QED
      BY <1>1, <2>3, <2>4, <3>1 DEF ConnectOk, Sock
  <2>6. u = [r EXCEPT !.sock = [r.sock EXCEPT ![s] = x]]
    BY <1>2, <2>1, <2>4 DEF OnWrite
  <2>7. /\ Shape(u) /\ u.sock = [r.sock EXCEPT ![s] = x] /\ u.sockList = r.sockList
        /\ u.sockPending = r.sockPending /\ u.timers = r.timers /\ u.fresh = r.fresh
        /\ u.astray = r.astray
    BY <1>1, <2>3, <2>5, <2>6 DEF Shape
  <2>8. LiveIn(u) = LiveIn(r)
    BY <2>7 DEF LiveIn
  <2>9. \A t \in LiveIn(u) : t.client # s
    BY <2>2, <2>8 DEF UntimedIn, WorldOK
  <2>10. WorldOK(u) /\ \A e \in Socks : Here(u, e) <=> Here(r, e)
    BY <2>3, <2>5, <2>7, <2>8, <2>9, SocketChanges
  <2> QED
    BY <2>3, <2>10 DEF KeepsOthers, Here
<1>3. CASE u = CloseSock(w, s)
  BY <1>3, Closes DEF KeepsOthers, Here
<1>4. CASE w.sock[s].timer = 0 /\ u # CloseSock(w, s)
  <2>1. PICK x : x = [w.sock[s] EXCEPT !.write = FALSE]
    OBVIOUS
  <2>2. u = [w EXCEPT !.sock = [w.sock EXCEPT ![s] = x]]
    BY <1>4, <2>1 DEF OnWrite
  <2>3. /\ x \in Sock /\ x.handle = w.sock[s].handle /\ x.here = w.sock[s].here
        /\ x.timer = w.sock[s].timer
    BY <1>1, <2>1 DEF Sock
  <2>4. /\ Shape(u) /\ u.sock = [w.sock EXCEPT ![s] = x] /\ u.sockList = w.sockList
        /\ u.sockPending = w.sockPending /\ u.timers = w.timers /\ u.fresh = w.fresh
        /\ u.astray = w.astray
    BY <1>1, <2>2, <2>3 DEF Shape
  <2>5. LiveIn(u) = LiveIn(w)
    BY <2>4 DEF LiveIn
  <2>6. WorldOK(u) /\ \A e \in Socks : Here(u, e) <=> Here(w, e)
    BY <2>3, <2>4, <2>5, SocketChanges
  <2> QED
    BY <2>6 DEF KeepsOthers
<1> QED
  BY <1>2, <1>3, <1>4

\* The attempt is over, and the timer that said so is erased.
LEMMA TimesOut ==
  ASSUME DealerAssumption, NEW w, WorldOK(w), NEW s \in Socks, NEW id,
         NEW v, v = OnConnectTimer(w, s),
         NEW u, u = [v EXCEPT !.timers = Without(v.timers, Numbered(v.timers, id))]
  PROVE  WorldOK(u)
<1>1. PICK c : c = CloseSock(w, s)
  OBVIOUS
<1>2. WorldOK(c) /\ \A t \in LiveIn(c) : t.client # s
  BY <1>1, Closes
<1>3. c.sock \in [Socks -> Sock] /\ Shape(c) /\ c.sock[s] \in Sock
  BY <1>2, ShapeFields DEF WorldOK
<1>4. PICK x : x = [c.sock[s] EXCEPT !.timer = 0, !.told = "fail"]
  OBVIOUS
<1>5. 0 \in 0..MaxTimers
  BY DEF DealerAssumption
<1>6. x \in Sock /\ x.handle = c.sock[s].handle /\ x.here = c.sock[s].here
  BY <1>3, <1>4, <1>5 DEF Sock
<1>7. v = [c EXCEPT !.sock = [c.sock EXCEPT ![s] = x]]
  BY <1>1, <1>4 DEF OnConnectTimer
<1>8. /\ Shape(v) /\ v.sock = [c.sock EXCEPT ![s] = x] /\ v.sockList = c.sockList
      /\ v.sockPending = c.sockPending /\ v.timers = c.timers /\ v.fresh = c.fresh
      /\ v.astray = c.astray
  BY <1>3, <1>6, <1>7 DEF Shape
<1>9. LiveIn(v) = LiveIn(c)
  BY <1>8 DEF LiveIn
<1>10. WorldOK(v)
  BY <1>2, <1>3, <1>6, <1>8, <1>9, SocketChanges
<1>11. PICK ts : ts = Without(v.timers, Numbered(v.timers, id))
  OBVIOUS
<1>12. ts \in Seq(Timer) /\ \A t \in ToSet(ts) : t \in ToSet(v.timers)
  <2>1. v.timers \in Seq(Timer)
    BY <1>8, ShapeFields
  <2> QED
    BY <1>11, <2>1, WithoutLive
<1>13. /\ Shape(u) /\ u.sock = v.sock /\ u.sockList = v.sockList /\ u.fresh = v.fresh
       /\ u.sockPending = v.sockPending /\ u.counter = v.counter /\ u.timers = ts
       /\ u.astray = v.astray
  BY <1>8, <1>11, <1>12 DEF Shape
<1>14. UntimedIn(u, v)
  BY <1>12, <1>13 DEF UntimedIn, LiveIn
<1> QED
  BY <1>10, <1>14, UntimedOK

\* What a handler may do.
LEMMA HandlerDone ==
  ASSUME DealerAssumption, NEW w, WorldOK(w), NEW s \in Socks, NEW u \in Handled(w, s)
  PROVE  KeepsOthers(u, w, s)
<1>1. CASE u = w
  BY <1>1 DEF KeepsOthers
<1>2. CASE u = CloseSock(w, s)
  BY <1>2, Closes DEF KeepsOthers, Here
<1>3. CASE u = SetNoDealer(w, s)
  BY <1>3, HandsOn DEF KeepsOthers, Here
<1>4. CASE w.counter < MaxTimers /\ u = Connect(CreateSock(CloseSock(w, s), s), s)
  <2>1. PICK c : c = CloseSock(w, s)
    OBVIOUS
  <2>2. /\ WorldOK(c) /\ c.counter = w.counter /\ c.sock[s].handle = 0
        /\ \A e \in Socks : e # s => c.sock[e] = w.sock[e]
    BY <2>1, Closes
  <2>3. u = Connect(CreateSock(c, s), s)
    BY <1>4, <2>1
  <2>4. WorldOK(u) /\ \A e \in Socks : e # s => u.sock[e] = c.sock[e]
    BY <1>4, <2>2, <2>3, Opens
  <2> QED
    BY <2>2, <2>4 DEF KeepsOthers, Here
<1>5. ASSUME NEW t \in Socks, MayConnect(w, t), u = Connect(CreateSock(w, t), t)
      PROVE  KeepsOthers(u, w, s)
  <2>1. w.sock[t].handle = 0 /\ w.counter < MaxTimers
    BY <1>5 DEF MayConnect
  <2>2. WorldOK(u) /\ \A e \in Socks : e # t => u.sock[e] = w.sock[e]
    BY <1>5, <2>1, Opens
  <2> QED
    BY <2>1, <2>2 DEF KeepsOthers, Here
<1> QED
  BY <1>1, <1>2, <1>3, <1>4, <1>5 DEF Handled

\* Cleaning the list keeps every socket where it is counted.
LEMMA Cleaning ==
  ASSUME DealerAssumption, NEW w, WorldOK(w),
         NEW c, c = Without(w.sockList, {Marked}) \o w.sockPending
  PROVE  /\ c \in Seq(Socks)
         /\ \A e \in Socks : Times(c, e) = IF Listed(w, e) THEN 1 ELSE 0
<1>1. /\ w.sock \in [Socks -> Sock] /\ w.sockList \in Seq(Socks \cup {Marked})
      /\ w.sockPending \in Seq(Socks) /\ Shape(w)
  BY ShapeFields DEF WorldOK
<1>2. PICK q : q = Without(w.sockList, {Marked})
  OBVIOUS
<1>3. q \in Seq(Socks)
  <2>1. q \in Seq(Socks \cup {Marked}) /\ LeftOf(q, w.sockList, {Marked})
    BY <1>1, <1>2, WithoutLeaves
  <2>2. PICK n \in Nat : n = Len(q)
    BY <2>1
  <2>3. q \in [1..n -> Socks \cup {Marked}] /\ \A i \in 1..n : q[i] # Marked
    BY <2>1, <2>2 DEF LeftOf
  <2>4. q \in [1..n -> Socks]
    BY <2>3
  <2> QED
    BY <2>4
<1>4. c = q \o w.sockPending /\ c \in Seq(Socks)
  BY <1>1, <1>2, <1>3
<1>5. ASSUME NEW e \in Socks
      PROVE  Times(c, e) = Count(w, e)
  <2>1. e \notin {Marked}
    BY DEF DealerAssumption
  <2>2. Times(q, e) = Times(w.sockList, e)
    BY <1>1, <1>2, <2>1, TimesWithout
  <2>3. Times(c, e) = Times(q, e) + Times(w.sockPending, e)
    <3>1. PICK p \in Seq(Socks) : p = w.sockPending
      BY <1>1
    <3>2. Times(q \o p, e) = Times(q, e) + Times(p, e)
      BY <1>3, TimesConcat
    <3> QED
      BY <1>4, <3>1, <3>2
  <2> QED
    BY <2>2, <2>3 DEF Count
<1> QED
  BY <1>4, <1>5 DEF WorldOK

\* The cleaned list stands for both.
Relisted(w, c, t) == [w EXCEPT !.sockList = c, !.sockPending = <<>>, !.torn = t]

LEMMA Cleans ==
  ASSUME NEW w, WorldOK(w), NEW c \in Seq(Socks),
         \A e \in Socks : Times(c, e) = IF Listed(w, e) THEN 1 ELSE 0, NEW t \in BOOLEAN
  PROVE  WorldOK(Relisted(w, c, t)) /\ Relisted(w, c, t).sock = w.sock
<1>1. PICK u : u = Relisted(w, c, t)
  OBVIOUS
<1>2. Shape(w)
  BY DEF WorldOK
<1>3. <<>> \in Seq(Socks)
  OBVIOUS
<1>4. c \in Seq(Socks \cup {Marked})
  <2>1. PICK n \in Nat : n = Len(c)
    OBVIOUS
  <2>2. c \in [1..n -> Socks \cup {Marked}]
    BY <2>1
  <2> QED
    BY <2>2
<1>5. /\ Shape(u) /\ u.sock = w.sock /\ u.sockList = c /\ u.sockPending = <<>>
      /\ u.timers = w.timers /\ u.fresh = w.fresh /\ u.astray = w.astray
  BY <1>1, <1>2, <1>3, <1>4 DEF Relisted, Shape
<1>6. \A e \in Socks : (Here(u, e) <=> Here(w, e)) /\ (Listed(u, e) <=> Listed(w, e))
  BY <1>5 DEF Here, Listed
<1>7. \A e \in Socks : Count(u, e) = Times(c, e)
  <2>1. \A e \in Socks : Times(c, e) \in Nat
    OBVIOUS
  <2>2. \A e \in Socks : Times(<<>>, e) = 0
    BY TimesEmpty
  <2> QED
    BY <1>5, <2>1, <2>2 DEF Count
<1>8. \A a \in LiveIn(u) : u.sock[a.client].timer = a.id /\ Here(u, a.client)
  BY <1>5, <1>6 DEF LiveIn, WorldOK
<1> QED
  BY <1>1, <1>5, <1>6, <1>7, <1>8 DEF WorldOK

\* An element that stands in a sequence once stands at one place.
LEMMA OnceOnly ==
  ASSUME NEW T, NEW q \in Seq(T), NEW i \in DOMAIN q, NEW j \in DOMAIN q, q[i] = q[j],
         Times(q, q[i]) <= 1
  PROVE  i = j
<1> DEFINE P == {k \in DOMAIN q : q[k] = q[i]}
<1>1. IsFiniteSet(DOMAIN q) /\ P \subseteq DOMAIN q
  <2>1. DOMAIN q = 1..Len(q) /\ Len(q) \in Nat
    OBVIOUS
  <2> QED
    BY <2>1, FS_Interval
<1>2. IsFiniteSet(P) /\ Cardinality(P) \in Nat /\ Cardinality(P) <= 1
  BY <1>1, FS_Subset, FS_CardinalityType DEF Times
<1>3. i \in P /\ j \in P
  OBVIOUS
<1> HIDE DEF P
<1>4. IsFiniteSet(P \ {i}) /\ Cardinality(P \ {i}) = Cardinality(P) - 1
  BY <1>2, <1>3, FS_RemoveElement
<1>5. Cardinality(P \ {i}) \in Nat
  BY <1>4, FS_CardinalityType
<1>6. PICK x \in Nat : x = Cardinality(P)
  BY <1>2
<1>7. PICK y \in Nat : y = Cardinality(P \ {i})
  BY <1>5
<1>8. y = 0
  BY <1>2, <1>4, <1>6, <1>7
<1>9. P \ {i} = {}
  BY <1>4, <1>7, <1>8, FS_EmptySet
<1> QED
  BY <1>3, <1>9

\* A batch: sockets of this dealer, each once.
Batch(b, w) ==
    /\ b \in Seq(Socks)
    /\ \A i \in DOMAIN b : Here(w, b[i])
    /\ \A i, j \in DOMAIN b : b[i] = b[j] => i = j

\* What is chosen from the cleaned list is a batch.
LEMMA Chosen ==
  ASSUME NEW w, NEW c \in Seq(Socks), \A e \in Socks : Times(c, e) = IF Listed(w, e) THEN 1 ELSE 0,
         NEW S, NEW b, b = Without(c, S)
  PROVE  Batch(b, w)
<1>1. b \in Seq(Socks)
  BY WithoutLeaves
<1>2. \A e \in Socks : Times(b, e) = IF e \in S THEN 0 ELSE Times(c, e)
  BY TimesWithout
<1>3. \A i \in DOMAIN b : b[i] \in Socks
  BY <1>1
<1>4. \A i \in DOMAIN b : Times(b, b[i]) # 0
  BY <1>1, TimesType
<1>5. \A i \in DOMAIN b : Times(b, b[i]) <= 1 /\ Here(w, b[i])
  BY <1>2, <1>3, <1>4 DEF Listed
<1>6. \A i, j \in DOMAIN b : b[i] = b[j] => i = j
  BY <1>1, <1>5, OnceOnly
<1> QED
  BY <1>1, <1>5, <1>6 DEF Batch

\* The batch without its head.
LEMMA Later ==
  ASSUME NEW w, NEW b, Batch(b, w), b # <<>>, NEW u, KeepsOthers(u, w, Head(b))
  PROVE  Batch(Tail(b), u)
<1>1. PICK n \in Nat : n = Len(b)
  BY DEF Batch
<1>2. PICK r : r = Tail(b)
  OBVIOUS
<1>3. /\ b \in Seq(Socks) /\ DOMAIN b = 1..n /\ n # 0
      /\ \A i \in 1..n : b[i] \in Socks
  BY <1>1 DEF Batch
<1>4. /\ r \in Seq(Socks) /\ DOMAIN r = 1..n - 1
      /\ \A i \in 1..n - 1 : r[i] = b[i + 1]
  BY <1>1, <1>2, <1>3
<1>5. Head(b) = b[1]
  OBVIOUS
<1>6. \A i \in 1..n - 1 : i + 1 \in 1..n /\ 1 \in 1..n /\ i + 1 # 1
  OBVIOUS
<1>7. \A i \in 1..n - 1 : r[i] \in Socks /\ r[i] # Head(b) /\ Here(w, r[i])
  BY <1>3, <1>4, <1>5, <1>6 DEF Batch
<1>8. \A i \in DOMAIN r : Here(u, r[i])
  BY <1>4, <1>7 DEF KeepsOthers
<1>9. \A i, j \in DOMAIN r : r[i] = r[j] => i = j
  <2>1. ASSUME NEW i \in 1..n - 1, NEW j \in 1..n - 1, r[i] = r[j]
        PROVE  i = j
    <3>1. b[i + 1] = b[j + 1] /\ i + 1 \in DOMAIN b /\ j + 1 \in DOMAIN b
      BY <1>3, <1>4, <1>6, <2>1
    <3>2. i + 1 = j + 1
      BY <3>1 DEF Batch
    <3> QED
      BY <3>2
  <2> QED
    BY <1>4, <2>1
<1> QED
  BY <1>2, <1>4, <1>8, <1>9 DEF Batch

\* A batch stands as long as its sockets do.
LEMMA BatchStands ==
  ASSUME NEW w, NEW b, Batch(b, w), NEW u, \A e \in Socks : Here(w, e) => Here(u, e)
  PROVE  Batch(b, u)
<1>1. \A i \in DOMAIN b : b[i] \in Socks
  BY DEF Batch
<1> QED
  BY <1>1 DEF Batch

\* The timers that waited are taken over, the marked ones leave.
LEMMA TakenOver ==
  ASSUME NEW q \in Seq(Timer), NEW f \in Seq(Timer), NEW c, c = q \o f
  PROVE  c \in Seq(Timer) /\ ToSet(c) \subseteq ToSet(q) \cup ToSet(f)
<1>1. PICK n \in Nat, k \in Nat : n = Len(q) /\ k = Len(f)
  OBVIOUS
<1>2. /\ DOMAIN q = 1..n /\ DOMAIN f = 1..k /\ DOMAIN c = 1..n + k /\ c \in Seq(Timer)
      /\ \A i \in 1..n + k : c[i] = IF i <= n THEN q[i] ELSE f[i - n]
  BY <1>1, ConcatProperties
<1>3. \A i \in 1..n + k : i \in 1..n \/ (i - n \in 1..k /\ ~(i <= n))
  OBVIOUS
<1>4. \A i \in 1..n + k : c[i] \in ToSet(q) \cup ToSet(f)
  <2>1. ASSUME NEW i \in 1..n + k
        PROVE  c[i] \in ToSet(q) \cup ToSet(f)
    <3>1. \/ c[i] = q[i] /\ i \in DOMAIN q
          \/ c[i] = f[i - n] /\ i - n \in DOMAIN f
      BY <1>2, <1>3
    <3> QED
      BY <3>1 DEF ToSet
  <2> QED
    BY <2>1
<1> QED
  BY <1>2, <1>4 DEF ToSet

Retimed(w, c) == [w EXCEPT !.timers = c, !.fresh = <<>>]

LEMMA TimersCleaned ==
  ASSUME NEW w, WorldOK(w),
         NEW c \in Seq(Timer), ToSet(c) \subseteq ToSet(w.timers) \cup ToSet(w.fresh)
  PROVE  WorldOK(Retimed(w, c))
<1>1. PICK u : u = Retimed(w, c)
  OBVIOUS
<1>2. Shape(w)
  BY DEF WorldOK
<1>3. <<>> \in Seq(Timer) /\ ToSet(<<>>) = {}
  BY DEF ToSet
<1>4. /\ Shape(u) /\ u.sock = w.sock /\ u.sockList = w.sockList
      /\ u.sockPending = w.sockPending /\ u.counter = w.counter /\ u.astray = w.astray
      /\ u.timers = c /\ u.fresh = <<>>
  BY <1>1, <1>2, <1>3 DEF Retimed, Shape
<1>5. LiveIn(u) \subseteq LiveIn(w)
  BY <1>3, <1>4 DEF LiveIn
<1> QED
  BY <1>1, <1>4, <1>5, UntimedOK DEF UntimedIn

\* Some that wait go astray.
Dropped(w, T) == [w EXCEPT !.sockPending = Without(w.sockPending, T)]

\* A push that met another leaves the socket in the list or astray, and may have
\* taken others with it.
LEMMA Meets ==
  ASSUME NEW w, Shape(w), NEW s \in Socks, Count(w, s) = 0,
         \A e \in Socks : Count(w, e) <= 1 /\ (e \in w.astray => e = s \/ Count(w, e) = 0),
         NEW u \in Met(w, s)
  PROVE  /\ Shape(u) /\ u.sock = w.sock /\ u.timers = w.timers /\ u.fresh = w.fresh
         /\ Count(u, s) = IF s \in u.astray THEN 0 ELSE 1
         /\ \A e \in Socks : e # s =>
                \/ Count(u, e) = 0 /\ e \in u.astray
                \/ Count(u, e) = Count(w, e) /\ (e \in u.astray <=> e \in w.astray)
<1>1. /\ w.sockList \in Seq(Socks \cup {Marked}) /\ w.sockPending \in Seq(Socks)
      /\ w.astray \in SUBSET Socks /\ w.torn \in BOOLEAN
  BY ShapeFields
<1>2. CASE u = GoesAstray(w, {s})
  BY <1>2, Strays DEF AddedIn
<1>3. ASSUME NEW T \in SUBSET ToSet(w.sockPending), u = GoesAstray(AddSockClient(Dropped(w, T), s), T)
      PROVE  /\ Shape(u) /\ u.sock = w.sock /\ u.timers = w.timers /\ u.fresh = w.fresh
             /\ Count(u, s) = IF s \in u.astray THEN 0 ELSE 1
             /\ \A e \in Socks : e # s =>
                    \/ Count(u, e) = 0 /\ e \in u.astray
                    \/ Count(u, e) = Count(w, e) /\ (e \in u.astray <=> e \in w.astray)
  <2>1. PICK p : p = Without(w.sockPending, T)
    OBVIOUS
  <2>2. /\ p \in Seq(Socks)
        /\ \A e \in Socks : Times(p, e) = IF e \in T THEN 0 ELSE Times(w.sockPending, e)
    <3>1. p \in Seq(Socks)
      BY <1>1, <2>1, WithoutLeaves
    <3>2. \A e \in Socks : Times(p, e) = IF e \in T THEN 0 ELSE Times(w.sockPending, e)
      BY <1>1, <2>1, TimesWithout
    <3> QED
      BY <3>1, <3>2
  <2>3. PICK d : d = [w EXCEPT !.sockPending = p]
    OBVIOUS
  <2>4. /\ Shape(d) /\ d.sock = w.sock /\ d.sockList = w.sockList /\ d.sockPending = p
        /\ d.timers = w.timers /\ d.fresh = w.fresh /\ d.astray = w.astray
    BY <2>2, <2>3 DEF Shape
  <2>5. \A e \in Socks : Times(w.sockList, e) \in Nat /\ Times(w.sockPending, e) \in Nat
    BY <1>1, TimesType
  <2>6. \A e \in T : e \in Socks /\ Times(w.sockPending, e) # 0
    <3>1. ASSUME NEW e \in T
          PROVE  e \in Socks /\ Times(w.sockPending, e) # 0
      <4>1. PICK i \in DOMAIN w.sockPending : w.sockPending[i] = e
        BY <3>1 DEF ToSet
      <4> QED
        BY <1>1, <4>1, TimesType
    <3> QED
      BY <3>1
  <2>7. /\ s \notin T
        /\ \A e \in Socks : Count(d, e) = IF e \in T THEN 0 ELSE Count(w, e)
    <3>1. \A e \in Socks : /\ Count(w, e) = Times(w.sockList, e) + Times(w.sockPending, e)
                           /\ Count(d, e) = Times(w.sockList, e) + Times(p, e)
      BY <2>4 DEF Count
    <3>2. \A e \in T : Times(w.sockList, e) = 0
      BY <2>5, <2>6, <3>1
    <3>3. \A e \in Socks : Count(d, e) = IF e \in T THEN 0 ELSE Count(w, e)
      BY <2>2, <2>5, <3>1, <3>2
    <3>4. s \notin T
      BY <2>5, <2>6, <3>1
    <3> QED
      BY <3>3, <3>4
  <2>8. PICK a : a = AddSockClient(d, s)
    OBVIOUS
  <2>9. Count(d, s) = 0
    BY <2>7
  <2>10. /\ Shape(a) /\ a.sock = w.sock /\ a.timers = w.timers /\ a.fresh = w.fresh
         /\ Count(a, s) = IF s \in a.astray THEN 0 ELSE 1
         /\ \A e \in Socks : e # s => Count(a, e) = Count(d, e) /\ (e \in a.astray <=> e \in w.astray)
    BY <2>4, <2>8, <2>9, Adds DEF AddedIn
  <2>11. PICK g : g = a.astray \cup T
    OBVIOUS
  <2>12. g \in SUBSET Socks
    BY <2>6, <2>10, <2>11, ShapeFields
  <2>13. u = [a EXCEPT !.astray = g]
    BY <1>3, <2>1, <2>3, <2>8, <2>11 DEF GoesAstray, Dropped
  <2>14. /\ Shape(u) /\ u.sock = a.sock /\ u.sockList = a.sockList /\ u.sockPending = a.sockPending
         /\ u.timers = a.timers /\ u.fresh = a.fresh /\ u.astray = g
    BY <2>10, <2>12, <2>13 DEF Shape
  <2>15. \A e \in Socks : Count(u, e) = Count(a, e)
    BY <2>14 DEF Count
  <2>16. s \in u.astray <=> s \in a.astray
    BY <2>7, <2>11, <2>14
  <2>17. ASSUME NEW e \in Socks, e # s
         PROVE  \/ Count(u, e) = 0 /\ e \in u.astray
                \/ Count(u, e) = Count(w, e) /\ (e \in u.astray <=> e \in w.astray)
    <3>1. CASE e \in T
      BY <2>7, <2>10, <2>11, <2>14, <2>15, <2>17, <3>1
    <3>2. CASE e \notin T
      BY <2>7, <2>10, <2>11, <2>14, <2>15, <2>17, <3>2
    <3> QED
      BY <3>1, <3>2
  <2> QED
    BY <2>10, <2>14, <2>15, <2>16, <2>17
<1>4. \/ u = GoesAstray(w, {s})
      \/ \E T \in SUBSET ToSet(w.sockPending) : u = GoesAstray(AddSockClient(Dropped(w, T), s), T)
  BY DEF Met, Dropped
<1> QED
  BY <1>2, <1>3, <1>4

\* Whether the list is torn says nothing of who stands in it.
LEMMA Tears ==
  ASSUME NEW w, WorldOK(w), NEW b \in BOOLEAN, NEW u, u = [w EXCEPT !.torn = b]
  PROVE  WorldOK(u) /\ \A e \in Socks : Here(w, e) <=> Here(u, e)
<1>1. /\ Shape(u) /\ u.sock = w.sock /\ u.sockList = w.sockList /\ u.sockPending = w.sockPending
      /\ u.timers = w.timers /\ u.fresh = w.fresh /\ u.astray = w.astray
  BY DEF WorldOK, Shape
<1>2. \A e \in Socks : /\ Count(u, e) = Count(w, e) /\ (Listed(u, e) <=> Listed(w, e))
                       /\ (Here(u, e) <=> Here(w, e))
  BY <1>1 DEF Count, Here, Listed
<1>3. \A t \in LiveIn(u) : u.sock[t.client].timer = t.id /\ Here(u, t.client)
  BY <1>1 DEF WorldOK, Here, LiveIn
<1> QED
  BY <1>1, <1>2, <1>3 DEF WorldOK

\* A socket of another thread comes over.
LEMMA ComesOver ==
  ASSUME NEW w, WorldOK(w), NEW s \in Socks, w.sock[s].handle # 0, ~w.sock[s].here,
         NEW u \in Met([w EXCEPT !.sock[s].here = TRUE], s)
  PROVE  WorldOK(u) /\ \A e \in Socks : Here(w, e) => Here(u, e)
<1>1. /\ w.sock \in [Socks -> Sock] /\ w.sockList \in Seq(Socks \cup {Marked})
      /\ w.sockPending \in Seq(Socks) /\ Shape(w) /\ w.sock[s] \in Sock
  BY ShapeFields DEF WorldOK
<1>2. PICK x : x = [w.sock[s] EXCEPT !.here = TRUE]
  OBVIOUS
<1>3. x \in Sock /\ x.here = TRUE /\ x.handle = w.sock[s].handle
  BY <1>1, <1>2 DEF Sock
<1>4. PICK v : v = [w EXCEPT !.sock[s].here = TRUE]
  OBVIOUS
<1>5. v = [w EXCEPT !.sock = [w.sock EXCEPT ![s] = x]]
  BY <1>2, <1>4
<1>6. /\ Shape(v) /\ v.sock = [w.sock EXCEPT ![s] = x] /\ v.sockList = w.sockList
      /\ v.sockPending = w.sockPending /\ v.timers = w.timers /\ v.fresh = w.fresh
      /\ v.astray = w.astray
  BY <1>1, <1>3, <1>5 DEF Shape
<1>7. \A e \in Socks : Count(v, e) = Count(w, e) /\ Count(w, e) = IF Listed(w, e) THEN 1 ELSE 0
  BY <1>6 DEF Count, WorldOK
<1>8. Count(v, s) = 0
  BY <1>7 DEF Listed, Here
<1>9. \A e \in Socks : Count(v, e) <= 1 /\ (e \in v.astray => e = s \/ Count(v, e) = 0)
  BY <1>6, <1>7 DEF Listed
<1>10. /\ Shape(u) /\ u.sock = v.sock /\ u.timers = w.timers /\ u.fresh = w.fresh
       /\ Count(u, s) = IF s \in u.astray THEN 0 ELSE 1
       /\ \A e \in Socks : e # s =>
              \/ Count(u, e) = 0 /\ e \in u.astray
              \/ Count(u, e) = Count(w, e) /\ (e \in u.astray <=> e \in w.astray)
  <2>1. u \in Met(v, s)
    BY <1>4
  <2>2. /\ Shape(u) /\ u.sock = v.sock /\ u.timers = v.timers /\ u.fresh = v.fresh
        /\ Count(u, s) = IF s \in u.astray THEN 0 ELSE 1
        /\ \A e \in Socks : e # s =>
               \/ Count(u, e) = 0 /\ e \in u.astray
               \/ Count(u, e) = Count(v, e) /\ (e \in u.astray <=> e \in v.astray)
    BY <1>6, <1>8, <1>9, <2>1, Meets
  <2> QED
    BY <1>6, <1>7, <2>2
<1>11. u.sock[s] = x /\ \A e \in Socks : e # s => u.sock[e] = w.sock[e]
  BY <1>1, <1>6, <1>10
<1>12. ~Here(w, s) /\ Here(u, s) /\ \A e \in Socks : e # s => (Here(u, e) <=> Here(w, e))
  BY <1>3, <1>11 DEF Here
<1>13. \A e \in Socks : Count(u, e) = IF Listed(u, e) THEN 1 ELSE 0
  <2>1. Count(u, s) = IF Listed(u, s) THEN 1 ELSE 0
    BY <1>10, <1>12 DEF Listed
  <2>2. \A e \in Socks : e # s => Count(u, e) = IF Listed(u, e) THEN 1 ELSE 0
    BY <1>7, <1>10, <1>12 DEF Listed
  <2> QED
    BY <2>1, <2>2
<1>14. ASSUME NEW t \in LiveIn(u)
       PROVE  u.sock[t.client].timer = t.id /\ Here(u, t.client)
  <2>1. t \in LiveIn(w)
    BY <1>10 DEF LiveIn
  <2>2. t.client \in Socks /\ w.sock[t.client].timer = t.id /\ Here(w, t.client)
    BY <2>1 DEF WorldOK, LiveIn
  <2> QED
    BY <1>11, <1>12, <2>2
<1> QED
  BY <1>10, <1>12, <1>13, <1>14 DEF WorldOK

\* A socket of another thread is closed there.
LEMMA ClosedThere ==
  ASSUME NEW w, WorldOK(w), NEW s \in Socks, ~w.sock[s].here,
         NEW u, u = [w EXCEPT !.sock[s] = Shut(w.sock[s])]
  PROVE  WorldOK(u) /\ \A e \in Socks : Here(w, e) => Here(u, e)
<1>1. w.sock \in [Socks -> Sock] /\ Shape(w) /\ w.sock[s] \in Sock
  BY ShapeFields DEF WorldOK
<1>2. PICK x : x = Shut(w.sock[s])
  OBVIOUS
<1>3. x \in Sock /\ x.here = w.sock[s].here
  BY <1>1, <1>2 DEF Shut, Sock
<1>4. u = [w EXCEPT !.sock = [w.sock EXCEPT ![s] = x]]
  BY <1>2
<1>5. /\ Shape(u) /\ u.sock = [w.sock EXCEPT ![s] = x] /\ u.sockList = w.sockList
      /\ u.sockPending = w.sockPending /\ u.timers = w.timers /\ u.fresh = w.fresh
      /\ u.astray = w.astray
  <2>1. PICK f : f = [w.sock EXCEPT ![s] = x]
    OBVIOUS
  <2>2. f \in [Socks -> Sock]
    BY <1>1, <1>3, <2>1
  <2>3. u = [w EXCEPT !.sock = f]
    BY <1>4, <2>1
  <2> QED
    BY <1>1, <2>1, <2>2, <2>3 DEF Shape
<1>6. u.sock[s] = x /\ \A e \in Socks : e # s => u.sock[e] = w.sock[e]
  BY <1>1, <1>5
<1>7. \A e \in Socks : Here(u, e) <=> Here(w, e)
  BY <1>3, <1>6 DEF Here
<1>8. \A e \in Socks : Count(u, e) = IF Listed(u, e) THEN 1 ELSE 0
  BY <1>5, <1>7 DEF Count, WorldOK, Listed
<1>9. ASSUME NEW t \in LiveIn(u)
      PROVE  u.sock[t.client].timer = t.id /\ Here(u, t.client)
  <2>1. t \in LiveIn(w)
    BY <1>5 DEF LiveIn
  <2>2. t.client \in Socks /\ w.sock[t.client].timer = t.id /\ Here(w, t.client)
    BY <2>1 DEF WorldOK, LiveIn
  <2>3. t.client # s
    BY <2>2 DEF Here
  <2> QED
    BY <1>6, <1>7, <2>2, <2>3
<1> QED
  BY <1>5, <1>7, <1>8, <1>9 DEF WorldOK

InBatch == phase \in {"read", "write"} => Batch(batch, World)

\* The inductive invariant: the lists agree with the sockets, the live timers with
\* the attempts, and a batch holds sockets of this dealer, each once.
DealerIInv ==
    /\ WorldOK(World)
    /\ phase \in {"event", "read", "write", "timer", "fire"}
    /\ open \subseteq Handles
    /\ InBatch

LEMMA BecomesWorld ==
  ASSUME NEW u, Shape(u), Becomes(u)
  PROVE  World' = u /\ open' \subseteq open
<1>1. u = [sock |-> u.sock, sockList |-> u.sockList, sockPending |-> u.sockPending,
           timers |-> u.timers, fresh |-> u.fresh, counter |-> u.counter,
           astray |-> u.astray, torn |-> u.torn]
  BY DEF Shape
<1> QED
  BY <1>1 DEF Becomes, World

LEMMA WorldFields ==
  /\ World.sock = sock /\ World.sockList = sockList /\ World.sockPending = sockPending
  /\ World.timers = timers /\ World.fresh = fresh /\ World.counter = counter
  /\ World.astray = astray /\ World.torn = torn
BY DEF World

LEMMA SameWorld ==
  ASSUME UNCHANGED <<sock, lists>>
  PROVE  World' = World
BY DEF World, lists

\* A step of a handler, and the batch goes on.
LEMMA HandlerStep ==
  ASSUME DealerIInv, phase \in {"read", "write"}, batch # <<>>,
         NEW u, KeepsOthers(u, World, Head(batch)), Becomes(u),
         batch' = Tail(batch), UNCHANGED phase
  PROVE  DealerIInv'
<1>1. WorldOK(u) /\ Shape(u)
  BY DEF KeepsOthers, WorldOK
<1>2. World' = u /\ open' \subseteq open
  BY <1>1, BecomesWorld
<1>3. Batch(batch, World)
  BY DEF DealerIInv, InBatch
<1>4. Batch(batch', u)
  BY <1>3, Later
<1>5. WorldOK(World')
  BY <1>1, <1>2
<1>6. InBatch'
  BY <1>2, <1>4 DEF InBatch
<1> QED
  BY <1>2, <1>5, <1>6 DEF DealerIInv

\* A step outside the two batches.
LEMMA TimerStep ==
  ASSUME DealerIInv, phase' \in {"event", "timer", "fire"}, WorldOK(World'),
         open' \subseteq open
  PROVE  DealerIInv'
BY DEF DealerIInv, InBatch

LEMMA HeadIn ==
  ASSUME DealerIInv, phase \in {"read", "write"}, batch # <<>>
  PROVE  Head(batch) \in Socks /\ Here(World, Head(batch))
<1>1. Batch(batch, World)
  BY DEF DealerIInv, InBatch
<1>2. batch \in Seq(Socks)
  BY <1>1 DEF Batch
<1>3. 1 \in DOMAIN batch /\ Head(batch) = batch[1]
  BY <1>2
<1> QED
  BY <1>1, <1>2, <1>3 DEF Batch

\* The lists are cleaned and the sockets found are taken from them.
LEMMA SelectSteps ==
  ASSUME DealerAssumption, DealerIInv, Select \/ ReadDone
  PROVE  DealerIInv'
<1>1. PICK c : c = Cleaned
  OBVIOUS
<1>2. c \in Seq(Socks) /\ \A e \in Socks : Times(c, e) = IF Listed(World, e) THEN 1 ELSE 0
  <2>1. c = Without(World.sockList, {Marked}) \o World.sockPending
    BY <1>1, WorldFields DEF Cleaned
  <2>2. WorldOK(World)
    BY DEF DealerIInv
  <2> QED
    BY <2>1, <2>2, Cleaning
<1>3. /\ sockList' = c /\ sockPending' = <<>>
      /\ torn' \in {torn, FALSE}
      /\ UNCHANGED <<sock, timers, fresh, counter, astray, open>>
      /\ phase' \in {"timer", "read", "write"}
  BY <1>1 DEF Select, ReadDone, CleanClient
<1>4. PICK S : batch' = Without(c, S)
  BY <1>1 DEF Select, ReadDone, Among
<1>5. PICK w : w = World
  OBVIOUS
<1>6. PICK t \in BOOLEAN : t = torn'
  <2>1. torn \in BOOLEAN
    BY ShapeFields, WorldFields DEF DealerIInv, WorldOK
  <2> QED
    BY <1>3, <2>1
<1>12. PICK u : u = Relisted(w, c, t)
  OBVIOUS
<1>7. WorldOK(u) /\ u.sock = World.sock /\ World' = u
  <2>1. WorldOK(w) /\ \A e \in Socks : Times(c, e) = IF Listed(w, e) THEN 1 ELSE 0
    BY <1>2, <1>5 DEF DealerIInv
  <2>2. WorldOK(u) /\ u.sock = w.sock
    BY <1>2, <1>12, <2>1, Cleans
  <2>3. u = [sock |-> sock, sockList |-> c, sockPending |-> <<>>,
             timers |-> timers, fresh |-> fresh, counter |-> counter,
             astray |-> astray, torn |-> t]
    BY <1>5, <1>12 DEF World, Relisted
  <2>4. World' = [sock |-> sock, sockList |-> c, sockPending |-> <<>>,
                  timers |-> timers, fresh |-> fresh, counter |-> counter,
                  astray |-> astray, torn |-> t]
    BY <1>3, <1>6 DEF World
  <2> QED
    BY <1>5, <2>2, <2>3, <2>4
<1>8. Batch(batch', World)
  <2>1. PICK b : b = Without(c, S)
    OBVIOUS
  <2>2. Batch(b, World)
    BY <1>2, <2>1, Chosen
  <2> QED
    BY <1>4, <2>1, <2>2
<1>9. Batch(batch', u)
  BY <1>7, <1>8 DEF Batch, Here
<1>10. WorldOK(World')
  BY <1>7
<1>11. InBatch'
  BY <1>7, <1>9 DEF InBatch
<1> QED
  BY <1>3, <1>10, <1>11 DEF DealerIInv

\* The two batches.
LEMMA BatchSteps ==
  ASSUME DealerAssumption, DealerIInv, Read \/ Write \/ WriteDone
  PROVE  DealerIInv'
<1>1. WorldOK(World)
  BY DEF DealerIInv
<1>2. CASE Read
  <2>1. phase = "read" /\ batch # <<>> /\ batch' = Tail(batch) /\ UNCHANGED phase
    BY <1>2 DEF Read
  <2>2. Head(batch) \in Socks
    BY <2>1, HeadIn
  <2>3. PICK u \in Handled(World, Head(batch)) : Becomes(u)
    BY <1>2 DEF Read
  <2>4. KeepsOthers(u, World, Head(batch))
    BY <1>1, <2>2, HandlerDone
  <2> QED
    BY <2>1, <2>3, <2>4, HandlerStep
<1>3. CASE Write
  <2>1. phase = "write" /\ batch # <<>> /\ batch' = Tail(batch) /\ UNCHANGED phase
    BY <1>3 DEF Write
  <2>2. Head(batch) \in Socks
    BY <2>1, HeadIn
  <2>3. PICK u \in OnWrite(World, Head(batch)) : Becomes(u)
    BY <1>3 DEF Write
  <2>4. KeepsOthers(u, World, Head(batch))
    BY <1>1, <2>2, Writes
  <2> QED
    BY <2>1, <2>3, <2>4, HandlerStep
<1>4. CASE WriteDone
  <2>1. UNCHANGED <<sock, lists>> /\ phase' = "timer" /\ UNCHANGED open
    BY <1>4 DEF WriteDone
  <2>2. World' = World
    BY <2>1, SameWorld
  <2> QED
    BY <1>1, <2>1, <2>2, TimerStep
<1> QED
  BY <1>2, <1>3, <1>4

\* The round of the timers.
LEMMA TimerSteps ==
  ASSUME DealerAssumption, DealerIInv,
         CleanTimers \/ SkipTimer \/ Fire \/ OwnerTimer \/ FireDone
  PROVE  DealerIInv'
<1>1. WorldOK(World)
  BY DEF DealerIInv
<1>2. CASE CleanTimers
  <2>1. PICK w : w = World
    OBVIOUS
  <2>2. WorldOK(w)
    BY <1>1, <2>1
  <2>3. PICK v \in Seq(Timer), f \in Seq(Timer) : v = w.timers /\ f = w.fresh
    BY <2>2, ShapeFields DEF WorldOK
  <2>4. PICK q : q = Without(v, Claimed(v, Marked))
    OBVIOUS
  <2>5. q \in Seq(Timer) /\ \A t \in ToSet(q) : t \in ToSet(v)
    BY <2>4, WithoutLive
  <2>6. PICK c : c = q \o f
    OBVIOUS
  <2>7. c \in Seq(Timer) /\ ToSet(c) \subseteq ToSet(q) \cup ToSet(f)
    BY <2>5, <2>6, TakenOver
  <2>8. c = Current
    BY <2>1, <2>3, <2>4, <2>6, WorldFields DEF Current
  <2>9. /\ timers' = c /\ fresh' = <<>> /\ phase' = "fire"
        /\ UNCHANGED <<sock, sockList, sockPending, counter, astray, torn, open>>
    BY <1>2, <2>8 DEF CleanTimers
  <2>10. PICK u : u = Retimed(w, c)
    OBVIOUS
  <2>11. World' = u
    <3>1. u = [sock |-> sock, sockList |-> sockList, sockPending |-> sockPending,
               timers |-> c, fresh |-> <<>>, counter |-> counter,
                    astray |-> astray, torn |-> torn]
      BY <2>1, <2>10 DEF World, Retimed
    <3>2. World' = [sock |-> sock, sockList |-> sockList, sockPending |-> sockPending,
                    timers |-> c, fresh |-> <<>>, counter |-> counter,
                    astray |-> astray, torn |-> torn]
      BY <2>9 DEF World
    <3> QED
      BY <3>1, <3>2
  <2>12. c \in Seq(Timer) /\ ToSet(c) \subseteq ToSet(w.timers) \cup ToSet(w.fresh)
    BY <2>3, <2>5, <2>7
  <2>13. WorldOK(u)
    BY <2>2, <2>10, <2>12, TimersCleaned
  <2>14. WorldOK(World')
    BY <2>11, <2>13
  <2> QED
    BY <2>9, <2>14, TimerStep
<1>3. CASE SkipTimer \/ FireDone
  <2>1. UNCHANGED <<sock, lists, open>> /\ phase' \in {"event", "fire"}
    BY <1>3 DEF SkipTimer, FireDone
  <2>2. World' = World
    BY <2>1, SameWorld
  <2> QED
    BY <1>1, <2>1, <2>2, TimerStep
<1>4. CASE Fire
  <2>1. Looked.client \in Socks /\ phase' = "fire"
    BY <1>4 DEF Fire
  <2>2. PICK v : v = OnConnectTimer(World, Looked.client)
    OBVIOUS
  <2>3. PICK u : u = [v EXCEPT !.timers = Without(v.timers, Numbered(v.timers, Head(batch)))]
    OBVIOUS
  <2>4. WorldOK(u)
    BY <1>1, <2>1, <2>2, <2>3, TimesOut
  <2>5. Becomes(u)
    BY <1>4, <2>2, <2>3 DEF Fire
  <2>6. World' = u /\ open' \subseteq open
    BY <2>4, <2>5, BecomesWorld DEF WorldOK
  <2>7. WorldOK(World')
    BY <2>4, <2>6
  <2> QED
    BY <2>1, <2>6, <2>7, TimerStep
<1>5. CASE OwnerTimer
  <2>1. phase' = "fire"
    BY <1>5 DEF OwnerTimer
  <2>2. PICK s \in Socks : \/ Becomes(CloseSock(World, s))
                           \/ MayConnect(World, s) /\ Becomes(Connect(CreateSock(World, s), s))
    BY <1>5 DEF OwnerTimer
  <2>3. \E u : WorldOK(u) /\ Becomes(u)
    <3>1. WorldOK(CloseSock(World, s))
      <4>1. PICK u : u = CloseSock(World, s)
        OBVIOUS
      <4>2. WorldOK(u)
        BY <1>1, <4>1, Closes
      <4> QED
        BY <4>1, <4>2
    <3>2. ASSUME MayConnect(World, s)
          PROVE  WorldOK(Connect(CreateSock(World, s), s))
      <4>1. PICK u : u = Connect(CreateSock(World, s), s)
        OBVIOUS
      <4>2. WorldOK(u)
        BY <1>1, <3>2, <4>1, Opens DEF MayConnect
      <4> QED
        BY <4>1, <4>2
    <3> QED
      BY <2>2, <3>1, <3>2
  <2>4. PICK u : WorldOK(u) /\ Becomes(u)
    BY <2>3
  <2>5. World' = u /\ open' \subseteq open
    BY <2>4, BecomesWorld DEF WorldOK
  <2>6. WorldOK(World')
    BY <2>4, <2>5
  <2> QED
    BY <2>1, <2>5, <2>6, TimerStep
<1> QED
  BY <1>2, <1>3, <1>4, <1>5

\* The network and the other threads.
LEMMA OtherSteps ==
  ASSUME DealerAssumption, DealerIInv,
         \/ \E h \in Handles : Establish(h)
         \/ \E s \in Socks : SetDealer(s) \/ CloseElsewhere(s)
         \/ UNCHANGED dealerVars
  PROVE  DealerIInv'
<1>1. WorldOK(World)
  BY DEF DealerIInv
<1>2. CASE (\E h \in Handles : Establish(h)) \/ UNCHANGED dealerVars
  <2>1. UNCHANGED <<sock, lists, phase, batch>> /\ open' \subseteq Handles
    BY <1>2 DEF Establish, dealerVars, DealerIInv
  <2>2. World' = World
    BY <2>1, SameWorld
  <2>3. InBatch'
    BY <2>1, <2>2 DEF InBatch, DealerIInv
  <2>4. WorldOK(World')
    BY <1>1, <2>2
  <2> QED
    BY <2>1, <2>3, <2>4 DEF DealerIInv
<1>3. ASSUME NEW s \in Socks, SetDealer(s) \/ CloseElsewhere(s)
      PROVE  DealerIInv'
  <2>1. World.sock[s].handle # 0 /\ ~World.sock[s].here /\ UNCHANGED <<phase, batch>>
    BY <1>3, WorldFields DEF SetDealer, CloseElsewhere
  <2>2. \E u : /\ WorldOK(u) /\ Becomes(u)
               /\ \A e \in Socks : Here(World, e) => Here(u, e)
    <3>1. CASE SetDealer(s)
      <4>1. PICK v \in Met([World EXCEPT !.sock[s].here = TRUE], s), b \in {torn, TRUE} :
                Becomes([v EXCEPT !.torn = b])
        BY <3>1 DEF SetDealer
      <4>2. WorldOK(v) /\ \A e \in Socks : Here(World, e) => Here(v, e)
        BY <1>1, <2>1, <4>1, ComesOver
      <4>3. b \in BOOLEAN
        BY <1>1, <4>1, ShapeFields, WorldFields DEF WorldOK
      <4>4. PICK u : u = [v EXCEPT !.torn = b]
        OBVIOUS
      <4>5. WorldOK(u) /\ \A e \in Socks : Here(v, e) <=> Here(u, e)
        BY <4>2, <4>3, <4>4, Tears
      <4> QED
        BY <4>1, <4>2, <4>4, <4>5
    <3>2. CASE CloseElsewhere(s)
      <4>1. PICK u : u = [World EXCEPT !.sock[s] = Shut(World.sock[s])]
        OBVIOUS
      <4>2. WorldOK(u) /\ \A e \in Socks : Here(World, e) => Here(u, e)
        BY <1>1, <2>1, <4>1, ClosedThere
      <4>3. Becomes(u)
        BY <3>2, <4>1 DEF CloseElsewhere
      <4> QED
        BY <4>2, <4>3
    <3> QED
      BY <1>3, <3>1, <3>2
  <2>3. PICK u : /\ WorldOK(u) /\ Becomes(u)
                 /\ \A e \in Socks : Here(World, e) => Here(u, e)
    BY <2>2
  <2>4. World' = u /\ open' \subseteq open
    BY <2>3, BecomesWorld DEF WorldOK
  <2>5. WorldOK(World')
    BY <2>3, <2>4
  <2>6. InBatch'
    <3>1. ASSUME phase' \in {"read", "write"}
          PROVE  Batch(batch', World')
      <4>1. Batch(batch, World)
        BY <2>1, <3>1 DEF DealerIInv, InBatch
      <4>2. Batch(batch, u)
        BY <2>3, <4>1, BatchStands
      <4> QED
        BY <2>1, <2>4, <4>2
    <3> QED
      BY <3>1 DEF InBatch
  <2> QED
    BY <2>1, <2>4, <2>5, <2>6 DEF DealerIInv
<1> QED
  BY <1>2, <1>3

LEMMA DealerStep ==
  ASSUME DealerAssumption, DealerIInv, [DealerNext]_dealerVars
  PROVE  DealerIInv'
BY SelectSteps, BatchSteps, TimerSteps, OtherSteps DEF DealerNext, Dispatch

LEMMA DealerStart ==
  ASSUME DealerAssumption, DealerInit
  PROVE  DealerIInv
<1>1. /\ sock \in [Socks -> Sock] /\ \A s \in Socks : sock[s].handle = 0
  BY DEF DealerInit, Sock, DealerAssumption
<1>2. PICK o : o = [id |-> 0, client |-> Owner]
  OBVIOUS
<1>3. o \in Timer /\ o.client = Owner
  BY <1>2 DEF Timer
<1>4. /\ timers = <<o>> /\ timers \in Seq(Timer) /\ fresh = <<>> /\ fresh \in Seq(Timer)
      /\ sockList = <<>> /\ sockPending = <<>> /\ counter = 0
      /\ sockList \in Seq(Socks \cup {Marked}) /\ sockPending \in Seq(Socks)
  BY <1>2, <1>3 DEF DealerInit
<1>9. astray \in SUBSET Socks /\ torn \in BOOLEAN
  BY DEF DealerInit
<1>5. Shape(World)
  BY <1>1, <1>4, <1>9 DEF Shape, World, DealerAssumption
<1>6. \A s \in Socks : ~Here(World, s) /\ Count(World, s) = 0
  <2>1. \A s \in Socks : Times(<<>>, s) = 0
    BY TimesEmpty
  <2> QED
    BY <1>1, <1>4, <2>1, WorldFields DEF Here, Count
<1>7. LiveIn(World) = {}
  <2>1. ToSet(timers) = {o} /\ ToSet(fresh) = {}
    BY <1>4 DEF ToSet
  <2> QED
    BY <1>3, <2>1, WorldFields DEF LiveIn, DealerAssumption
<1>8. WorldOK(World)
  BY <1>5, <1>6, <1>7 DEF WorldOK, Listed
<1> QED
  BY <1>8 DEF DealerIInv, DealerInit, InBatch

LEMMA DealerMeans ==
  ASSUME DealerAssumption, DealerIInv
  PROVE  DealerInv
<1>1. /\ sock \in [Socks -> Sock] /\ sockList \in Seq(Socks \cup {Marked})
      /\ sockPending \in Seq(Socks) /\ counter \in 0..MaxTimers
      /\ astray \subseteq Socks /\ torn \in BOOLEAN
  BY ShapeFields, WorldFields DEF DealerIInv, WorldOK
<1>2. ToSet(sockList) \subseteq Socks \cup {Marked} /\ ToSet(sockPending) \subseteq Socks
  BY <1>1 DEF ToSet
<1>3. DealerTypeOK
  BY <1>1, <1>2 DEF DealerIInv, DealerTypeOK
<1>4. Registered
  BY WorldFields DEF DealerIInv, WorldOK, Registered, Count, Here, Listed
<1>5. NoDeadCall
  BY HeadIn, WorldFields DEF NoDeadCall, Here
<1>6. TimersFounded
  BY WorldFields DEF DealerIInv, WorldOK, TimersFounded, LiveIn, Here
<1> QED
  BY <1>3, <1>4, <1>5, <1>6 DEF DealerInv

\* A socket is called at most once a round and never after its Close, and a timer
\* ends only the attempt it was started for, for any sockets and timers
\* (SockDealer.cpp:51, TimerDealer.cpp:58, TCPClientSock.h:83).
THEOREM CalledWhileOpen ==
  ASSUME DealerAssumption
  PROVE  DealerSpec => []DealerInv
<1>1. DealerInit => DealerIInv
  BY DealerStart
<1>2. DealerIInv /\ [DealerNext]_dealerVars => DealerIInv'
  BY DealerStep
<1>3. DealerIInv => DealerInv
  BY DealerMeans
<1> QED
  BY <1>1, <1>2, <1>3, PTL DEF DealerSpec

-----------------------------------------------------------------------------
(* Trackers.                                                               *)

USE TrackersAssumption

\* The trackers that hold a connecting handle.
Held == Connecting \cup Lost

\* HandlesExact counts the trackers that hold a handle, before a step and
\* after it.
LEMMA HeldCounted ==
  /\ HandlesExact <=> connectingCount = Cardinality(Held)
  /\ HandlesExact' <=> connectingCount' = Cardinality(Held')
  BY DEF HandlesExact, Held

\* Only HTTP trackers hold handles, and there are finitely many of them.
LEMMA HeldFinite == IsFiniteSet(Held)
<1>1. Held \subseteq HttpTrackers
  BY DEF Held, Connecting, Lost
<1> QED
  BY <1>1, FS_Subset

\* A tracker that takes a handle is one more that holds one.
LEMMA HoldOneMore ==
  ASSUME TypeOK, HandlesExact,
         NEW t \in HttpTrackers, timer[t] \notin {"none", "connect"},
         NEW k \in {"none", "connect"},
         timer' = [timer EXCEPT ![t] = k],
         connectingCount < Limit,
         connectingCount' = connectingCount + 1
  PROVE  HandlesExact' /\ connectingCount' \in 0 .. Limit
<1>1. Held' = Held \cup {t}
  BY DEF Held, Connecting, Lost, TypeOK
<1>2. t \notin Held
  BY DEF Held, Connecting, Lost
<1>3. Cardinality(Held \cup {t}) = Cardinality(Held) + 1
  BY <1>2, HeldFinite, FS_AddElement
<1> QED
  BY <1>1, <1>3, HeldCounted DEF TypeOK

\* A tracker that gives its handle back was one that held one.
LEMMA HoldOneLess ==
  ASSUME TypeOK, HandlesExact,
         NEW t \in HttpTrackers, timer[t] = "connect",
         NEW k \in {"next", "answer"},
         timer' = [timer EXCEPT ![t] = k],
         connectingCount' = connectingCount - 1
  PROVE  HandlesExact' /\ connectingCount' \in 0 .. Limit
<1>1. Held' = Held \ {t}
  BY DEF Held, Connecting, Lost, TypeOK
<1>2. t \in Held
  BY DEF Held, Connecting, Lost
<1>3. Cardinality(Held \ {t}) = Cardinality(Held) - 1 /\ Cardinality(Held) \in Nat
  BY <1>2, HeldFinite, FS_RemoveElement, FS_CardinalityType
<1>4. Cardinality(Held) # 0
  BY <1>2, HeldFinite, FS_EmptySet
<1> QED
  BY <1>1, <1>3, <1>4, HeldCounted DEF TypeOK

\* A tracker without a handle may be given any timer that needs none.
LEMMA HoldSame ==
  ASSUME TypeOK, HandlesExact,
         NEW t \in HttpTrackers, timer[t] \notin {"none", "connect"},
         timer' = [timer EXCEPT ![t] = "next"],
         UNCHANGED connectingCount
  PROVE  HandlesExact' /\ connectingCount' \in 0 .. Limit
<1>1. Held' = Held
  BY DEF Held, Connecting, Lost, TypeOK
<1> QED
  BY <1>1 DEF HandlesExact, TypeOK, Held

\* The part of the invariant about HTTP trackers.
HttpTypes ==
    /\ connectingCount \in 0 .. Limit
    /\ status \in [HttpTrackers -> {"waiting", "connecting", "sended"}]
    /\ timer \in [HttpTrackers -> Timers]

\* A call of CTCPTracker::Update, inside any handler, keeps the handles
\* counted and touches the timer of its own tracker only.
LEMMA UpdateKeeps ==
  ASSUME TypeOK, HandlesExact, NEW t \in HttpTrackers,
         timer[t] \notin {"none", "connect"}, Update(t)
  PROVE  HandlesExact' /\ HttpTypes' /\ \A x \in HttpTrackers \ {t} : timer'[x] = timer[x]
<1>1. CASE connectingCount >= Limit /\ SetNextUpdate(t) /\ UNCHANGED connectingCount
  BY <1>1, HoldSame DEF SetNextUpdate, HttpTypes, TypeOK, Timers
<1>2. CASE GetConnectingHandle /\ UNCHANGED status /\ timer' = [timer EXCEPT ![t] = "none"]
  BY <1>2, HoldOneMore DEF GetConnectingHandle, HttpTypes, TypeOK, Timers
<1>3. CASE /\ GetConnectingHandle
           /\ status' = [status EXCEPT ![t] = "connecting"]
           /\ \E k \in {"none", "connect"} : timer' = [timer EXCEPT ![t] = k]
  <2>1. PICK k \in {"none", "connect"} : timer' = [timer EXCEPT ![t] = k]
    BY <1>3
  <2>2. HandlesExact' /\ connectingCount' \in 0 .. Limit
    BY <1>3, <2>1, HoldOneMore DEF GetConnectingHandle
  <2> QED
    BY <1>3, <2>1, <2>2 DEF HttpTypes, TypeOK, Timers
<1> QED
  BY <1>1, <1>2, <1>3 DEF Update

\* A step of an HTTP tracker.
LEMMA HttpStep ==
  ASSUME TrackersInv, NEW t \in HttpTrackers, StartHttp(t) \/ HttpHandler(t)
  PROVE  TrackersInv'
<1>1. /\ HandlesExact' /\ HttpTypes'
      /\ \A x \in HttpTrackers \ {t} : timer'[x] = timer[x]
      /\ starting' = starting \ {t} \/ (starting' = {} /\ starting = {})
      /\ UNCHANGED udp
  <2>1. CASE StartHttp(t)
    <3>1. timer[t] \notin {"none", "connect"}
      BY <2>1 DEF StartHttp, TrackersInv, Unstarted
    <3>2. CASE UNCHANGED http
      BY <2>1, <3>2 DEF StartHttp, http, HttpTypes, TrackersInv, TypeOK, HandlesExact,
                        Connecting, Lost
    <3> QED
      BY <2>1, <3>1, <3>2, UpdateKeeps DEF StartHttp, TrackersInv
  <2>2. CASE UpdateDue(t) \/ Redirected(t)
    BY <2>2, UpdateKeeps DEF UpdateDue, Redirected, Dispatching, TrackersInv
  <2>3. CASE OnConnectFail(t) \/ OnConnectOk(t)
    <3>1. PICK k \in {"next", "answer"} : timer' = [timer EXCEPT ![t] = k]
      BY <2>3 DEF OnConnectFail, OnConnectOk, SetNextUpdate
    <3>2. timer[t] = "connect" /\ connectingCount' = connectingCount - 1
      BY <2>3 DEF OnConnectFail, OnConnectOk, ReleaseConnectingHandle
    <3>3. HandlesExact' /\ connectingCount' \in 0 .. Limit
      BY <3>1, <3>2, HoldOneLess DEF TrackersInv
    <3> QED
      BY <2>3, <3>1, <3>3 DEF OnConnectFail, OnConnectOk, SetNextUpdate, Dispatching,
                              HttpTypes, TrackersInv, TypeOK, Timers
  <2>4. CASE Answered(t)
    BY <2>4, HoldSame DEF Answered, SetNextUpdate, Dispatching, HttpTypes, TrackersInv,
                          TypeOK, Timers
  <2> QED
    BY <2>1, <2>2, <2>3, <2>4 DEF HttpHandler
<1>2. TypeOK'
  BY <1>1 DEF TypeOK, TrackersInv, HttpTypes, udp
<1>3. Unstarted'
  BY <1>1 DEF Unstarted, TrackersInv
<1>4. UdpOK' /\ IdFirst'
  BY <1>1 DEF UdpOK, IdFirst, TrackersInv, udp, TypeOK
<1> QED
  BY <1>1, <1>2, <1>3, <1>4 DEF TrackersInv

\* A step of a UDP tracker.
LEMMA UdpStep ==
  ASSUME TrackersInv, NEW u \in UdpTrackers,
         StartUdp(u) \/ UdpTimer(u) \/ UdpAnswer(u)
  PROVE  TrackersInv'
<1> USE DEF UdpTimer, UdpAnswer, Dispatching
<1>1. UNCHANGED http /\ starting' \subseteq starting
  BY DEF StartUdp, ConnectAgain, ConnectTimeout, RequestAgain, RequestTimeout, Connected,
         Announced, ErrorAnswer
<1>2. HandlesExact' /\ Unstarted'
  BY <1>1 DEF TrackersInv, HandlesExact, Unstarted, Connecting, Lost, http
<1>3. TypeOK' /\ UdpOK' /\ IdFirst'
  <2> USE DEF TrackersInv, TypeOK, UdpOK, IdFirst, States, http
  <2>1. CASE StartUdp(u)
    BY <2>1 DEF StartUdp, SendConnectPacket, AddTimer, udp
  <2>2. CASE ConnectAgain(u)
    BY <2>2 DEF ConnectAgain, SendConnectPacket, AddTimer
  <2>3. CASE ConnectTimeout(u)
    BY <2>3 DEF ConnectTimeout, Failure, ReplaceTimer
  <2>4. CASE RequestAgain(u)
    BY <2>4 DEF RequestAgain, SendRequestPacket, ReplaceTimer
  <2>5. CASE RequestTimeout(u)
    BY <2>5 DEF RequestTimeout, Failure, AddTimer
  <2>6. CASE Connected(u)
    BY <2>6 DEF Connected, SendRequestPacket, ReplaceTimer
  <2>7. CASE Announced(u)
    BY <2>7 DEF Announced, ReplaceTimer
  <2>8. CASE ErrorAnswer(u)
    <3> USE <2>8 DEF ErrorAnswer, Failure, AddTimer
    <3>1. TypeOK'
      OBVIOUS
    <3>2. IdFirst'
      OBVIOUS
    <3>3. UdpOK'
      <4> SUFFICES ASSUME NEW v \in UdpTrackers PROVE UdpOK!(v)'
        OBVIOUS
      <4>1. CASE v # u
        BY <4>1
      <4>2. CASE v = u
        <5>1. /\ fails'[u] = fails[u] + 1 /\ minds'[u] = "repeating"
              /\ UNCHANGED <<starting, asked>> /\ starting = {}
          OBVIOUS
        <5>2. CASE state[u] = "connecting"
          <6>1. state'[u] = "init" /\ stale'[u] = stale[u] /\ asked[u] = "connect"
            BY <5>2
          <6> QED
            BY <4>2, <5>1, <5>2, <6>1
        <5>3. CASE state[u] # "connecting"
          <6>1. /\ state'[u] = "error" /\ stale'[u] = stale[u] + 1
                /\ asked[u] # "announce" => late'[u]
            BY <5>3
          <6>2. stale[u] <= fails[u]
            OBVIOUS
          <6> QED
            BY <4>2, <5>1, <5>3, <6>1, <6>2
        <5> QED
          BY <5>2, <5>3
      <4> QED
        BY <4>1, <4>2
    <3> QED
      BY <3>1, <3>2, <3>3
  <2> QED
    BY <2>1, <2>2, <2>3, <2>4, <2>5, <2>6, <2>7, <2>8
<1> QED
  BY <1>2, <1>3 DEF TrackersInv

\* The inductive invariant: the handles that are out are those of the trackers
\* that connect or were lost, and each UDP tracker minds the timer of its state.
THEOREM TrackersSafe == Spec => []TrackersInv
<1>1. Init => TrackersInv
  <2> SUFFICES ASSUME Init PROVE TrackersInv
    OBVIOUS
  <2>1. Connecting \cup Lost = {}
    BY DEF Init, Connecting, Lost
  <2>2. HandlesExact
    BY <2>1, FS_EmptySet DEF Init, HandlesExact
  <2> QED
    BY <2>2 DEF Init, TrackersInv, TypeOK, Unstarted, UdpOK, IdFirst, States, Timers
<1>2. TrackersInv /\ [Next]_vars => TrackersInv'
  <2> SUFFICES ASSUME TrackersInv, [Next]_vars PROVE TrackersInv'
    OBVIOUS
  <2>1. CASE Next
    BY <2>1, HttpStep, UdpStep DEF Next
  <2>2. CASE UNCHANGED vars
    BY <2>2 DEF vars, http, udp, TrackersInv, TypeOK, Unstarted, HandlesExact, UdpOK, IdFirst,
                Connecting, Lost
  <2> QED
    BY <2>1, <2>2
<1> QED
  BY <1>1, <1>2, PTL DEF Spec

\* m_ConnectingCount counts the trackers that connect and those that Update
\* lost, so no handle is released twice.
THEOREM HandlesCounted == Spec => []HandlesExact
<1>1. TrackersInv => HandlesExact
  BY DEF TrackersInv
<1> QED
  BY <1>1, TrackersSafe, PTL

\* A UDP tracker never forgets more timers than it had failures.
THEOREM LeaksPaid == Spec => []LeakPerFailure
<1>1. TrackersInv => LeakPerFailure
  BY DEF TrackersInv, TypeOK, UdpOK, LeakPerFailure
<1> QED
  BY <1>1, TrackersSafe, PTL

\* Without a late error, no announce goes out before a connection id came in.
THEOREM NoEarlyAnnounce == Spec => []IdFirst
<1>1. TrackersInv => IdFirst
  BY DEF TrackersInv
<1> QED
  BY <1>1, TrackersSafe, PTL

=============================================================================
