----------------------------- MODULE Mse_proofs -----------------------------
(* The MSE handshake, for any padding, however the bytes are cut: two ends   *)
(* of the program agree on what is encrypted and read nothing but what the   *)
(* other wrote.                                                              *)
EXTENDS Mse, SequenceTheorems, WellFoundedInduction, TLAPS

-----------------------------------------------------------------------------
(* What the handshake needs to be inductive.  The stream of an end is what    *)
(* it has not worked on: its buffer and what is on the way.                   *)

Stream(e) == buf[e] \o wire[e]

\* RC4 is selected if A offers it at all; what follows the handshake is sealed.
Full == offer.provide # 1
Sealed(f) == f.crypt /\ f.provide # 1
Ia == IF offer.ia THEN 1 ELSE 0
Early == {"new", "init", "send_pub"}
Late == {"wait_ia", "finish"}

\* A whole request stands behind HASH(req1), and a whole answer behind the VC.
RequestsWhole(c, n, provide) ==
    \A i \in 1 .. Len(c) : c[i].what = "req1" =>
        /\ i + 4 <= Len(c)
        /\ c[i + 2].key = n + 1
        /\ c[i + 3].key = n + 2 /\ c[i + 3].v = provide
AnswersWhole(c, select) ==
    \A i \in 1 .. Len(c) : c[i].what = "vc" =>
        i + 2 <= Len(c) /\ c[i + 1].key = c[i].key + 1 /\ c[i + 1].v = select
NoAnswer(c) == \A i \in 1 .. Len(c) : c[i].what # "vc"
AtMostOne(c) == \A i \in 1 .. Len(c) : c[i].what = "ialen" => c[i].v <= 1
Selected == IF full["B"] THEN 2 ELSE 1

\* Either end gets to know which way it goes, whatever else is in its stream.
ModeB ==
    /\ state["B"] \in Early \cup {"found_req1"} =>
        RequestsWhole(Stream("B"), Dropped, offer.provide)
    /\ state["B"] \notin Late => AtMostOne(Stream("B"))
    /\ state["B"] = "found_req1" => buf["B"] # <<>> /\ buf["B"][1].what = "req1"
    /\ state["B"] \in {"wait_pad_c"} \cup Late => full["B"] = Full
ModeA ==
    /\ state["A"] \in Early \cup {"got_pub", "found_vc"} =>
        IF state["B"] \in Late THEN AnswersWhole(Stream("A"), Selected)
        ELSE NoAnswer(Stream("A"))
    /\ state["A"] \in {"got_pub", "found_vc"} => dec["A"] = Dropped
    /\ state["A"] = "found_vc" =>
        buf["A"] # <<>> /\ buf["A"][1].what = "vc" /\ buf["A"][1].key = Dropped + 1
    /\ state["A"] \in {"wait_pad_d", "finish"} => full["A"] = Full

\* The end is over with the handshake of the encryption, or never had one.
Over(e) == state[e] = "finish" \/ ~offer.crypt

\* An end that reads messages is not in the middle of the encryption, and an
\* accepted link is asked what it is when there is something to look at.
Settled ==
    /\ ~offer.crypt => state["A"] = "new"
    /\ got["A"] => Over("A")
    /\ got["B"] => state["B"] \in {"new", "finish"}
    /\ busy["B"] /\ state["B"] \in {"new", "init"} /\ ~got["B"] => buf["B"] # <<>>

\* The session of the other end behind place o of c: its handshake, unless that
\* was read, and messages.
Session(c, o, sent, read) ==
    IF sent
    THEN /\ Len(c) >= o
         /\ IF read THEN \A i \in o + 1 .. Len(c) : c[i].what = "msg"
            ELSE /\ Len(c) > o /\ c[o + 1].what = "shake"
                 /\ \A i \in o + 2 .. Len(c) : c[i].what = "msg"
    ELSE ~read /\ Len(c) = o

\* It is encrypted from place n of the keystream on, if the link is sealed.
SealedFrom(f, c, o, n) ==
    \A i \in o + 1 .. Len(c) : c[i].key = IF Sealed(f) THEN n + i - o ELSE 0

\* A key of the other end with less padding than is accepted.
Lead(c, j) ==
    /\ j \in 2 .. PadMax + 1 /\ j <= Len(c)
    /\ \A i \in 1 .. j : c[i].what \in {"pub", "pub2", "pad"}

\* What is left of the request: m cells of padding, the length and the handshake.
\* A has dropped d of the keystream, and encrypted up to k.
RequestTail(ia, d, k, c, m) ==
    /\ Len(c) = m + 1 + ia
    /\ \A i \in 1 .. Len(c) : c[i].key = d + 3 + i
    /\ c[m + 1].what = "ialen" /\ c[m + 1].v = ia
    /\ ia = 1 => c[m + 2].what = "shake"
    /\ k = d + 3 + Len(c)
Requested(ia, d, k, c) ==
    /\ Len(c) >= 5
    /\ c[1].what = "req1" /\ c[1].key = 0
    /\ c[3].what = "vc"
    /\ c[3].key = d + 1 /\ c[4].key = d + 2 /\ c[5].key = d + 3
    /\ c[5].v <= PadMax
    /\ RequestTail(ia, d, k, Behind(c, 5), c[5].v)

\* What is left of the answer: m cells of padding and the session of B, which
\* has encrypted up to k.
AnswerTail(f, d, k, sent, c, m) ==
    /\ Len(c) >= m
    /\ Session(c, m, sent, FALSE) /\ SealedFrom(f, c, m, d + 3 + m)
    /\ Sealed(f) => k = d + 3 + Len(c)
Answered(f, d, k, sent, c) ==
    /\ Len(c) >= 3
    /\ c[1].what = "vc"
    /\ c[1].key = d + 1 /\ c[2].key = d + 2 /\ c[3].key = d + 3
    /\ c[2].v \in {1, 2} /\ c[3].v <= PadMax
    /\ AnswerTail(f, d, k, sent, Behind(c, 3), c[3].v)

\* What an end says next: its handshake, then messages.
Speaks(y, sent) == y.what = IF sent THEN "msg" ELSE "shake"

\* An end that is over with it: b of its stream is decrypted and w is not, the
\* other has encrypted up to k.
Talking(f, b, w, n, k, sent, read) ==
    /\ Session(b \o w, 0, sent, read)
    /\ \A i \in 1 .. Len(b) : b[i].key = 0
    /\ SealedFrom(f, w, 0, n)
    /\ Sealed(f) => k = n + Len(w)

TowardB ==
    /\ state["A"] = "new" /\ offer.crypt => Stream("B") = <<>>
    /\ state["A"] = "send_pub" => Lead(Stream("B"), Len(Stream("B")))
    /\ state["A"] = "got_pub" /\ state["B"] = "send_pub" =>
        \E j \in 2 .. PadMax + 1 :
            /\ Lead(Stream("B"), j)
            /\ Requested(Ia, Dropped, enc["A"], Behind(Stream("B"), j))
    /\ state["B"] = "found_req1" => Requested(Ia, Dropped, enc["A"], Stream("B"))
    /\ state["B"] = "wait_pad_c" =>
        /\ RequestTail(Ia, Dropped, enc["A"], Stream("B"), padLen["B"])
        /\ dec["B"] = Dropped + 3
    /\ state["B"] = "wait_ia" =>
        /\ iaLen = Ia
        /\ Ia = 0 => busy["B"] /\ buf["B"] = <<>>
        /\ Session(Stream("B"), 0, sentShake["A"], FALSE)
        /\ offer.ia => Stream("B")[1].key = dec["B"] + 1
        /\ SealedFrom(offer, Stream("B"), Ia, dec["B"] + Ia)
        /\ Sealed(offer) => enc["A"] = dec["B"] + Len(Stream("B"))
    /\ Over("B") =>
        Talking(offer, buf["B"], wire["B"], dec["B"], enc["A"], sentShake["A"], got["B"])

TowardA ==
    /\ state["B"] \in {"new", "init"} /\ offer.crypt => Stream("A") = <<>>
    /\ state["A"] \in {"send_pub", "got_pub"}
       /\ state["B"] \in {"send_pub", "found_req1", "wait_pad_c"} =>
        Lead(Stream("A"), Len(Stream("A")))
    /\ state["A"] = "got_pub" /\ state["B"] \in Late =>
        \E j \in 2 .. PadMax + 1 :
            /\ Lead(Stream("A"), j)
            /\ Answered(offer, Dropped, enc["B"], sentShake["B"], Behind(Stream("A"), j))
    /\ state["A"] = "found_vc" =>
        Answered(offer, Dropped, enc["B"], sentShake["B"], Stream("A"))
    /\ state["A"] = "wait_pad_d" =>
        /\ AnswerTail(offer, Dropped, enc["B"], sentShake["B"], Stream("A"), padLen["A"])
        /\ dec["A"] = Dropped + 3
    /\ Over("A") =>
        Talking(offer, buf["A"], wire["A"], dec["A"], enc["B"], sentShake["B"], got["A"])

\* How far each end can be when the other is where it is.
InStep ==
    /\ state["A"] \in {"new", "send_pub", "got_pub", "found_vc", "wait_pad_d", "finish"}
    /\ state["B"] \in Early \cup {"found_req1", "wait_pad_c"} \cup Late
    /\ state["A"] \in {"new", "send_pub"} => state["B"] \in Early
    /\ state["A"] = "new" => state["B"] = "new"
    /\ state["A"] = "got_pub" => state["B"] \in {"send_pub", "found_req1", "wait_pad_c"} \cup Late
    /\ state["A"] \in {"found_vc", "wait_pad_d", "finish"} => state["B"] \in Late
    /\ state["B"] = "wait_pad_c" => enc["B"] = Dropped
    /\ ~offer.crypt => state["A"] = "new" /\ state["B"] = "new"

\* Which handshakes were sent and read.
ShakesSent ==
    /\ \A e \in Ends : got[e] => Over(e) /\ sentShake[e]
    /\ sentShake["B"] => got["B"]
    /\ offer.crypt =>
        /\ state["A"] \in {"new", "send_pub"} => ~sentShake["A"]
        /\ state["A"] \in {"got_pub", "found_vc", "wait_pad_d"} => sentShake["A"] = offer.ia
        /\ offer.ia /\ state["A"] = "finish" => sentShake["A"]

\* A handshake that nothing spoils.
ShakeInv ==
    /\ \A e \in Ends : link[e] # "protocol"
    /\ ShakesSent /\ InStep /\ TowardA /\ TowardB

ModeInv == MseTypeOK /\ ModeA /\ ModeB /\ Settled
MseIInv == ModeInv /\ (Undisturbed => ShakeInv)
-----------------------------------------------------------------------------
(* Sequences: a buffer and what is on the way behind it.                     *)

LEMMA BehindOf ==
  ASSUME NEW c \in Seq(Cells), NEW n \in 0 .. Len(c)
  PROVE  /\ Behind(c, n) \in Seq(Cells) /\ Len(Behind(c, n)) = Len(c) - n
         /\ DOMAIN Behind(c, n) = 1 .. (Len(c) - n)
         /\ \A i \in 1 .. (Len(c) - n) : Behind(c, n)[i] = c[n + i]
<1>1. PICK l \in Nat : l = Len(c)
  BY LenProperties
<1>2. \A i \in (n + 1) .. l : c[i] \in Cells
  <2>1. ASSUME NEW i \in (n + 1) .. l PROVE i \in 1 .. Len(c)
    BY <1>1
  <2> QED
    BY <2>1, ElementOfSeq
<1>3. n + 1 \in Int /\ l \in Int /\ n \in 0 .. l
  BY <1>1
<1>4. PICK d : d = SubSeq(c, n + 1, l)
  OBVIOUS
<1>5. /\ d \in Seq(Cells) /\ Len(d) = (IF n + 1 <= l THEN l - (n + 1) + 1 ELSE 0)
      /\ \A i \in 1 .. (l - (n + 1) + 1) : d[i] = c[(n + 1) + i - 1]
  BY <1>2, <1>3, <1>4, SubSeqProperties
<1>6. Len(d) = l - n /\ \A i \in 1 .. (l - n) : d[i] = c[n + i]
  <2>1. l - (n + 1) + 1 = l - n
    BY <1>1, <1>3
  <2>2. Len(d) = l - n
    BY <1>3, <1>5
  <2>3. ASSUME NEW i \in 1 .. (l - n) PROVE d[i] = c[n + i]
    <3>1. (n + 1) + i - 1 = n + i
      BY <1>3
    <3> QED
      BY <1>5, <2>1, <3>1
  <2> QED
    BY <2>2, <2>3
<1>7. DOMAIN d = 1 .. (l - n)
  BY <1>5, <1>6, LenProperties
<1> QED
  BY <1>1, <1>4, <1>5, <1>6, <1>7 DEF Behind

LEMMA BeforeOf ==
  ASSUME NEW c \in Seq(Cells), NEW n \in 0 .. Len(c)
  PROVE  /\ Before(c, n) \in Seq(Cells) /\ Len(Before(c, n)) = n
         /\ DOMAIN Before(c, n) = 1 .. n
         /\ \A i \in 1 .. n : Before(c, n)[i] = c[i]
<1>1. PICK l \in Nat : l = Len(c)
  BY LenProperties
<1>2. \A i \in 1 .. n : c[i] \in Cells
  <2>1. ASSUME NEW i \in 1 .. n PROVE i \in 1 .. Len(c)
    BY <1>1
  <2> QED
    BY <2>1, ElementOfSeq
<1>3. n \in Nat /\ n \in Int /\ 1 \in Int
  BY <1>1
<1>4. PICK d : d = SubSeq(c, 1, n)
  OBVIOUS
<1>5. /\ d \in Seq(Cells) /\ Len(d) = (IF 1 <= n THEN n - 1 + 1 ELSE 0)
      /\ \A i \in 1 .. (n - 1 + 1) : d[i] = c[1 + i - 1]
  BY <1>2, <1>3, <1>4, SubSeqProperties
<1>6. Len(d) = n /\ \A i \in 1 .. n : d[i] = c[i]
  <2>1. ASSUME NEW i \in 1 .. n PROVE d[i] = c[i]
    <3>1. 1 + i - 1 = i /\ n - 1 + 1 = n
      BY <1>3
    <3> QED
      BY <1>5, <3>1
  <2> QED
    BY <1>3, <1>5, <2>1
<1>7. DOMAIN d = 1 .. n
  BY <1>5, <1>6, LenProperties
<1> QED
  BY <1>4, <1>5, <1>6, <1>7 DEF Before

LEMMA JoinOf ==
  ASSUME NEW c \in Seq(Cells), NEW d \in Seq(Cells)
  PROVE  /\ c \o d \in Seq(Cells) /\ Len(c \o d) = Len(c) + Len(d)
         /\ Len(c) \in Nat /\ Len(d) \in Nat
         /\ DOMAIN (c \o d) = 1 .. (Len(c) + Len(d))
         /\ \A i \in 1 .. Len(c) : (c \o d)[i] = c[i]
         /\ \A i \in 1 .. Len(d) : (c \o d)[Len(c) + i] = d[i]
<1>1. PICK k \in Nat, l \in Nat : k = Len(c) /\ l = Len(d)
  BY LenProperties
<1>2. PICK e : e = c \o d
  OBVIOUS
<1>3. e \in Seq(Cells) /\ Len(e) = k + l
      /\ \A i \in 1 .. (k + l) : e[i] = IF i <= k THEN c[i] ELSE d[i - k]
  BY <1>1, <1>2, ConcatProperties
<1>4. \A i \in 1 .. k : e[i] = c[i]
  BY <1>3
<1>5. ASSUME NEW i \in 1 .. l PROVE e[k + i] = d[i]
  <2>1. k + i \in 1 .. (k + l) /\ ~(k + i <= k) /\ (k + i) - k = i
    OBVIOUS
  <2> QED
    BY <1>3, <2>1
<1>6. DOMAIN e = 1 .. (k + l)
  BY <1>3, LenProperties
<1> QED
  BY <1>1, <1>2, <1>3, <1>4, <1>5, <1>6

\* What is read goes from the one to the other.
LEMMA ReadStays ==
  ASSUME NEW b \in Seq(Cells), NEW w \in Seq(Cells), NEW n \in 0 .. Len(w)
  PROVE  (b \o Before(w, n)) \o Behind(w, n) = b \o w
<1>1. Before(w, n) \o Behind(w, n) = w
  <2>1. PICK l \in Nat : l = Len(w)
    BY LenProperties
  <2>2. 1 \in 1 .. Len(w) + 1 /\ n \in 1 - 1 .. Len(w) /\ Len(w) \in n .. Len(w)
    BY <2>1
  <2>3. SubSeq(w, 1, n) \o SubSeq(w, n + 1, Len(w)) = SubSeq(w, 1, Len(w))
    BY <2>2, ConcatAdjacentSubSeq
  <2> QED
    BY <2>3, SubSeqFull DEF Before, Behind
<1>2. PICK x \in Seq(Cells), y \in Seq(Cells) : x = Before(w, n) /\ y = Behind(w, n)
  BY BeforeOf, BehindOf
<1>3. (b \o x) \o y = b \o (x \o y)
  BY ConcatAssociative, SMTT(20)
<1> QED
  BY <1>1, <1>2, <1>3

\* The beginning of the buffer is that of the stream.
LEMMA EatStream ==
  ASSUME NEW b \in Seq(Cells), NEW w \in Seq(Cells), NEW n \in 0 .. Len(b)
  PROVE  Behind(b, n) \o w = Behind(b \o w, n)
<1>1. PICK k \in Nat, l \in Nat : k = Len(b) /\ l = Len(w)
  BY LenProperties
<1>2. n \in 0 .. k
  BY <1>1
<1>3. PICK s : s = b \o w
  OBVIOUS
<1>4. s \in Seq(Cells) /\ Len(s) = k + l /\ (\A i \in 1 .. k : s[i] = b[i])
      /\ \A i \in 1 .. l : s[k + i] = w[i]
  BY <1>1, <1>3, JoinOf
<1>5. n \in 0 .. Len(s)
  BY <1>1, <1>2, <1>4
<1>6. PICK x : x = Behind(s, n)
  OBVIOUS
<1>7. x \in Seq(Cells) /\ Len(x) = (k + l) - n /\ \A i \in 1 .. ((k + l) - n) : x[i] = s[n + i]
  <2>1. Behind(s, n) \in Seq(Cells) /\ Len(Behind(s, n)) = Len(s) - n
        /\ \A i \in 1 .. (Len(s) - n) : Behind(s, n)[i] = s[n + i]
    BY <1>4, <1>5, BehindOf
  <2> QED
    BY <1>4, <1>6, <2>1
<1>8. PICK a : a = Behind(b, n)
  OBVIOUS
<1>9. a \in Seq(Cells) /\ Len(a) = k - n /\ \A i \in 1 .. (k - n) : a[i] = b[n + i]
  BY <1>1, <1>8, BehindOf
<1>10. PICK y : y = a \o w
  OBVIOUS
<1>11. y \in Seq(Cells) /\ Len(y) = (k - n) + l /\ (\A i \in 1 .. (k - n) : y[i] = a[i])
       /\ \A i \in 1 .. l : y[(k - n) + i] = w[i]
  <2>1. a \o w \in Seq(Cells) /\ Len(a \o w) = Len(a) + Len(w)
        /\ (\A i \in 1 .. Len(a) : (a \o w)[i] = a[i])
        /\ \A i \in 1 .. Len(w) : (a \o w)[Len(a) + i] = w[i]
    <3>1. a \in Seq(Cells) /\ w \in Seq(Cells)
      BY <1>9
    <3> QED
      BY <3>1, JoinOf
  <2> QED
    BY <1>1, <1>9, <1>10, <2>1
<1>12. ASSUME NEW i \in 1 .. Len(x) PROVE x[i] = y[i]
  <2>1. i \in 1 .. ((k + l) - n) /\ x[i] = s[n + i]
    BY <1>7
  <2>2. CASE i \in 1 .. (k - n)
    <3>1. n + i \in 1 .. k
      BY <1>2, <2>2
    <3> QED
      BY <1>4, <1>9, <1>11, <2>1, <2>2, <3>1
  <2>3. CASE ~(i \in 1 .. (k - n))
    <3>1. PICK j \in 1 .. l : i = (k - n) + j
      <4>1. i - (k - n) \in 1 .. l /\ i = (k - n) + (i - (k - n))
        BY <1>2, <2>1, <2>3
      <4> QED
        BY <4>1
    <3>2. n + i = k + j
      BY <1>2, <3>1
    <3> QED
      BY <1>4, <1>11, <2>1, <3>1, <3>2
  <2> QED
    BY <2>2, <2>3
<1>13. Len(x) = Len(y)
  BY <1>2, <1>7, <1>11
<1>14. x = y
  BY <1>7, <1>11, <1>12, <1>13, SeqEqual
<1> QED
  BY <1>3, <1>6, <1>8, <1>10, <1>14

\* A set of places has a first one.
LEMMA FirstOfSome ==
  ASSUME NEW S \in SUBSET Nat, S # {}
  PROVE  FirstAt(S) \in S /\ \A j \in S : FirstAt(S) <= j
<1> DEFINE R == {ss \in Nat \X Nat : ss[1] < ss[2]}
<1>1. IsWellFoundedOn(R, Nat)
  BY NatLessThanWellFounded DEF OpToRel
<1>2. PICK i \in S : \A j \in S : <<j, i>> \notin R
  <2> HIDE DEF R
  <2> QED
    BY <1>1, WFMin
<1>3. \A j \in S : ~(j < i)
  BY <1>2
<1>4. \A j \in S : i <= j
  BY <1>3
<1> QED
  BY <1>4 DEF FirstAt

-----------------------------------------------------------------------------
(* Cells.                                                                    *)

LEMMA EncryptOf ==
  ASSUME NEW c \in Seq(Cells), NEW n \in Nat
  PROVE  /\ Encrypt(c, n) \in Seq(Cells) /\ Len(Encrypt(c, n)) = Len(c)
         /\ \A i \in 1 .. Len(c) : /\ Encrypt(c, n)[i].what = c[i].what
                                   /\ Encrypt(c, n)[i].v = c[i].v
                                   /\ Encrypt(c, n)[i].key = n + i
<1>1. PICK l \in Nat : l = Len(c)
  BY LenProperties
<1>2. DOMAIN c = 1 .. l /\ \A i \in 1 .. l : c[i] \in Cells
  BY <1>1, LenProperties, ElementOfSeq
<1>3. PICK d : d = [k \in 1 .. l |-> [c[k] EXCEPT !.key = n + k]]
  OBVIOUS
<1>4. d = Encrypt(c, n)
  BY <1>2, <1>3 DEF Encrypt
<1>5. \A i \in 1 .. l : /\ d[i] \in Cells /\ d[i].what = c[i].what
                        /\ d[i].v = c[i].v /\ d[i].key = n + i
  BY <1>2, <1>3 DEF Cells
<1>6. d \in [1 .. l -> Cells]
  BY <1>3, <1>5
<1>7. d \in Seq(Cells) /\ Len(d) = l
  BY <1>6
<1> QED
  BY <1>1, <1>4, <1>5, <1>7

\* What is decrypted at its place comes out, the rest is junk.
LEMMA DecryptOf ==
  ASSUME NEW c \in Seq(Cells), NEW n \in Nat
  PROVE  /\ Decrypt(c, n) \in Seq(Cells) /\ Len(Decrypt(c, n)) = Len(c)
         /\ DOMAIN Decrypt(c, n) = 1 .. Len(c)
         /\ \A i \in 1 .. Len(c) :
              IF c[i].key = n + i
              THEN /\ Decrypt(c, n)[i].what = c[i].what /\ Decrypt(c, n)[i].v = c[i].v
                   /\ Decrypt(c, n)[i].key = 0
              ELSE Decrypt(c, n)[i] = Plain("junk")
<1>1. PICK l \in Nat : l = Len(c)
  BY LenProperties
<1>2. DOMAIN c = 1 .. l /\ \A i \in 1 .. l : c[i] \in Cells
  BY <1>1, LenProperties, ElementOfSeq
<1>3. PICK d : d = [k \in 1 .. l |-> IF c[k].key = n + k THEN [c[k] EXCEPT !.key = 0]
                                     ELSE Plain("junk")]
  OBVIOUS
<1>4. d = Decrypt(c, n)
  BY <1>2, <1>3 DEF Decrypt
<1>5. Plain("junk") \in Cells
  BY DEF Plain, Value, Cells, Whats
<1>6. \A i \in 1 .. l :
        /\ d[i] \in Cells
        /\ IF c[i].key = n + i
           THEN d[i].what = c[i].what /\ d[i].v = c[i].v /\ d[i].key = 0
           ELSE d[i] = Plain("junk")
  <2> HIDE DEF Plain
  <2> QED
    BY <1>2, <1>3, <1>5 DEF Cells
<1>7. d \in [1 .. l -> Cells]
  BY <1>3, <1>6
<1>8. d \in Seq(Cells) /\ Len(d) = l /\ DOMAIN d = 1 .. l
  BY <1>7
<1> QED
  BY <1>1, <1>4, <1>6, <1>8

\* What follows a handshake byte keeps to itself when cells are added or eaten.
LEMMA Joins ==
  ASSUME NEW c \in Seq(Cells), NEW x \in Seq(Cells)
  PROVE  /\ \A n, p : RequestsWhole(c, n, p) /\ RequestsWhole(x, n, p) => RequestsWhole(c \o x, n, p)
         /\ \A s : AnswersWhole(c, s) /\ AnswersWhole(x, s) => AnswersWhole(c \o x, s)
         /\ NoAnswer(c) /\ NoAnswer(x) => NoAnswer(c \o x)
         /\ AtMostOne(c) /\ AtMostOne(x) => AtMostOne(c \o x)
<1>1. PICK k \in Nat, l \in Nat : k = Len(c) /\ l = Len(x)
  BY LenProperties
<1>2. PICK y : y = c \o x
  OBVIOUS
<1>3. Len(y) = k + l /\ (\A i \in 1 .. k : y[i] = c[i]) /\ \A i \in 1 .. l : y[k + i] = x[i]
  BY <1>1, <1>2, JoinOf
<1>4. ASSUME NEW i \in 1 .. (k + l), ~(i \in 1 .. k)
      PROVE  \E j \in 1 .. l : i = k + j
  <2>1. i - k \in 1 .. l /\ i = k + (i - k)
    BY <1>4
  <2> QED
    BY <2>1
<1>5. ASSUME NEW n, NEW p, RequestsWhole(c, n, p), RequestsWhole(x, n, p)
      PROVE  RequestsWhole(y, n, p)
  <2>1. SUFFICES ASSUME NEW i \in 1 .. (k + l), y[i].what = "req1"
                 PROVE  i + 4 <= k + l /\ y[i + 2].key = n + 1
                        /\ y[i + 3].key = n + 2 /\ y[i + 3].v = p
    BY <1>3 DEF RequestsWhole
  <2>2. CASE i \in 1 .. k
    <3>1. i + 4 <= k /\ c[i + 2].key = n + 1 /\ c[i + 3].key = n + 2 /\ c[i + 3].v = p
      <4>1. c[i].what = "req1"
        BY <1>3, <2>1, <2>2
      <4> QED
        BY <1>1, <1>5, <2>2, <4>1 DEF RequestsWhole
    <3>2. i + 2 \in 1 .. k /\ i + 3 \in 1 .. k
      BY <3>1
    <3> QED
      BY <1>3, <3>1, <3>2
  <2>3. CASE ~(i \in 1 .. k)
    <3>1. PICK j \in 1 .. l : i = k + j
      BY <1>4, <2>3
    <3>2. j + 4 <= l /\ x[j + 2].key = n + 1 /\ x[j + 3].key = n + 2 /\ x[j + 3].v = p
      <4>1. x[j].what = "req1"
        BY <1>3, <2>1, <3>1
      <4> QED
        BY <1>1, <1>5, <4>1 DEF RequestsWhole
    <3>3. j + 2 \in 1 .. l /\ j + 3 \in 1 .. l /\ i + 2 = k + (j + 2) /\ i + 3 = k + (j + 3)
      BY <3>1, <3>2
    <3> QED
      BY <1>3, <3>1, <3>2, <3>3
  <2> QED
    BY <2>2, <2>3
<1>6. ASSUME NEW s, AnswersWhole(c, s), AnswersWhole(x, s)
      PROVE  AnswersWhole(y, s)
  <2>1. SUFFICES ASSUME NEW i \in 1 .. (k + l), y[i].what = "vc"
                 PROVE  i + 2 <= k + l /\ y[i + 1].key = y[i].key + 1 /\ y[i + 1].v = s
    BY <1>3 DEF AnswersWhole
  <2>2. CASE i \in 1 .. k
    <3>1. i + 2 <= k /\ c[i + 1].key = c[i].key + 1 /\ c[i + 1].v = s
      <4>1. c[i].what = "vc"
        BY <1>3, <2>1, <2>2
      <4> QED
        BY <1>1, <1>6, <2>2, <4>1 DEF AnswersWhole
    <3>2. i + 1 \in 1 .. k
      BY <3>1
    <3> QED
      BY <1>3, <2>2, <3>1, <3>2
  <2>3. CASE ~(i \in 1 .. k)
    <3>1. PICK j \in 1 .. l : i = k + j
      BY <1>4, <2>3
    <3>2. j + 2 <= l /\ x[j + 1].key = x[j].key + 1 /\ x[j + 1].v = s
      <4>1. x[j].what = "vc"
        BY <1>3, <2>1, <3>1
      <4> QED
        BY <1>1, <1>6, <4>1 DEF AnswersWhole
    <3>3. j + 1 \in 1 .. l /\ i + 1 = k + (j + 1)
      BY <3>1, <3>2
    <3>4. y[i] = x[j] /\ y[i + 1] = x[j + 1]
      BY <1>3, <3>1, <3>3
    <3>5. i + 2 <= k + l
      BY <3>1, <3>2
    <3> QED
      BY <3>2, <3>4, <3>5
  <2> QED
    BY <2>2, <2>3
<1>7. ASSUME NoAnswer(c), NoAnswer(x) PROVE NoAnswer(y)
  <2>1. ASSUME NEW i \in 1 .. (k + l)
        PROVE  (\E j \in 1 .. k : y[i] = c[j]) \/ \E j \in 1 .. l : y[i] = x[j]
    BY <1>3, <1>4
  <2> QED
    BY <1>1, <1>3, <1>7, <2>1 DEF NoAnswer
<1>8. ASSUME AtMostOne(c), AtMostOne(x) PROVE AtMostOne(y)
  <2>1. ASSUME NEW i \in 1 .. (k + l)
        PROVE  (\E j \in 1 .. k : y[i] = c[j]) \/ \E j \in 1 .. l : y[i] = x[j]
    BY <1>3, <1>4
  <2> QED
    BY <1>1, <1>3, <1>8, <2>1 DEF AtMostOne
<1> QED
  BY <1>2, <1>5, <1>6, <1>7, <1>8

LEMMA Cuts ==
  ASSUME NEW c \in Seq(Cells), NEW m \in 0 .. Len(c)
  PROVE  /\ \A n, p : RequestsWhole(c, n, p) => RequestsWhole(Behind(c, m), n, p)
         /\ \A s : AnswersWhole(c, s) => AnswersWhole(Behind(c, m), s)
         /\ NoAnswer(c) => NoAnswer(Behind(c, m))
         /\ AtMostOne(c) => AtMostOne(Behind(c, m))
<1>1. PICK k \in Nat : k = Len(c)
  BY LenProperties
<1>2. PICK y : y = Behind(c, m)
  OBVIOUS
<1>3. Len(y) = k - m /\ \A i \in 1 .. (k - m) : y[i] = c[m + i]
  BY <1>1, <1>2, BehindOf
<1>4. m \in 0 .. k
  BY <1>1
<1>5. \A i \in 1 .. (k - m) : m + i \in 1 .. k
  BY <1>4
<1>6. ASSUME NEW n, NEW p, RequestsWhole(c, n, p) PROVE RequestsWhole(y, n, p)
  <2>1. SUFFICES ASSUME NEW i \in 1 .. (k - m), y[i].what = "req1"
                 PROVE  i + 4 <= k - m /\ y[i + 2].key = n + 1
                        /\ y[i + 3].key = n + 2 /\ y[i + 3].v = p
    BY <1>3 DEF RequestsWhole
  <2>2. PICK j \in 1 .. k : j = m + i
    BY <1>5
  <2>3. j + 4 <= k /\ c[j + 2].key = n + 1 /\ c[j + 3].key = n + 2 /\ c[j + 3].v = p
    BY <1>1, <1>3, <1>6, <2>1, <2>2 DEF RequestsWhole
  <2>4. i + 2 \in 1 .. (k - m) /\ i + 3 \in 1 .. (k - m)
        /\ m + (i + 2) = j + 2 /\ m + (i + 3) = j + 3 /\ i + 4 <= k - m
    BY <1>4, <2>2, <2>3
  <2> QED
    BY <1>3, <2>3, <2>4
<1>7. ASSUME NEW s, AnswersWhole(c, s) PROVE AnswersWhole(y, s)
  <2>1. SUFFICES ASSUME NEW i \in 1 .. (k - m), y[i].what = "vc"
                 PROVE  i + 2 <= k - m /\ y[i + 1].key = y[i].key + 1 /\ y[i + 1].v = s
    BY <1>3 DEF AnswersWhole
  <2>2. PICK j \in 1 .. k : j = m + i
    BY <1>5
  <2>3. j + 2 <= k /\ c[j + 1].key = c[j].key + 1 /\ c[j + 1].v = s
    BY <1>1, <1>3, <1>7, <2>1, <2>2 DEF AnswersWhole
  <2>4. i + 1 \in 1 .. (k - m) /\ m + (i + 1) = j + 1 /\ i + 2 <= k - m
    BY <1>4, <2>2, <2>3
  <2> QED
    BY <1>3, <2>2, <2>3, <2>4
<1>8. ASSUME NoAnswer(c) PROVE NoAnswer(y)
  BY <1>1, <1>3, <1>5, <1>8 DEF NoAnswer
<1>9. ASSUME AtMostOne(c) PROVE AtMostOne(y)
  BY <1>1, <1>3, <1>5, <1>9 DEF AtMostOne
<1> QED
  BY <1>2, <1>6, <1>7, <1>8, <1>9

-----------------------------------------------------------------------------
(* What the ends write.                                                      *)

LEMMA PaddingOf ==
  ASSUME NEW n \in Nat
  PROVE  /\ Padding(n) \in Seq(Cells) /\ Len(Padding(n)) = n
         /\ \A i \in 1 .. n : Padding(n)[i].what = "pad"
<1>1. PICK d : d = [k \in 1 .. n |-> Plain("pad")]
  OBVIOUS
<1>2. \A i \in 1 .. n : d[i] \in Cells /\ d[i].what = "pad"
  BY <1>1 DEF Plain, Value, Cells, Whats
<1>3. d \in [1 .. n -> Cells]
  BY <1>1, <1>2
<1>4. d \in Seq(Cells) /\ Len(d) = n
  BY <1>3
<1> QED
  BY <1>1, <1>2, <1>4 DEF Padding

KeyCells(n) == PublicKey \o Padding(n)

LEMMA KeyOf ==
  ASSUME NEW n \in Nat
  PROVE  /\ KeyCells(n) \in Seq(Cells) /\ Len(KeyCells(n)) = n + 2
         /\ \A i \in 1 .. (n + 2) : KeyCells(n)[i].what \in {"pub", "pub2", "pad"}
<1>1. PICK x : x = PublicKey
  OBVIOUS
<1>2. x \in Seq(Cells) /\ Len(x) = 2 /\ x[1].what = "pub" /\ x[2].what = "pub2"
  BY <1>1 DEF PublicKey, Plain, Value, Cells, Whats
<1>3. PICK y \in Seq(Cells) : y = Padding(n) /\ Len(y) = n /\ \A i \in 1 .. n : y[i].what = "pad"
  BY PaddingOf
<1>4. PICK z : z = x \o y
  OBVIOUS
<1>5. z \in Seq(Cells) /\ Len(z) = 2 + n /\ (\A i \in 1 .. 2 : z[i] = x[i])
      /\ \A i \in 1 .. n : z[2 + i] = y[i]
  <2>1. x \in Seq(Cells) /\ y \in Seq(Cells)
    BY <1>2
  <2> QED
    <3>1. /\ x \o y \in Seq(Cells) /\ Len(x \o y) = Len(x) + Len(y)
          /\ \A i \in 1 .. Len(x) : (x \o y)[i] = x[i]
          /\ \A i \in 1 .. Len(y) : (x \o y)[Len(x) + i] = y[i]
      BY <2>1, JoinOf
    <3> QED
      BY <1>2, <1>3, <1>4, <3>1
<1>6. ASSUME NEW i \in 1 .. (n + 2) PROVE z[i].what \in {"pub", "pub2", "pad"}
  <2>1. CASE i = 1 \/ i = 2
    BY <1>2, <1>5, <2>1
  <2>2. CASE ~(i = 1 \/ i = 2)
    <3>1. i - 2 \in 1 .. n /\ 2 + (i - 2) = i
      BY <2>2
    <3> QED
      BY <1>3, <1>5, <3>1
  <2> QED
    BY <2>1, <2>2
<1> QED
  BY <1>1, <1>3, <1>4, <1>5, <1>6 DEF KeyCells

\* The offer of A, as far as the proofs look at it.
LEMMA OfferOf ==
  ASSUME MseAssumption, MseTypeOK
  PROVE  /\ offer.crypt \in BOOLEAN /\ offer.ia \in BOOLEAN /\ offer.provide \in 1 .. 3
         /\ Dropped \in Nat /\ Ia \in 0 .. 1 /\ (Ia = 1 <=> offer.ia)
  BY DEF MseAssumption, MseTypeOK, Dropped, Ia

SecretA(n) ==
  <<Plain("vc"), Value("provide", offer.provide), Value("len", n)>> \o Padding(n)
    \o <<Value("ialen", IF offer.ia THEN 1 ELSE 0)>>
    \o (IF offer.ia THEN <<Plain("shake")>> ELSE <<>>)
RequestCells(n) == <<Plain("req1"), Plain("req23")>> \o Encrypt(SecretA(n), Dropped)
SecretB(n) == <<Plain("vc"), Value("select", Selected), Value("len", n)>> \o Padding(n)

\* Three cells and a padding.
LEMMA HeadOf ==
  ASSUME NEW n \in Nat, NEW x \in Seq(Cells), Len(x) = 3
  PROVE  /\ x \o Padding(n) \in Seq(Cells) /\ Len(x \o Padding(n)) = n + 3
         /\ \A i \in 1 .. 3 : (x \o Padding(n))[i] = x[i]
         /\ \A i \in 4 .. (n + 3) : (x \o Padding(n))[i].what = "pad"
<1>1. PICK y : y = Padding(n)
  OBVIOUS
<1>2. y \in Seq(Cells) /\ Len(y) = n /\ \A i \in 1 .. n : y[i].what = "pad"
  BY <1>1, PaddingOf
<1>3. y \in Seq(Cells)
  BY <1>2
<1>4. /\ x \o y \in Seq(Cells) /\ Len(x \o y) = Len(x) + Len(y)
      /\ \A i \in 1 .. Len(x) : (x \o y)[i] = x[i]
      /\ \A i \in 1 .. Len(y) : (x \o y)[Len(x) + i] = y[i]
  <2>1. x \in Seq(Cells) /\ y \in Seq(Cells)
    BY <1>3
  <2> QED
    BY <2>1, JoinOf
<1>5. ASSUME NEW i \in 4 .. (n + 3) PROVE (x \o y)[i].what = "pad"
  <2>1. i - 3 \in 1 .. n /\ 3 + (i - 3) = i
    BY <1>5
  <2> QED
    BY <1>2, <1>4, <2>1
<1> QED
  BY <1>1, <1>2, <1>4, <1>5

LEMMA SecretAOf ==
  ASSUME MseAssumption, MseTypeOK, NEW n \in Nat
  PROVE  /\ SecretA(n) \in Seq(Cells) /\ Len(SecretA(n)) = n + 4 + Ia
         /\ SecretA(n)[1].what = "vc"
         /\ SecretA(n)[2].what = "provide" /\ SecretA(n)[2].v = offer.provide
         /\ SecretA(n)[3].what = "len" /\ SecretA(n)[3].v = n
         /\ \A i \in 4 .. (n + 3) : SecretA(n)[i].what = "pad"
         /\ SecretA(n)[n + 4].what = "ialen" /\ SecretA(n)[n + 4].v = Ia
         /\ offer.ia => SecretA(n)[n + 5].what = "shake"
<1>1. offer.ia \in BOOLEAN /\ offer.provide \in Nat
      /\ Ia \in 0 .. 1 /\ (Ia = 1 <=> offer.ia)
  BY OfferOf
<1>2. PICK x : x = <<Plain("vc"), Value("provide", offer.provide), Value("len", n)>>
  OBVIOUS
<1>3. x \in Seq(Cells) /\ Len(x) = 3 /\ x[1].what = "vc"
      /\ x[2].what = "provide" /\ x[2].v = offer.provide /\ x[3].what = "len" /\ x[3].v = n
  BY <1>1, <1>2 DEF Plain, Value, Cells, Whats
<1>4. x \in Seq(Cells)
  BY <1>3
<1>5. PICK y : y = x \o Padding(n)
  OBVIOUS
<1>6. y \in Seq(Cells) /\ Len(y) = n + 3 /\ (\A i \in 1 .. 3 : y[i] = x[i])
      /\ \A i \in 4 .. (n + 3) : y[i].what = "pad"
  BY <1>3, <1>4, <1>5, HeadOf
<1>7. y \in Seq(Cells)
  BY <1>6
<1>8. PICK z : z = <<Value("ialen", IF offer.ia THEN 1 ELSE 0)>>
  OBVIOUS
<1>9. z \in Seq(Cells) /\ Len(z) = 1 /\ z[1].what = "ialen" /\ z[1].v = Ia
  BY <1>8 DEF Value, Cells, Whats, Ia
<1>10. z \in Seq(Cells)
  BY <1>9
<1>11. PICK u : u = y \o z
  OBVIOUS
<1>12. u \in Seq(Cells) /\ Len(u) = n + 4 /\ (\A i \in 1 .. (n + 3) : u[i] = y[i])
       /\ u[n + 4] = z[1]
  <2>1. /\ y \o z \in Seq(Cells) /\ Len(y \o z) = Len(y) + Len(z)
        /\ \A i \in 1 .. Len(y) : (y \o z)[i] = y[i]
        /\ \A i \in 1 .. Len(z) : (y \o z)[Len(y) + i] = z[i]
    BY <1>7, <1>10, JoinOf
  <2>2. 1 \in 1 .. Len(z) /\ Len(y) + 1 = n + 4
    BY <1>6, <1>9
  <2> QED
    BY <1>6, <1>9, <1>11, <2>1, <2>2
<1>13. u \in Seq(Cells)
  BY <1>12
<1>14. PICK w : w = IF offer.ia THEN <<Plain("shake")>> ELSE <<>>
  OBVIOUS
<1>15. w \in Seq(Cells) /\ Len(w) = Ia /\ (offer.ia => w[1].what = "shake")
  <2>1. CASE offer.ia
    BY <1>1, <1>14, <2>1 DEF Plain, Value, Cells, Whats
  <2>2. CASE ~offer.ia
    BY <1>1, <1>14, <2>2
  <2> QED
    BY <2>1, <2>2
<1>16. w \in Seq(Cells)
  BY <1>15
<1>17. PICK t : t = u \o w
  OBVIOUS
<1>18. t \in Seq(Cells) /\ Len(t) = n + 4 + Ia /\ (\A i \in 1 .. (n + 4) : t[i] = u[i])
       /\ (offer.ia => t[n + 5] = w[1])
  <2>1. /\ u \o w \in Seq(Cells) /\ Len(u \o w) = Len(u) + Len(w)
        /\ \A i \in 1 .. Len(u) : (u \o w)[i] = u[i]
        /\ \A i \in 1 .. Len(w) : (u \o w)[Len(u) + i] = w[i]
    BY <1>13, <1>16, JoinOf
  <2>2. offer.ia => 1 \in 1 .. Len(w) /\ Len(u) + 1 = n + 5
    BY <1>1, <1>12, <1>15
  <2> QED
    BY <1>12, <1>15, <1>17, <2>1, <2>2
<1>19. t = SecretA(n)
  BY <1>2, <1>5, <1>8, <1>11, <1>14, <1>17 DEF SecretA
<1>20. \A i \in 1 .. 3 : t[i] = x[i]
  BY <1>6, <1>12, <1>18
<1>21. \A i \in 4 .. (n + 3) : t[i].what = "pad"
  BY <1>6, <1>12, <1>18
<1>22. t[n + 4] = z[1]
  BY <1>12, <1>18
<1> QED
  BY <1>3, <1>9, <1>15, <1>18, <1>19, <1>20, <1>21, <1>22

LEMMA RequestOf ==
  ASSUME MseAssumption, MseTypeOK, NEW n \in Nat
  PROVE  /\ RequestCells(n) \in Seq(Cells) /\ Len(RequestCells(n)) = n + 6 + Ia
         /\ RequestCells(n)[1].what = "req1" /\ RequestCells(n)[1].key = 0
         /\ RequestCells(n)[2].what = "req23"
         /\ RequestCells(n)[3].what = "vc"
         /\ RequestCells(n)[4].what = "provide" /\ RequestCells(n)[4].v = offer.provide
         /\ RequestCells(n)[5].what = "len" /\ RequestCells(n)[5].v = n
         /\ \A i \in 6 .. (n + 5) : RequestCells(n)[i].what = "pad"
         /\ RequestCells(n)[n + 6].what = "ialen" /\ RequestCells(n)[n + 6].v = Ia
         /\ offer.ia => RequestCells(n)[n + 7].what = "shake"
         /\ \A i \in 3 .. (n + 6 + Ia) : RequestCells(n)[i].key = Dropped + (i - 2)
<1>1. Dropped \in Nat /\ Ia \in 0 .. 1 /\ (Ia = 1 <=> offer.ia)
  BY OfferOf
<1>2. PICK d : d = SecretA(n)
  OBVIOUS
<1>3. /\ d \in Seq(Cells) /\ Len(d) = n + 4 + Ia
      /\ d[1].what = "vc"
      /\ d[2].what = "provide" /\ d[2].v = offer.provide
      /\ d[3].what = "len" /\ d[3].v = n
      /\ \A i \in 4 .. (n + 3) : d[i].what = "pad"
      /\ d[n + 4].what = "ialen" /\ d[n + 4].v = Ia
      /\ offer.ia => d[n + 5].what = "shake"
  <2>1. /\ SecretA(n) \in Seq(Cells) /\ Len(SecretA(n)) = n + 4 + Ia
        /\ SecretA(n)[1].what = "vc"
        /\ SecretA(n)[2].what = "provide" /\ SecretA(n)[2].v = offer.provide
        /\ SecretA(n)[3].what = "len" /\ SecretA(n)[3].v = n
        /\ \A i \in 4 .. (n + 3) : SecretA(n)[i].what = "pad"
        /\ SecretA(n)[n + 4].what = "ialen" /\ SecretA(n)[n + 4].v = Ia
        /\ offer.ia => SecretA(n)[n + 5].what = "shake"
    BY SecretAOf
  <2> HIDE DEF SecretA
  <2> QED
    BY <1>2, <2>1
<1>4. d \in Seq(Cells)
  BY <1>3
<1>5. PICK e : e = Encrypt(d, Dropped)
  OBVIOUS
<1>6. e \in Seq(Cells) /\ Len(e) = n + 4 + Ia
      /\ \A i \in 1 .. (n + 4 + Ia) : /\ e[i].what = d[i].what /\ e[i].v = d[i].v
                                      /\ e[i].key = Dropped + i
  <2>1. /\ Encrypt(d, Dropped) \in Seq(Cells) /\ Len(Encrypt(d, Dropped)) = Len(d)
        /\ \A i \in 1 .. Len(d) : /\ Encrypt(d, Dropped)[i].what = d[i].what
                                  /\ Encrypt(d, Dropped)[i].v = d[i].v
                                  /\ Encrypt(d, Dropped)[i].key = Dropped + i
    BY <1>1, <1>4, EncryptOf
  <2> QED
    BY <1>3, <1>5, <2>1
<1>7. e \in Seq(Cells)
  BY <1>6
<1>8. PICK x : x = <<Plain("req1"), Plain("req23")>>
  OBVIOUS
<1>9. x \in Seq(Cells) /\ Len(x) = 2 /\ x[1].what = "req1" /\ x[1].key = 0 /\ x[2].what = "req23"
  BY <1>8 DEF Plain, Value, Cells, Whats
<1>10. x \in Seq(Cells)
  BY <1>9
<1>11. PICK r : r = x \o e
  OBVIOUS
<1>12. r \in Seq(Cells) /\ Len(r) = n + 6 + Ia /\ (\A i \in 1 .. 2 : r[i] = x[i])
       /\ \A i \in 1 .. (n + 4 + Ia) : r[2 + i] = e[i]
  <2>1. /\ x \o e \in Seq(Cells) /\ Len(x \o e) = Len(x) + Len(e)
        /\ \A i \in 1 .. Len(x) : (x \o e)[i] = x[i]
        /\ \A i \in 1 .. Len(e) : (x \o e)[Len(x) + i] = e[i]
    BY <1>7, <1>10, JoinOf
  <2> QED
    BY <1>1, <1>6, <1>9, <1>11, <2>1, SMTT(20)
<1>13. r = RequestCells(n)
  BY <1>2, <1>5, <1>8, <1>11 DEF RequestCells
<1>14. ASSUME NEW i \in 3 .. (n + 6 + Ia)
       PROVE  i - 2 \in 1 .. (n + 4 + Ia) /\ r[i] = e[i - 2]
  <2>1. i - 2 \in 1 .. (n + 4 + Ia) /\ 2 + (i - 2) = i
    BY <1>1, <1>14
  <2> QED
    BY <1>12, <2>1
<1>15. /\ r[3] = e[1] /\ r[4] = e[2] /\ r[5] = e[3] /\ r[n + 6] = e[n + 4]
       /\ 1 \in 1 .. (n + 4 + Ia) /\ 2 \in 1 .. (n + 4 + Ia) /\ 3 \in 1 .. (n + 4 + Ia)
       /\ n + 4 \in 1 .. (n + 4 + Ia)
       /\ offer.ia => r[n + 7] = e[n + 5] /\ n + 5 \in 1 .. (n + 4 + Ia)
  <2>1. /\ 2 + 1 = 3 /\ 2 + 2 = 4 /\ 2 + 3 = 5 /\ 2 + (n + 4) = n + 6 /\ 2 + (n + 5) = n + 7
        /\ 1 \in 1 .. (n + 4 + Ia) /\ 2 \in 1 .. (n + 4 + Ia) /\ 3 \in 1 .. (n + 4 + Ia)
        /\ n + 4 \in 1 .. (n + 4 + Ia)
        /\ offer.ia => n + 5 \in 1 .. (n + 4 + Ia)
    BY <1>1
  <2> QED
    BY <1>12, <2>1
<1>16. ASSUME NEW i \in 6 .. (n + 5) PROVE r[i].what = "pad"
  <2>1. i \in 3 .. (n + 6 + Ia) /\ i - 2 \in 4 .. (n + 3)
    BY <1>1, <1>16
  <2> QED
    BY <1>3, <1>6, <1>14, <2>1
<1>17. \A i \in 3 .. (n + 6 + Ia) : r[i].key = Dropped + (i - 2)
  BY <1>6, <1>14
<1> QED
  BY <1>3, <1>6, <1>9, <1>12, <1>13, <1>15, <1>16, <1>17, SMTT(20)

LEMMA AnswerOf ==
  ASSUME MseTypeOK, NEW n \in Nat, NEW s \in Nat
  PROVE  /\ Encrypt(SecretB(n), s) \in Seq(Cells) /\ Len(Encrypt(SecretB(n), s)) = n + 3
         /\ Len(SecretB(n)) = n + 3
         /\ Encrypt(SecretB(n), s)[1].what = "vc"
         /\ Encrypt(SecretB(n), s)[2].what = "select" /\ Encrypt(SecretB(n), s)[2].v = Selected
         /\ Encrypt(SecretB(n), s)[3].what = "len" /\ Encrypt(SecretB(n), s)[3].v = n
         /\ \A i \in 4 .. (n + 3) : Encrypt(SecretB(n), s)[i].what = "pad"
         /\ \A i \in 1 .. (n + 3) : Encrypt(SecretB(n), s)[i].key = s + i
<1>1. Selected \in Nat
  BY DEF Selected
<1>2. PICK x : x = <<Plain("vc"), Value("select", Selected), Value("len", n)>>
  OBVIOUS
<1>3. x \in Seq(Cells) /\ Len(x) = 3 /\ x[1].what = "vc"
      /\ x[2].what = "select" /\ x[2].v = Selected /\ x[3].what = "len" /\ x[3].v = n
  BY <1>1, <1>2 DEF Plain, Value, Cells, Whats
<1>4. x \in Seq(Cells)
  BY <1>3
<1>5. PICK y : y = x \o Padding(n)
  OBVIOUS
<1>6. y \in Seq(Cells) /\ Len(y) = n + 3 /\ (\A i \in 1 .. 3 : y[i] = x[i])
      /\ \A i \in 4 .. (n + 3) : y[i].what = "pad"
  BY <1>3, <1>4, <1>5, HeadOf
<1>7. y \in Seq(Cells) /\ y = SecretB(n)
  BY <1>2, <1>5, <1>6 DEF SecretB
<1>8. /\ Encrypt(y, s) \in Seq(Cells) /\ Len(Encrypt(y, s)) = Len(y)
      /\ \A i \in 1 .. Len(y) : /\ Encrypt(y, s)[i].what = y[i].what
                                /\ Encrypt(y, s)[i].v = y[i].v
                                /\ Encrypt(y, s)[i].key = s + i
  BY <1>7, EncryptOf
<1>9. 1 \in 1 .. (n + 3) /\ 2 \in 1 .. (n + 3) /\ 3 \in 1 .. (n + 3)
      /\ \A i \in 4 .. (n + 3) : i \in 1 .. (n + 3)
  OBVIOUS
<1>10. 1 \in 1 .. 3 /\ 2 \in 1 .. 3 /\ 3 \in 1 .. 3
  OBVIOUS
<1> QED
  BY <1>3, <1>6, <1>7, <1>8, <1>9, <1>10, SMTT(20)

-----------------------------------------------------------------------------
(* Streams that are put together and cut.                                    *)

LEMMA BehindBehind ==
  ASSUME NEW c \in Seq(Cells), NEW m \in Nat, NEW n \in Nat, m + n <= Len(c)
  PROVE  Behind(Behind(c, m), n) = Behind(c, m + n)
<1>1. PICK l \in Nat : l = Len(c)
  BY LenProperties
<1>2. m + n <= l
  BY <1>1
<1>3. m \in 0 .. Len(c) /\ m + n \in 0 .. Len(c)
  BY <1>1, <1>2
<1>4. PICK a : a = Behind(c, m)
  OBVIOUS
<1>5. a \in Seq(Cells) /\ Len(a) = l - m /\ \A i \in 1 .. (l - m) : a[i] = c[m + i]
  BY <1>1, <1>3, <1>4, BehindOf
<1>6. PICK z : z = Behind(c, m + n)
  OBVIOUS
<1>7. z \in Seq(Cells) /\ Len(z) = l - (m + n) /\ \A i \in 1 .. (l - (m + n)) : z[i] = c[(m + n) + i]
  BY <1>1, <1>3, <1>6, BehindOf
<1>8. a \in Seq(Cells) /\ n \in 0 .. Len(a)
  BY <1>2, <1>5
<1>9. PICK y : y = Behind(a, n)
  OBVIOUS
<1>10. y \in Seq(Cells) /\ Len(y) = Len(a) - n /\ \A i \in 1 .. (Len(a) - n) : y[i] = a[n + i]
  BY <1>8, <1>9, BehindOf
<1>11. Len(y) = Len(z)
  <2>1. Len(y) = Len(a) - n /\ Len(z) = l - (m + n) /\ Len(a) = l - m
    BY <1>5, <1>7, <1>10
  <2>2. (l - m) - n = l - (m + n)
    BY <1>1
  <2> QED
    BY <2>1, <2>2
<1>12. ASSUME NEW i \in 1 .. Len(y) PROVE y[i] = z[i]
  <2>1. i \in 1 .. (Len(a) - n) /\ i \in 1 .. (l - (m + n)) /\ n + i \in 1 .. (l - m)
    BY <1>2, <1>5, <1>10
  <2>2. m + (n + i) = (m + n) + i
    OBVIOUS
  <2> QED
    BY <1>5, <1>7, <1>10, <2>1, <2>2
<1>13. y = z
  BY <1>7, <1>10, <1>11, <1>12, SeqEqual
<1> QED
  BY <1>4, <1>6, <1>9, <1>13

\* Behind the first of two sequences is the second.
LEMMA BehindJoin ==
  ASSUME NEW c \in Seq(Cells), NEW d \in Seq(Cells)
  PROVE  Behind(c \o d, Len(c)) = d
<1>1. PICK k \in Nat, l \in Nat : k = Len(c) /\ l = Len(d)
  BY LenProperties
<1>2. PICK s : s = c \o d
  OBVIOUS
<1>3. s \in Seq(Cells) /\ Len(s) = k + l /\ \A i \in 1 .. l : s[k + i] = d[i]
  BY <1>1, <1>2, JoinOf
<1>4. s \in Seq(Cells) /\ k \in 0 .. Len(s)
  BY <1>3
<1>5. PICK y : y = Behind(s, k)
  OBVIOUS
<1>6. y \in Seq(Cells) /\ Len(y) = Len(s) - k /\ \A i \in 1 .. (Len(s) - k) : y[i] = s[k + i]
  BY <1>4, <1>5, BehindOf
<1>7. Len(y) = l /\ \A i \in 1 .. l : y[i] = d[i]
  <2>1. Len(s) - k = l
    BY <1>3
  <2> QED
    BY <1>3, <1>6, <2>1
<1>8. y = d
  BY <1>1, <1>6, <1>7, SeqEqual
<1> QED
  BY <1>1, <1>2, <1>5, <1>8

LEMMA BehindNone ==
  ASSUME NEW c \in Seq(Cells)
  PROVE  Behind(c, 0) = c
<1>1. PICK l \in Nat : l = Len(c)
  BY LenProperties
<1>2. 0 \in 0 .. Len(c)
  BY <1>1
<1>3. PICK y : y = Behind(c, 0)
  OBVIOUS
<1>4. y \in Seq(Cells) /\ Len(y) = Len(c) - 0 /\ \A i \in 1 .. (Len(c) - 0) : y[i] = c[0 + i]
  BY <1>2, <1>3, BehindOf
<1>5. Len(y) = Len(c) /\ \A i \in 1 .. Len(c) : y[i] = c[i]
  BY <1>1, <1>4
<1>6. y = c
  BY <1>4, <1>5, SeqEqual
<1> QED
  BY <1>3, <1>6

\* One more cell.
LEMMA PutLast ==
  ASSUME NEW c \in Seq(Cells), NEW y \in Cells
  PROVE  /\ <<y>> \in Seq(Cells) /\ Len(<<y>>) = 1 /\ <<y>>[1] = y
         /\ c \o <<y>> \in Seq(Cells) /\ Len(c \o <<y>>) = Len(c) + 1 /\ Len(c) \in Nat
         /\ \A i \in 1 .. Len(c) : (c \o <<y>>)[i] = c[i]
         /\ (c \o <<y>>)[Len(c) + 1] = y
<1>1. PICK d : d = <<y>>
  OBVIOUS
<1>2. d \in Seq(Cells) /\ Len(d) = 1 /\ d[1] = y
  BY <1>1
<1>3. d \in Seq(Cells)
  BY <1>2
<1>4. /\ c \o d \in Seq(Cells) /\ Len(c \o d) = Len(c) + Len(d)
      /\ Len(c) \in Nat
      /\ \A i \in 1 .. Len(c) : (c \o d)[i] = c[i]
      /\ \A i \in 1 .. Len(d) : (c \o d)[Len(c) + i] = d[i]
  BY <1>3, JoinOf
<1>5. 1 \in 1 .. Len(d)
  BY <1>2
<1> QED
  BY <1>1, <1>2, <1>4, <1>5

LEMMA SpeaksOn ==
  ASSUME NEW c \in Seq(Cells), NEW y \in Cells, NEW o \in Nat,
         NEW sent \in BOOLEAN, NEW read \in BOOLEAN,
         Session(c, o, sent, read), Speaks(y, sent)
  PROVE  Session(c \o <<y>>, o, TRUE, read)
<1>1. PICK l \in Nat : l = Len(c)
  BY LenProperties
<1>2. PICK x : x = c \o <<y>>
  OBVIOUS
<1>3. Len(x) = l + 1 /\ (\A i \in 1 .. l : x[i] = c[i]) /\ x[l + 1] = y
  BY <1>1, <1>2, PutLast
<1>4. CASE sent /\ read
  <2>1. l >= o /\ \A i \in o + 1 .. l : c[i].what = "msg"
    BY <1>1, <1>4 DEF Session
  <2>2. y.what = "msg"
    BY <1>4 DEF Speaks
  <2>3. \A i \in o + 1 .. l + 1 : x[i].what = "msg"
    BY <1>3, <2>1, <2>2
  <2>4. Session(x, o, TRUE, read)
    BY <1>3, <1>4, <2>1, <2>3 DEF Session
  <2> QED
    BY <1>2, <2>4
<1>5. CASE sent /\ ~read
  <2>1. l > o /\ c[o + 1].what = "shake" /\ \A i \in o + 2 .. l : c[i].what = "msg"
    BY <1>1, <1>5 DEF Session
  <2>2. y.what = "msg"
    BY <1>5 DEF Speaks
  <2>3. x[o + 1].what = "shake" /\ \A i \in o + 2 .. l + 1 : x[i].what = "msg"
    BY <1>3, <2>1, <2>2
  <2>4. Session(x, o, TRUE, read)
    BY <1>3, <1>5, <2>1, <2>3 DEF Session
  <2> QED
    BY <1>2, <2>4
<1>6. CASE ~sent
  <2>1. ~read /\ l = o
    BY <1>1, <1>6 DEF Session
  <2>2. y.what = "shake"
    BY <1>6 DEF Speaks
  <2>3. x[o + 1].what = "shake" /\ \A i \in o + 2 .. l + 1 : x[i].what = "msg"
    BY <1>3, <2>1, <2>2
  <2>4. Session(x, o, TRUE, read)
    BY <1>3, <2>1, <2>3 DEF Session
  <2> QED
    BY <1>2, <2>4
<1> QED
  BY <1>4, <1>5, <1>6

LEMMA SealedOn ==
  ASSUME NEW f, NEW c \in Seq(Cells), NEW y \in Cells, NEW o \in Nat, NEW n \in Nat,
         SealedFrom(f, c, o, n), o <= Len(c),
         y.key = IF Sealed(f) THEN n + Len(c) + 1 - o ELSE 0
  PROVE  SealedFrom(f, c \o <<y>>, o, n)
<1>1. PICK l \in Nat : l = Len(c)
  BY LenProperties
<1>2. PICK x : x = c \o <<y>>
  OBVIOUS
<1>3. Len(x) = l + 1 /\ (\A i \in 1 .. l : x[i] = c[i]) /\ x[l + 1] = y
  BY <1>1, <1>2, PutLast
<1>4. \A i \in o + 1 .. l : c[i].key = IF Sealed(f) THEN n + i - o ELSE 0
  BY <1>1 DEF SealedFrom
<1>5. ASSUME NEW i \in o + 1 .. Len(x)
      PROVE  x[i].key = IF Sealed(f) THEN n + i - o ELSE 0
  <2>1. CASE i = l + 1
    <3>1. n + l + 1 - o = n + i - o
      BY <1>1, <2>1
    <3> QED
      BY <1>1, <1>3, <2>1, <3>1
  <2>2. CASE i # l + 1
    <3>1. i \in o + 1 .. l /\ i \in 1 .. l
      BY <1>3, <2>2
    <3> QED
      BY <1>3, <1>4, <3>1
  <2> QED
    BY <2>1, <2>2
<1> QED
  BY <1>2, <1>5 DEF SealedFrom

-----------------------------------------------------------------------------
(* What one end says, seen by the other.                                     *)

LEMMA AnswerTailOn ==
  ASSUME NEW f, NEW d \in Nat, NEW k \in Nat, NEW sent \in BOOLEAN, NEW c \in Seq(Cells),
         NEW m \in Nat, NEW y \in Cells, NEW k2 \in Nat,
         AnswerTail(f, d, k, sent, c, m), Speaks(y, sent),
         y.key = IF Sealed(f) THEN k + 1 ELSE 0, Sealed(f) => k2 = k + 1
  PROVE  AnswerTail(f, d, k2, TRUE, c \o <<y>>, m)
<1>1. PICK l \in Nat : l = Len(c)
  BY LenProperties
<1>2. l >= m /\ Session(c, m, sent, FALSE) /\ SealedFrom(f, c, m, d + 3 + m)
      /\ (Sealed(f) => k = d + 3 + l)
  BY <1>1 DEF AnswerTail
<1>3. Len(c \o <<y>>) = l + 1
  BY <1>1, PutLast
<1>4. Session(c \o <<y>>, m, TRUE, FALSE)
  BY <1>2, SpeaksOn
<1>5. SealedFrom(f, c \o <<y>>, m, d + 3 + m)
  <2>1. m <= Len(c) /\ d + 3 + m \in Nat
    BY <1>1, <1>2
  <2>2. y.key = IF Sealed(f) THEN (d + 3 + m) + Len(c) + 1 - m ELSE 0
    BY <1>1, <1>2
  <2> QED
    BY <1>2, <2>1, <2>2, SealedOn
<1>6. PICK x : x = c \o <<y>>
  OBVIOUS
<1>7. Len(x) >= m /\ (Sealed(f) => k2 = d + 3 + Len(x))
  <2>1. Len(x) = l + 1
    BY <1>3, <1>6
  <2>2. l + 1 >= m
    BY <1>2
  <2>3. ASSUME Sealed(f) PROVE k2 = d + 3 + (l + 1)
    <3>1. k2 = k + 1 /\ k = d + 3 + l
      BY <1>2, <2>3
    <3> QED
      BY <3>1
  <2> QED
    BY <2>1, <2>2, <2>3
<1>8. AnswerTail(f, d, k2, TRUE, x, m)
  BY <1>4, <1>5, <1>6, <1>7 DEF AnswerTail
<1> QED
  BY <1>6, <1>8

LEMMA AnsweredOn ==
  ASSUME NEW f, NEW d \in Nat, NEW k \in Nat, NEW sent \in BOOLEAN, NEW c \in Seq(Cells),
         NEW y \in Cells, NEW k2 \in Nat,
         Answered(f, d, k, sent, c), Speaks(y, sent),
         y.key = IF Sealed(f) THEN k + 1 ELSE 0, Sealed(f) => k2 = k + 1
  PROVE  Answered(f, d, k2, TRUE, c \o <<y>>)
<1>1. PICK l \in Nat : l = Len(c)
  BY LenProperties
<1>2. l >= 3 /\ c[1].what = "vc"
      /\ c[1].key = d + 1 /\ c[2].key = d + 2 /\ c[3].key = d + 3
      /\ c[2].v \in {1, 2} /\ c[3].v <= PadMax
      /\ AnswerTail(f, d, k, sent, Behind(c, 3), c[3].v)
  BY <1>1 DEF Answered
<1>3. PICK x : x = c \o <<y>>
  OBVIOUS
<1>4. Len(x) = l + 1 /\ \A i \in 1 .. l : x[i] = c[i]
  BY <1>1, <1>3, PutLast
<1>5. x[1] = c[1] /\ x[2] = c[2] /\ x[3] = c[3]
  BY <1>2, <1>4
<1>6. c[3].v \in Nat
  <2>1. 3 \in 1 .. Len(c)
    BY <1>1, <1>2
  <2>2. c[3] \in Cells
    BY <2>1, ElementOfSeq
  <2> QED
    BY <2>2 DEF Cells
<1>7. 3 \in 0 .. Len(c) /\ <<y>> \in Seq(Cells)
  BY <1>1, <1>2
<1>8. Behind(c, 3) \in Seq(Cells) /\ Behind(c, 3) \o <<y>> = Behind(x, 3)
  BY <1>3, <1>7, BehindOf, EatStream
<1>9. AnswerTail(f, d, k2, TRUE, Behind(c, 3) \o <<y>>, c[3].v)
  BY <1>2, <1>6, <1>8, AnswerTailOn
<1>10. Len(x) >= 3
  BY <1>1, <1>2, <1>4
<1>11. AnswerTail(f, d, k2, TRUE, Behind(x, 3), x[3].v)
  BY <1>5, <1>8, <1>9
<1>12. Answered(f, d, k2, TRUE, x)
  BY <1>2, <1>5, <1>10, <1>11 DEF Answered
<1> QED
  BY <1>3, <1>12

-----------------------------------------------------------------------------
(* What an end reads.                                                        *)

Alike(c, d) == Len(c) = Len(d) /\ \A i \in 1 .. Len(c) : d[i].what = c[i].what

LEMMA SessionAlike ==
  ASSUME NEW c, NEW d, Len(c) \in Nat, NEW o \in Nat, NEW sent \in BOOLEAN, NEW read \in BOOLEAN,
         Alike(c, d), Session(c, o, sent, read)
  PROVE  Session(d, o, sent, read)
<1>1. PICK l \in Nat : l = Len(c) /\ l = Len(d)
  BY DEF Alike
<1>2. \A i \in 1 .. l : d[i].what = c[i].what
  BY <1>1 DEF Alike
<1>3. CASE sent /\ read
  <2>1. l >= o /\ \A i \in o + 1 .. l : c[i].what = "msg"
    BY <1>1, <1>3 DEF Session
  <2>2. \A i \in o + 1 .. l : d[i].what = "msg"
    BY <1>2, <2>1
  <2> QED
    BY <1>1, <1>3, <2>1, <2>2 DEF Session
<1>4. CASE sent /\ ~read
  <2>1. l > o /\ c[o + 1].what = "shake" /\ \A i \in o + 2 .. l : c[i].what = "msg"
    BY <1>1, <1>4 DEF Session
  <2>2. d[o + 1].what = "shake" /\ \A i \in o + 2 .. l : d[i].what = "msg"
    BY <1>2, <2>1
  <2> QED
    BY <1>1, <1>4, <2>1, <2>2 DEF Session
<1>5. CASE ~sent
  BY <1>1, <1>5 DEF Session
<1> QED
  BY <1>3, <1>4, <1>5

\* Behind the padding the session begins.
LEMMA SessionCut ==
  ASSUME NEW c \in Seq(Cells), NEW o \in Nat, NEW sent \in BOOLEAN,
         Session(c, o, sent, FALSE)
  PROVE  o <= Len(c) /\ Session(Behind(c, o), 0, sent, FALSE)
<1>1. PICK l \in Nat : l = Len(c)
  BY LenProperties
<1>2. o <= l
  BY <1>1 DEF Session
<1>3. PICK x : x = Behind(c, o)
  OBVIOUS
<1>4. o \in 0 .. Len(c)
  BY <1>1, <1>2
<1>5. Len(x) = l - o /\ \A i \in 1 .. (l - o) : x[i] = c[o + i]
  BY <1>1, <1>3, <1>4, BehindOf
<1>6. CASE sent
  <2>1. l > o /\ c[o + 1].what = "shake" /\ \A i \in o + 2 .. l : c[i].what = "msg"
    BY <1>1, <1>6 DEF Session
  <2>2. Len(x) > 0 /\ x[0 + 1].what = "shake"
    BY <1>5, <2>1
  <2>3. ASSUME NEW i \in 0 + 2 .. Len(x) PROVE x[i].what = "msg"
    <3>1. i \in 1 .. (l - o) /\ o + i \in o + 2 .. l
      BY <1>2, <1>5
    <3> QED
      BY <1>5, <2>1, <3>1
  <2> QED
    BY <1>1, <1>2, <1>3, <1>6, <2>2, <2>3 DEF Session
<1>7. CASE ~sent
  <2>1. l = o
    BY <1>1, <1>7 DEF Session
  <2>2. Len(x) = 0
    BY <1>5, <2>1
  <2> QED
    BY <1>1, <1>2, <1>3, <1>7, <2>2 DEF Session
<1> QED
  BY <1>6, <1>7

\* Behind the handshake there are messages.
LEMMA SessionShake ==
  ASSUME NEW c \in Seq(Cells), Session(c, 0, TRUE, FALSE)
  PROVE  1 <= Len(c) /\ c[1].what = "shake" /\ Session(Behind(c, 1), 0, TRUE, TRUE)
<1>1. PICK l \in Nat : l = Len(c)
  BY LenProperties
<1>2. l > 0 /\ c[1].what = "shake" /\ \A i \in 2 .. l : c[i].what = "msg"
  BY <1>1 DEF Session
<1>3. PICK x : x = Behind(c, 1)
  OBVIOUS
<1>4. 1 \in 0 .. Len(c)
  BY <1>1, <1>2
<1>5. Len(x) = l - 1 /\ \A i \in 1 .. (l - 1) : x[i] = c[1 + i]
  BY <1>1, <1>3, <1>4, BehindOf
<1>6. ASSUME NEW i \in 0 + 1 .. Len(x) PROVE x[i].what = "msg"
  <2>1. i \in 1 .. (l - 1) /\ 1 + i \in 2 .. l
    BY <1>2, <1>5
  <2> QED
    BY <1>2, <1>5, <2>1
<1>7. Len(x) >= 0
  BY <1>2, <1>5
<1> QED
  BY <1>1, <1>2, <1>3, <1>6, <1>7 DEF Session

LEMMA SessionRest ==
  ASSUME NEW c \in Seq(Cells), NEW n \in 0 .. Len(c), NEW sent \in BOOLEAN,
         Session(c, 0, sent, TRUE)
  PROVE  /\ sent /\ Session(Behind(c, n), 0, sent, TRUE)
         /\ \A i \in 1 .. Len(c) : c[i].what = "msg"
<1>1. PICK l \in Nat : l = Len(c)
  BY LenProperties
<1>2. sent /\ \A i \in 1 .. l : c[i].what = "msg"
  BY <1>1 DEF Session
<1>3. PICK x : x = Behind(c, n)
  OBVIOUS
<1>4. Len(x) = l - n /\ \A i \in 1 .. (l - n) : x[i] = c[n + i]
  BY <1>1, <1>3, BehindOf
<1>5. n \in 0 .. l
  BY <1>1
<1>6. ASSUME NEW i \in 0 + 1 .. Len(x) PROVE x[i].what = "msg"
  <2>1. i \in 1 .. (l - n) /\ n + i \in 1 .. l
    BY <1>4, <1>5
  <2> QED
    BY <1>2, <1>4, <2>1
<1>7. Len(x) >= 0
  BY <1>4, <1>5
<1> QED
  BY <1>1, <1>2, <1>3, <1>6, <1>7 DEF Session

\* What is decrypted where it was encrypted comes out as it went in.
LEMMA Opens ==
  ASSUME NEW c \in Seq(Cells), NEW n \in Nat, \A i \in 1 .. Len(c) : c[i].key = n + i
  PROVE  /\ Decrypt(c, n) \in Seq(Cells) /\ Len(Decrypt(c, n)) = Len(c)
         /\ \A i \in 1 .. Len(c) : /\ Decrypt(c, n)[i].what = c[i].what
                                   /\ Decrypt(c, n)[i].v = c[i].v
                                   /\ Decrypt(c, n)[i].key = 0
<1>1. PICK x : x = Decrypt(c, n)
  OBVIOUS
<1>2. /\ x \in Seq(Cells) /\ Len(x) = Len(c)
      /\ \A i \in 1 .. Len(c) :
           IF c[i].key = n + i
           THEN x[i].what = c[i].what /\ x[i].v = c[i].v /\ x[i].key = 0
           ELSE x[i] = Plain("junk")
  BY <1>1, DecryptOf
<1> QED
  BY <1>1, <1>2

LEMMA AlikeJoin ==
  ASSUME NEW a \in Seq(Cells), NEW b \in Seq(Cells), NEW c \in Seq(Cells), Alike(b, c)
  PROVE  Alike(b \o a, c \o a) /\ Alike(a \o b, a \o c)
<1>1. PICK k \in Nat, l \in Nat : k = Len(a) /\ l = Len(b)
  BY LenProperties
<1>2. Len(c) = l /\ \A i \in 1 .. l : c[i].what = b[i].what
  BY <1>1 DEF Alike
<1>3. PICK x, y : x = b \o a /\ y = c \o a
  OBVIOUS
<1>4. Len(x) = l + k /\ (\A i \in 1 .. l : x[i] = b[i]) /\ \A i \in 1 .. k : x[l + i] = a[i]
  BY <1>1, <1>3, JoinOf
<1>5. Len(y) = l + k /\ (\A i \in 1 .. l : y[i] = c[i]) /\ \A i \in 1 .. k : y[l + i] = a[i]
  <2>1. /\ Len(c \o a) = Len(c) + Len(a)
        /\ \A i \in 1 .. Len(c) : (c \o a)[i] = c[i]
        /\ \A i \in 1 .. Len(a) : (c \o a)[Len(c) + i] = a[i]
    BY JoinOf
  <2> QED
    BY <1>1, <1>2, <1>3, <2>1
<1>6. ASSUME NEW i \in 1 .. l + k PROVE y[i].what = x[i].what
  <2>1. CASE i \in 1 .. l
    BY <1>2, <1>4, <1>5, <2>1
  <2>2. CASE ~(i \in 1 .. l)
    <3>1. i - l \in 1 .. k /\ l + (i - l) = i
      BY <2>2
    <3> QED
      BY <1>4, <1>5, <3>1
  <2> QED
    BY <2>1, <2>2
<1>7. Alike(x, y)
  BY <1>4, <1>5, <1>6 DEF Alike
<1>8. PICK u, v : u = a \o b /\ v = a \o c
  OBVIOUS
<1>9. Len(u) = k + l /\ (\A i \in 1 .. k : u[i] = a[i]) /\ \A i \in 1 .. l : u[k + i] = b[i]
  BY <1>1, <1>8, JoinOf
<1>10. Len(v) = k + l /\ (\A i \in 1 .. k : v[i] = a[i]) /\ \A i \in 1 .. l : v[k + i] = c[i]
  <2>1. /\ Len(a \o c) = Len(a) + Len(c)
        /\ \A i \in 1 .. Len(a) : (a \o c)[i] = a[i]
        /\ \A i \in 1 .. Len(c) : (a \o c)[Len(a) + i] = c[i]
    BY JoinOf
  <2> QED
    BY <1>1, <1>2, <1>8, <2>1
<1>11. ASSUME NEW i \in 1 .. k + l PROVE v[i].what = u[i].what
  <2>1. CASE i \in 1 .. k
    BY <1>9, <1>10, <2>1
  <2>2. CASE ~(i \in 1 .. k)
    <3>1. i - k \in 1 .. l /\ k + (i - k) = i
      BY <2>2
    <3>2. u[i] = b[i - k] /\ v[i] = c[i - k]
      BY <1>9, <1>10, <3>1
    <3> QED
      BY <1>2, <3>1, <3>2
  <2> QED
    BY <2>1, <2>2
<1>12. Alike(u, v)
  BY <1>9, <1>10, <1>11 DEF Alike
<1> QED
  BY <1>3, <1>7, <1>8, <1>12

\* A part w1 of what is on the way is read, and decrypted if the link is sealed.
LEMMA TalkingRead ==
  ASSUME NEW f, NEW b \in Seq(Cells), NEW w \in Seq(Cells), NEW n \in Nat, NEW k \in Nat,
         NEW sent \in BOOLEAN, NEW read \in BOOLEAN, NEW m \in 0 .. Len(w),
         Talking(f, b, w, n, k, sent, read)
  PROVE  Talking(f,
                 b \o (IF Sealed(f) THEN Decrypt(Before(w, m), n) ELSE Before(w, m)),
                 Behind(w, m), IF Sealed(f) THEN n + m ELSE n, k, sent, read)
<1>1. PICK l \in Nat, j \in Nat : l = Len(w) /\ j = Len(b)
  BY LenProperties
<1>2. m \in 0 .. l
  BY <1>1
<1>3. /\ Session(b \o w, 0, sent, read)
      /\ \A i \in 1 .. j : b[i].key = 0
      /\ \A i \in 1 .. l : w[i].key = IF Sealed(f) THEN n + i ELSE 0
      /\ Sealed(f) => k = n + l
  <2>1. \A i \in 0 + 1 .. l : w[i].key = IF Sealed(f) THEN n + i - 0 ELSE 0
    BY <1>1 DEF Talking, SealedFrom
  <2> QED
    BY <1>1, <2>1 DEF Talking
<1>4. PICK p : p = Before(w, m)
  OBVIOUS
<1>5. p \in Seq(Cells) /\ Len(p) = m /\ \A i \in 1 .. m : p[i] = w[i]
  BY <1>4, BeforeOf
<1>6. PICK q : q = Behind(w, m)
  OBVIOUS
<1>7. q \in Seq(Cells) /\ Len(q) = l - m /\ \A i \in 1 .. (l - m) : q[i] = w[m + i]
  BY <1>1, <1>6, BehindOf
<1>8. PICK r : r = IF Sealed(f) THEN Decrypt(p, n) ELSE p
  OBVIOUS
<1>9. r \in Seq(Cells) /\ Alike(p, r) /\ \A i \in 1 .. m : r[i].key = 0
  <2>1. CASE Sealed(f)
    <3>1. p \in Seq(Cells) /\ \A i \in 1 .. Len(p) : p[i].key = n + i
      <4>1. ASSUME NEW i \in 1 .. m PROVE p[i].key = n + i
        <5>1. i \in 1 .. l
          BY <1>2
        <5> QED
          BY <1>3, <1>5, <2>1, <5>1
      <4> QED
        BY <1>5, <4>1
    <3>2. r = Decrypt(p, n)
      BY <1>8, <2>1
    <3>3. r \in Seq(Cells) /\ Len(r) = Len(p)
          /\ \A i \in 1 .. Len(p) : r[i].what = p[i].what /\ r[i].key = 0
      BY <3>1, <3>2, Opens
    <3> QED
      BY <1>5, <3>3 DEF Alike
  <2>2. CASE ~Sealed(f)
    <3>1. r = p
      BY <1>8, <2>2
    <3> QED
      BY <1>2, <1>3, <1>5, <2>2, <3>1 DEF Alike
  <2> QED
    BY <2>1, <2>2
<1>10. p \in Seq(Cells) /\ r \in Seq(Cells) /\ q \in Seq(Cells) /\ Len(r) = m
  BY <1>5, <1>7, <1>9 DEF Alike
<1>11. PICK x : x = b \o r
  OBVIOUS
<1>12. x \in Seq(Cells) /\ Len(x) = j + m /\ (\A i \in 1 .. j : x[i] = b[i])
       /\ \A i \in 1 .. m : x[j + i] = r[i]
  <2>1. /\ b \o r \in Seq(Cells) /\ Len(b \o r) = Len(b) + Len(r)
        /\ \A i \in 1 .. Len(b) : (b \o r)[i] = b[i]
        /\ \A i \in 1 .. Len(r) : (b \o r)[Len(b) + i] = r[i]
    BY <1>10, JoinOf
  <2> QED
    BY <1>1, <1>10, <1>11, <2>1
<1>13. Session(x \o q, 0, sent, read)
  <2>1. (b \o p) \o q = b \o w
    BY <1>4, <1>6, ReadStays
  <2>2. b \o p \in Seq(Cells) /\ Alike(b \o p, x)
    BY <1>9, <1>10, <1>11, AlikeJoin, JoinOf
  <2>3. Alike((b \o p) \o q, x \o q)
    BY <1>10, <1>12, <2>2, AlikeJoin
  <2>4. b \o w \in Seq(Cells) /\ Len(b \o w) \in Nat
    BY JoinOf, LenProperties
  <2> QED
    BY <1>3, <2>1, <2>3, <2>4, SessionAlike
<1>14. ASSUME NEW i \in 1 .. Len(x) PROVE x[i].key = 0
  <2>1. CASE i \in 1 .. j
    BY <1>3, <1>12, <2>1
  <2>2. CASE ~(i \in 1 .. j)
    <3>1. i - j \in 1 .. m /\ j + (i - j) = i
      <4>1. i \in 1 .. j + m
        BY <1>12
      <4> QED
        BY <1>2, <2>2, <4>1
    <3> QED
      BY <1>9, <1>12, <3>1
  <2> QED
    BY <2>1, <2>2
<1>15. PICK z : z = IF Sealed(f) THEN n + m ELSE n
  OBVIOUS
<1>16. ASSUME NEW i \in 0 + 1 .. Len(q)
       PROVE  q[i].key = IF Sealed(f) THEN z + i - 0 ELSE 0
  <2>1. i \in 1 .. (l - m) /\ m + i \in 1 .. l
    BY <1>2, <1>7
  <2>2. q[i].key = IF Sealed(f) THEN n + (m + i) ELSE 0
    BY <1>3, <1>7, <2>1
  <2>3. Sealed(f) => n + (m + i) = z + i - 0
    BY <1>15, <2>1
  <2> QED
    BY <2>2, <2>3
<1>17. ASSUME Sealed(f) PROVE k = z + Len(q)
  <2>1. z = n + m /\ k = n + l /\ Len(q) = l - m
    BY <1>3, <1>7, <1>15, <1>17
  <2>2. n + l = (n + m) + (l - m)
    BY <1>2
  <2> QED
    BY <2>1, <2>2
<1>18. Talking(f, x, q, z, k, sent, read)
  BY <1>13, <1>14, <1>16, <1>17 DEF Talking, SealedFrom
<1> QED
  BY <1>4, <1>6, <1>8, <1>11, <1>15, <1>18

\* The handshake is over, and m cells of padding are in front of the session.
LEMMA TalkingBegins ==
  ASSUME NEW f, NEW b \in Seq(Cells), NEW w \in Seq(Cells), NEW n \in Nat, NEW k \in Nat,
         NEW sent \in BOOLEAN, NEW m \in 0 .. Len(b),
         Session(b \o w, m, sent, FALSE), SealedFrom(f, b \o w, m, n + m),
         Sealed(f) => k = n + Len(b \o w)
  PROVE  Talking(f,
                 IF Sealed(f) THEN Decrypt(Behind(b, m), n + m) ELSE Behind(b, m),
                 w, n + m + (IF Sealed(f) THEN Len(Behind(b, m)) ELSE 0), k, sent, FALSE)
<1>1. PICK j \in Nat, l \in Nat : j = Len(b) /\ l = Len(w)
  BY LenProperties
<1>2. m \in 0 .. j
  BY <1>1
<1>3. PICK s : s = b \o w
  OBVIOUS
<1>4. s \in Seq(Cells) /\ Len(s) = j + l /\ (\A i \in 1 .. j : s[i] = b[i])
      /\ \A i \in 1 .. l : s[j + i] = w[i]
  <2>1. /\ b \o w \in Seq(Cells) /\ Len(b \o w) = Len(b) + Len(w)
        /\ \A i \in 1 .. Len(b) : (b \o w)[i] = b[i]
        /\ \A i \in 1 .. Len(w) : (b \o w)[Len(b) + i] = w[i]
    BY JoinOf
  <2> QED
    BY <1>1, <1>3, <2>1
<1>5. \A i \in m + 1 .. j + l : s[i].key = IF Sealed(f) THEN (n + m) + i - m ELSE 0
  BY <1>3, <1>4 DEF SealedFrom
<1>6. PICK r : r = Behind(b, m)
  OBVIOUS
<1>7. r \in Seq(Cells) /\ Len(r) = j - m /\ \A i \in 1 .. (j - m) : r[i] = b[m + i]
  BY <1>1, <1>6, BehindOf
<1>8. ASSUME NEW i \in 1 .. (j - m) PROVE r[i].key = IF Sealed(f) THEN (n + m) + i ELSE 0
  <2>1. m + i \in 1 .. j /\ m + i \in m + 1 .. j + l /\ (n + m) + (m + i) - m = (n + m) + i
    BY <1>2
  <2>2. r[i] = s[m + i]
    BY <1>4, <1>7, <2>1
  <2> QED
    BY <1>5, <2>1, <2>2
<1>9. PICK x : x = IF Sealed(f) THEN Decrypt(r, n + m) ELSE r
  OBVIOUS
<1>10. x \in Seq(Cells) /\ Alike(r, x) /\ \A i \in 1 .. (j - m) : x[i].key = 0
  <2>1. CASE Sealed(f)
    <3>1. r \in Seq(Cells) /\ n + m \in Nat /\ \A i \in 1 .. Len(r) : r[i].key = (n + m) + i
      BY <1>2, <1>7, <1>8, <2>1
    <3>2. x = Decrypt(r, n + m)
      BY <1>9, <2>1
    <3>3. x \in Seq(Cells) /\ Len(x) = Len(r)
          /\ \A i \in 1 .. Len(r) : x[i].what = r[i].what /\ x[i].key = 0
      BY <3>1, <3>2, Opens
    <3> QED
      BY <1>7, <3>3 DEF Alike
  <2>2. CASE ~Sealed(f)
    <3>1. x = r
      BY <1>9, <2>2
    <3> QED
      BY <1>7, <1>8, <2>2, <3>1 DEF Alike
  <2> QED
    BY <2>1, <2>2
<1>11. r \in Seq(Cells) /\ x \in Seq(Cells) /\ Len(x) = j - m
  BY <1>7, <1>10 DEF Alike
<1>12. Session(x \o w, 0, sent, FALSE)
  <2>1. r \o w = Behind(s, m)
    BY <1>3, <1>6, EatStream
  <2>2. m \in Nat
    BY <1>2
  <2>3. Session(r \o w, 0, sent, FALSE)
    <3>1. b \o w \in Seq(Cells)
      BY <1>3, <1>4
    <3>2. Session(Behind(b \o w, m), 0, sent, FALSE)
      BY <2>2, <3>1, SessionCut
    <3> QED
      BY <1>3, <2>1, <3>2
  <2>4. Alike(r \o w, x \o w)
    BY <1>10, <1>11, AlikeJoin
  <2>5. r \o w \in Seq(Cells) /\ Len(r \o w) \in Nat
    BY <1>11, JoinOf, LenProperties
  <2>6. PICK u, v : u = r \o w /\ v = x \o w
    OBVIOUS
  <2>10. PICK g \in BOOLEAN : g = FALSE
    OBVIOUS
  <2>7. Len(u) \in Nat /\ Alike(u, v)
    BY <2>4, <2>5, <2>6
  <2>8. Session(u, 0, sent, g)
    BY <2>3, <2>6, <2>10
  <2>9. Session(v, 0, sent, g)
    BY <2>7, <2>8, SessionAlike
  <2> QED
    BY <2>6, <2>9, <2>10
<1>13. PICK z : z = n + m + (IF Sealed(f) THEN Len(r) ELSE 0)
  OBVIOUS
<1>14. Sealed(f) => z = n + j
  BY <1>2, <1>7, <1>13
<1>15. ASSUME NEW i \in 0 + 1 .. Len(w) PROVE w[i].key = IF Sealed(f) THEN z + i - 0 ELSE 0
  <2>1. i \in 1 .. l /\ j + i \in m + 1 .. j + l /\ w[i] = s[j + i]
    BY <1>1, <1>2, <1>4
  <2>2. w[i].key = IF Sealed(f) THEN (n + m) + (j + i) - m ELSE 0
    BY <1>5, <2>1
  <2>3. (n + m) + (j + i) - m = (n + j) + i - 0
    BY <1>2
  <2> QED
    BY <1>14, <2>2, <2>3
<1>16. ASSUME Sealed(f) PROVE k = z + Len(w)
  <2>1. k = n + (j + l) /\ z = n + j
    BY <1>3, <1>4, <1>14, <1>16
  <2> QED
    BY <1>1, <2>1
<1>17. \A i \in 1 .. Len(x) : x[i].key = 0
  BY <1>10, <1>11
<1>18. Talking(f, x, w, z, k, sent, FALSE)
  BY <1>12, <1>15, <1>16, <1>17 DEF Talking, SealedFrom
<1> QED
  BY <1>6, <1>9, <1>13, <1>18

\* The handshake of the other end is read.
LEMMA TalkingShake ==
  ASSUME NEW f, NEW b \in Seq(Cells), NEW w \in Seq(Cells), NEW n \in Nat, NEW k \in Nat,
         NEW sent \in BOOLEAN, Talking(f, b, w, n, k, sent, FALSE), b # <<>>
  PROVE  /\ sent /\ b[1].what = "shake" /\ b[1].key = 0 /\ 1 <= Len(b)
         /\ Talking(f, Behind(b, 1), w, n, k, sent, TRUE)
<1>1. PICK j \in Nat : j = Len(b)
  BY LenProperties
<1>2. j >= 1
  BY <1>1, EmptySeq
<1>3. PICK s : s = b \o w
  OBVIOUS
<1>4. s \in Seq(Cells) /\ Len(s) = j + Len(w) /\ (\A i \in 1 .. j : s[i] = b[i]) /\ Len(w) \in Nat
  <2>1. /\ b \o w \in Seq(Cells) /\ Len(b \o w) = Len(b) + Len(w) /\ Len(w) \in Nat
        /\ \A i \in 1 .. Len(b) : (b \o w)[i] = b[i]
    BY JoinOf
  <2> QED
    BY <1>1, <1>3, <2>1
<1>5. Session(s, 0, sent, FALSE)
  BY <1>3 DEF Talking
<1>6. sent
  <2>1. SUFFICES ASSUME ~sent PROVE FALSE
    OBVIOUS
  <2>2. Len(s) = 0
    BY <1>5, <2>1 DEF Session
  <2> QED
    BY <1>2, <1>4, <2>2
<1>7. s[1].what = "shake" /\ Session(Behind(s, 1), 0, TRUE, TRUE)
  <2>1. s \in Seq(Cells) /\ Session(s, 0, TRUE, FALSE)
    BY <1>4, <1>5, <1>6
  <2> QED
    BY <2>1, SessionShake
<1>8. 1 \in 1 .. j /\ 1 \in 0 .. Len(b)
  BY <1>1, <1>2
<1>9. b[1].what = "shake" /\ b[1].key = 0
  <2>1. s[1] = b[1]
    BY <1>4, <1>8
  <2>2. b[1].key = 0
    BY <1>1, <1>8 DEF Talking
  <2> QED
    BY <1>7, <2>1, <2>2
<1>10. PICK x : x = Behind(b, 1)
  OBVIOUS
<1>11. x \o w = Behind(s, 1)
  BY <1>3, <1>8, <1>10, EatStream
<1>12. Session(x \o w, 0, sent, TRUE)
  BY <1>6, <1>7, <1>11
<1>13. ASSUME NEW i \in 1 .. Len(x) PROVE x[i].key = 0
  <2>1. Len(x) = j - 1 /\ \A q \in 1 .. (j - 1) : x[q] = b[1 + q]
    BY <1>1, <1>8, <1>10, BehindOf
  <2>2. i \in 1 .. (j - 1) /\ 1 + i \in 1 .. j
    BY <1>2, <2>1
  <2>3. b[1 + i].key = 0
    BY <1>1, <2>2 DEF Talking
  <2> QED
    BY <2>1, <2>2, <2>3
<1>14. Talking(f, x, w, n, k, sent, TRUE)
  BY <1>12, <1>13 DEF Talking
<1> QED
  BY <1>1, <1>2, <1>6, <1>9, <1>10, <1>14

\* The messages behind it are read.
LEMMA TalkingRest ==
  ASSUME NEW f, NEW b \in Seq(Cells), NEW w \in Seq(Cells), NEW n \in Nat, NEW k \in Nat,
         NEW sent \in BOOLEAN, Talking(f, b, w, n, k, sent, TRUE)
  PROVE  /\ \A i \in 1 .. Len(b) : b[i].what = "msg" /\ b[i].key = 0
         /\ Talking(f, <<>>, w, n, k, sent, TRUE)
<1>1. PICK j \in Nat, l \in Nat : j = Len(b) /\ l = Len(w)
  BY LenProperties
<1>2. PICK s : s = b \o w
  OBVIOUS
<1>3. s \in Seq(Cells) /\ Len(s) = j + l /\ (\A i \in 1 .. j : s[i] = b[i])
  <2>1. /\ b \o w \in Seq(Cells) /\ Len(b \o w) = Len(b) + Len(w)
        /\ \A i \in 1 .. Len(b) : (b \o w)[i] = b[i]
    BY JoinOf
  <2> QED
    BY <1>1, <1>2, <2>1
<1>4. Session(s, 0, sent, TRUE)
  BY <1>2 DEF Talking
<1>5. s \in Seq(Cells) /\ j \in 0 .. Len(s)
  BY <1>3
<1>6. Session(Behind(s, j), 0, sent, TRUE) /\ \A i \in 1 .. Len(s) : s[i].what = "msg"
  BY <1>4, <1>5, SessionRest
<1>7. Behind(s, j) = w /\ <<>> \o w = w
  <2>1. Behind(b \o w, Len(b)) = w
    BY BehindJoin
  <2>2. <<>> \o w = w
    BY ConcatEmptySeq
  <2> QED
    BY <1>1, <1>2, <2>1, <2>2
<1>8. ASSUME NEW i \in 1 .. Len(b) PROVE b[i].what = "msg" /\ b[i].key = 0
  <2>1. i \in 1 .. j /\ i \in 1 .. Len(s)
    BY <1>1, <1>3
  <2>2. b[i].key = 0
    BY DEF Talking
  <2> QED
    BY <1>3, <1>6, <2>1, <2>2
<1>9. Session(<<>> \o w, 0, sent, TRUE)
  BY <1>6, <1>7
<1>10. Talking(f, <<>>, w, n, k, sent, TRUE)
  <2>1. Len(<<>>) = 0
    OBVIOUS
  <2>2. \A i \in 1 .. Len(<<>>) : <<>>[i].key = 0
    BY <2>1
  <2> QED
    BY <1>9, <2>2 DEF Talking
<1> QED
  BY <1>8, <1>10

-----------------------------------------------------------------------------
(* The search behind the public key.                                         *)

LEMMA StreamOf ==
  ASSUME MseTypeOK, NEW e \in Ends
  PROVE  /\ buf[e] \in Seq(Cells) /\ wire[e] \in Seq(Cells) /\ Stream(e) \in Seq(Cells)
         /\ Len(buf[e]) \in Nat /\ Len(wire[e]) \in Nat
         /\ Len(Stream(e)) = Len(buf[e]) + Len(wire[e])
         /\ \A i \in 1 .. Len(buf[e]) : Stream(e)[i] = buf[e][i]
<1>1. buf[e] \in Seq(Cells) /\ wire[e] \in Seq(Cells)
  BY DEF MseTypeOK
<1> QED
  BY <1>1, JoinOf DEF Stream

LEMMA LeadJoin ==
  ASSUME NEW c \in Seq(Cells), NEW x \in Seq(Cells), NEW j, Lead(c, j)
  PROVE  Lead(c \o x, j)
<1>1. PICK k \in Nat, l \in Nat : k = Len(c) /\ l = Len(x)
  BY LenProperties
<1>2. PICK s : s = c \o x
  OBVIOUS
<1>3. Len(s) = k + l /\ \A i \in 1 .. k : s[i] = c[i]
  <2>1. Len(c \o x) = Len(c) + Len(x) /\ \A i \in 1 .. Len(c) : (c \o x)[i] = c[i]
    BY JoinOf
  <2> QED
    BY <1>1, <1>2, <2>1
<1>4. j \in 2 .. PadMax + 1 /\ j <= k /\ \A i \in 1 .. j : c[i].what \in {"pub", "pub2", "pad"}
  BY <1>1 DEF Lead
<1>5. ASSUME NEW i \in 1 .. j PROVE s[i].what \in {"pub", "pub2", "pad"}
  <2>1. i \in 1 .. k
    BY <1>4
  <2>2. s[i] = c[i]
    BY <1>3, <2>1
  <2> QED
    BY <1>4, <2>2
<1>6. j <= Len(s)
  BY <1>3, <1>4
<1> QED
  BY <1>2, <1>4, <1>5, <1>6 DEF Lead

LEMMA LeadKey ==
  ASSUME MseAssumption, NEW n \in Pads
  PROVE  n \in Nat /\ KeyCells(n) \in Seq(Cells) /\ Lead(KeyCells(n), Len(KeyCells(n)))
<1>1. n \in Nat /\ n + 2 \in 2 .. PadMax + 1
  BY DEF MseAssumption
<1>2. /\ KeyCells(n) \in Seq(Cells) /\ Len(KeyCells(n)) = n + 2
      /\ \A i \in 1 .. (n + 2) : KeyCells(n)[i].what \in {"pub", "pub2", "pad"}
  BY <1>1, KeyOf
<1> QED
  BY <1>1, <1>2 DEF Lead

\* Where something is found the buffer has it.
LEMMA PlaceOf ==
  ASSUME MseTypeOK, NEW e \in Ends, NEW c, Positions(e, c) # {}
  PROVE  /\ FirstAt(Positions(e, c)) \in Positions(e, c)
         /\ \A i \in Positions(e, c) : FirstAt(Positions(e, c)) <= i
         /\ FirstAt(Positions(e, c)) - 1 \in 0 .. Len(buf[e])
         /\ FirstAt(Positions(e, c)) - 1 < Len(buf[e])
         /\ Behind(buf[e], FirstAt(Positions(e, c)) - 1) # <<>>
         /\ Behind(buf[e], FirstAt(Positions(e, c)) - 1)[1].what = c.what
         /\ Behind(buf[e], FirstAt(Positions(e, c)) - 1)[1].key = c.key
<1>1. buf[e] \in Seq(Cells)
  BY StreamOf
<1>2. PICK l \in Nat : l = Len(buf[e])
  BY <1>1, LenProperties
<1>3. PICK S : S = Positions(e, c)
  OBVIOUS
<1>4. S \in SUBSET Nat /\ S # {}
  BY <1>2, <1>3 DEF Positions
<1>5. PICK i : i = FirstAt(S)
  OBVIOUS
<1>6. i \in S /\ \A j \in S : i <= j
  BY <1>4, <1>5, FirstOfSome
<1>7. i \in 3 .. l - 1 /\ buf[e][i].what = c.what /\ buf[e][i].key = c.key
  BY <1>2, <1>3, <1>6 DEF Positions
<1>8. i - 1 \in 0 .. l /\ i - 1 < l
  BY <1>7
<1>9. PICK b \in Seq(Cells) : b = buf[e]
  BY <1>1
<1>10. i - 1 \in 0 .. Len(b)
  BY <1>2, <1>8, <1>9
<1>11. PICK m \in 0 .. Len(b) : m = i - 1
  BY <1>10
<1>12. Len(Behind(b, m)) = Len(b) - m /\ \A q \in 1 .. (Len(b) - m) : Behind(b, m)[q] = b[m + q]
  BY BehindOf
<1>13. 1 \in 1 .. (Len(b) - m) /\ m + 1 = i /\ Len(b) - m # 0
  BY <1>2, <1>7, <1>9, <1>11
<1>14. Behind(b, m)[1] = b[i]
  BY <1>12, <1>13
<1>15. Behind(b, m) # <<>>
  BY <1>12, <1>13
<1> QED
  BY <1>2, <1>3, <1>5, <1>6, <1>7, <1>8, <1>9, <1>11, <1>14, <1>15

Leading == {"pub", "pub2", "pad"}

\* What stands right behind the key is found as soon as it is all there, and
\* before the buffer is too long.
LEMMA FoundBehind ==
  ASSUME MseAssumption, MseTypeOK, NEW e \in Ends, NEW c, c.what \notin Leading,
         NEW j \in Nat, Lead(Stream(e), j), NEW s, s = Behind(Stream(e), j), 2 <= Len(s),
         s[1].what = c.what, s[1].key = c.key
  PROVE  IF Positions(e, c) # {} THEN FirstAt(Positions(e, c)) - 1 = j ELSE ~TooLong(e)
<1>1. PICK k \in Nat, l \in Nat : k = Len(buf[e]) /\ l = Len(wire[e])
  BY StreamOf
<1>2. PICK x \in Seq(Cells) : x = Stream(e)
  BY StreamOf
<1>3. Len(x) = k + l /\ \A i \in 1 .. k : x[i] = buf[e][i]
  BY <1>1, <1>2, StreamOf
<1>4. j \in 2 .. PadMax + 1 /\ j <= k + l /\ \A i \in 1 .. j : x[i].what \in Leading
  BY <1>2, <1>3 DEF Lead, Leading
<1>5. x[j + 1].what = c.what /\ x[j + 1].key = c.key
  <2>1. j \in 0 .. Len(x)
    BY <1>3, <1>4
  <2>2. Len(s) = Len(x) - j /\ \A i \in 1 .. (Len(x) - j) : s[i] = x[j + i]
    BY <1>2, <2>1, BehindOf
  <2>3. 1 \in 1 .. (Len(x) - j)
    BY <1>3, <2>2
  <2> QED
    BY <2>2, <2>3
<1>6. PadMax \in Nat
  BY DEF MseAssumption
<1>7. ASSUME NEW i \in Positions(e, c) PROVE i >= j + 1
  <2>1. i \in 3 .. k - 1 /\ buf[e][i].what = c.what
    BY <1>1 DEF Positions
  <2>2. x[i].what = c.what
    BY <1>3, <2>1
  <2> QED
    BY <1>4, <2>1, <2>2
<1>8. j + 1 <= k - 1 => j + 1 \in Positions(e, c)
  <2>1. SUFFICES ASSUME j + 1 <= k - 1 PROVE j + 1 \in Positions(e, c)
    OBVIOUS
  <2>2. j + 1 \in 3 .. k - 1
    BY <1>4, <2>1
  <2>3. x[j + 1] = buf[e][j + 1]
    BY <1>3, <2>2
  <2> QED
    BY <1>1, <1>5, <2>2, <2>3 DEF Positions
<1>9. CASE Positions(e, c) # {}
  <2>1. PICK i : i = FirstAt(Positions(e, c))
    OBVIOUS
  <2>2. i \in Positions(e, c) /\ \A q \in Positions(e, c) : i <= q
    BY <1>9, <2>1, PlaceOf
  <2>3. i \in 3 .. k - 1 /\ i >= j + 1
    BY <1>1, <1>7, <2>2 DEF Positions
  <2>4. i <= j + 1
    BY <1>8, <2>2, <2>3
  <2>5. i - 1 = j
    BY <2>3, <2>4
  <2> QED
    BY <1>9, <2>1, <2>5
<1>10. CASE Positions(e, c) = {}
  <2>1. ~(j + 1 <= k - 1)
    BY <1>8, <1>10
  <2>2. k < 2 + PadMax + 1
    BY <1>4, <1>6, <2>1
  <2> QED
    BY <1>1, <1>6, <1>10, <2>2 DEF TooLong
<1> QED
  BY <1>9, <1>10

\* As long as there is only the key nothing is found.
LEMMA NothingBehind ==
  ASSUME MseAssumption, MseTypeOK, NEW e \in Ends, NEW c, c.what \notin Leading,
         Lead(Stream(e), Len(Stream(e)))
  PROVE  Positions(e, c) = {} /\ ~TooLong(e)
<1>1. PICK k \in Nat, l \in Nat : k = Len(buf[e]) /\ l = Len(wire[e])
  BY StreamOf
<1>2. PICK x : x = Stream(e)
  OBVIOUS
<1>3. Len(x) = k + l /\ \A i \in 1 .. k : x[i] = buf[e][i]
  BY <1>1, <1>2, StreamOf
<1>4. k + l \in 2 .. PadMax + 1 /\ \A i \in 1 .. k + l : x[i].what \in Leading
  BY <1>2, <1>3 DEF Lead, Leading
<1>5. PadMax \in Nat
  BY DEF MseAssumption
<1>6. ASSUME NEW i \in 3 .. k - 1 PROVE buf[e][i].what # c.what
  <2>1. i \in 1 .. k /\ i \in 1 .. k + l
    OBVIOUS
  <2> QED
    BY <1>3, <1>4, <2>1
<1>7. Positions(e, c) = {}
  BY <1>1, <1>6 DEF Positions
<1>8. k < 2 + PadMax + 1
  BY <1>4, <1>5
<1> QED
  BY <1>1, <1>5, <1>7, <1>8 DEF TooLong

-----------------------------------------------------------------------------
(* What the steps do to the streams.                                         *)

LEMMA OtherEnd ==
  /\ Other("A") = "B" /\ Other("B") = "A"
  /\ \A e \in Ends : Other(e) \in Ends /\ Other(e) # e /\ Other(Other(e)) = e
BY DEF Other, Ends

LEMMA PutOf ==
  ASSUME MseTypeOK, NEW e \in Ends, NEW x \in Seq(Cells), Put(e, x)
  PROVE  /\ wire' \in [Ends -> Seq(Cells)] /\ wire'[e] = wire[e]
         /\ wire'[Other(e)] = wire[Other(e)] \o x
<1>1. wire \in [Ends -> Seq(Cells)]
  BY DEF MseTypeOK
<1>2. Other(e) \in Ends /\ Other(e) # e
  BY OtherEnd
<1>3. PICK o \in Ends : o = Other(e) /\ o # e
  BY <1>2
<1>4. wire[o] \o x \in Seq(Cells)
  <2>1. wire[o] \in Seq(Cells)
    BY <1>1
  <2> QED
    BY <2>1, JoinOf
<1>5. wire' = [wire EXCEPT ![o] = wire[o] \o x]
  BY <1>1, <1>3 DEF Put
<1> QED
  BY <1>1, <1>3, <1>4, <1>5

\* What is said to an end comes last in its stream.
LEMMA PutStream ==
  ASSUME MseTypeOK, NEW e \in Ends, NEW x \in Seq(Cells),
         wire'[e] = wire[e] \o x, buf'[e] = buf[e]
  PROVE  Stream(e)' = Stream(e) \o x
<1>1. buf[e] \in Seq(Cells) /\ wire[e] \in Seq(Cells)
  BY StreamOf
<1>2. PICK b \in Seq(Cells), w \in Seq(Cells) : b = buf[e] /\ w = wire[e]
  BY <1>1
<1>3. (b \o w) \o x = b \o (w \o x)
  BY ConcatAssociative
<1> QED
  BY <1>2, <1>3 DEF Stream

LEMMA SentOf ==
  ASSUME MseTypeOK, NEW e \in Ends, NEW z \in Cells, z.key = 0, SendData(e, <<z>>)
  PROVE  /\ wire' \in [Ends -> Seq(Cells)] /\ wire'[e] = wire[e]
         /\ enc' \in [Ends -> Nat] /\ enc'[Other(e)] = enc[Other(e)]
         /\ enc'[e] = IF Ciphering(e) THEN enc[e] + 1 ELSE enc[e]
         /\ \E y \in Cells :
              /\ y.what = z.what /\ y.key = IF Ciphering(e) THEN enc[e] + 1 ELSE 0
              /\ wire'[Other(e)] = wire[Other(e)] \o <<y>>
<1>1. enc \in [Ends -> Nat]
  BY DEF MseTypeOK
<1>2. Other(e) \in Ends /\ Other(e) # e
  BY OtherEnd
<1>3. PICK x : x = <<z>>
  OBVIOUS
<1>4. x \in Seq(Cells) /\ Len(x) = 1 /\ x[1] = z
  BY <1>3, PutLast
<1>5. CASE Ciphering(e)
  <2>1. Put(e, Encrypt(x, enc[e])) /\ enc' = [enc EXCEPT ![e] = enc[e] + 1]
    BY <1>1, <1>3, <1>4, <1>5 DEF SendData
  <2>2. PICK u : u = Encrypt(x, enc[e])
    OBVIOUS
  <2>3. x \in Seq(Cells) /\ enc[e] \in Nat
    BY <1>1, <1>4
  <2>4. u \in Seq(Cells) /\ Len(u) = Len(x)
        /\ \A i \in 1 .. Len(x) : u[i].what = x[i].what /\ u[i].key = enc[e] + i
    BY <2>2, <2>3, EncryptOf
  <2>5. Len(u) = 1 /\ u[1].what = z.what /\ u[1].key = enc[e] + 1
    <3>1. 1 \in 1 .. Len(x)
      BY <1>4
    <3> QED
      BY <1>4, <2>4, <3>1
  <2>6. u = <<u[1]>> /\ u[1] \in Cells
    <3>1. 1 \in 1 .. Len(u)
      BY <2>5
    <3>2. u[1] \in Cells
      BY <2>4, <3>1, ElementOfSeq
    <3>3. PICK v : v = <<u[1]>>
      OBVIOUS
    <3>4. v \in Seq(Cells) /\ Len(v) = 1 /\ v[1] = u[1]
      BY <3>2, <3>3
    <3>5. \A i \in 1 .. Len(u) : u[i] = v[i]
      BY <2>5, <3>4
    <3>6. u = v
      BY <2>4, <2>5, <3>4, <3>5, SeqEqual
    <3> QED
      BY <3>2, <3>3, <3>6
  <2>7. u \in Seq(Cells) /\ Put(e, u)
    BY <2>1, <2>2, <2>4
  <2>8. /\ wire' \in [Ends -> Seq(Cells)] /\ wire'[e] = wire[e]
        /\ wire'[Other(e)] = wire[Other(e)] \o u
    BY <2>7, PutOf
  <2>9. enc' \in [Ends -> Nat] /\ enc'[Other(e)] = enc[Other(e)] /\ enc'[e] = enc[e] + 1
    BY <1>1, <1>2, <2>1
  <2>10. wire'[Other(e)] = wire[Other(e)] \o <<u[1]>>
    BY <2>6, <2>8
  <2> QED
    BY <1>5, <2>5, <2>6, <2>8, <2>9, <2>10
<1>6. CASE ~Ciphering(e)
  <2>1. Put(e, x) /\ enc' = enc
    BY <1>3, <1>6 DEF SendData
  <2>2. x \in Seq(Cells)
    BY <1>4
  <2>3. /\ wire' \in [Ends -> Seq(Cells)] /\ wire'[e] = wire[e]
        /\ wire'[Other(e)] = wire[Other(e)] \o x
    BY <2>1, <2>2, PutOf
  <2> QED
    BY <1>1, <1>3, <1>6, <2>1, <2>3
<1> QED
  BY <1>5, <1>6

LEMMA EatOf ==
  ASSUME MseTypeOK, NEW e \in Ends, NEW n \in 0 .. Len(buf[e]), Eat(e, n),
         wire'[e] = wire[e]
  PROVE  /\ buf' \in [Ends -> Seq(Cells)] /\ buf'[e] = Behind(buf[e], n)
         /\ buf'[Other(e)] = buf[Other(e)]
         /\ n \in 0 .. Len(Stream(e)) /\ Stream(e)' = Behind(Stream(e), n)
<1>1. buf \in [Ends -> Seq(Cells)] /\ wire[e] \in Seq(Cells) /\ buf[e] \in Seq(Cells)
  BY DEF MseTypeOK
<1>2. PICK b \in Seq(Cells), w \in Seq(Cells) : b = buf[e] /\ w = wire[e]
  BY <1>1
<1>3. n \in 0 .. Len(b)
  BY <1>2
<1>4. Behind(b, n) \in Seq(Cells)
  BY <1>3, BehindOf
<1>5. buf' = [buf EXCEPT ![e] = Behind(b, n)]
  BY <1>2 DEF Eat
<1>6. buf'[e] = Behind(b, n) /\ buf' \in [Ends -> Seq(Cells)]
  BY <1>1, <1>4, <1>5
<1>7. buf'[Other(e)] = buf[Other(e)]
  BY <1>1, <1>5, OtherEnd
<1>8. Behind(b, n) \o w = Behind(b \o w, n)
  BY <1>3, EatStream
<1>9. n \in 0 .. Len(Stream(e))
  <2>1. Len(Stream(e)) = Len(buf[e]) + Len(wire[e]) /\ Len(wire[e]) \in Nat /\ Len(buf[e]) \in Nat
    BY StreamOf
  <2>2. PICK k \in Nat, l \in Nat : k = Len(buf[e]) /\ l = Len(wire[e])
    BY <2>1
  <2>3. n \in 0 .. k + l
    <3>1. n \in 0 .. k
      BY <2>2
    <3> QED
      BY <3>1
  <2> QED
    BY <2>1, <2>2, <2>3
<1> QED
  BY <1>2, <1>6, <1>7, <1>8, <1>9 DEF Stream

-----------------------------------------------------------------------------
(* A stream d that keeps what was promised of the stream c.                  *)

Keeps(c, d) ==
    /\ \A n, p : RequestsWhole(c, n, p) => RequestsWhole(d, n, p)
    /\ \A s : AnswersWhole(c, s) => AnswersWhole(d, s)
    /\ NoAnswer(c) => NoAnswer(d)
    /\ AtMostOne(c) => AtMostOne(d)

\* Nothing of the encryption is in it.
Harmless(x) == \A i \in 1 .. Len(x) : x[i].what \notin {"req1", "vc", "ialen"}

LEMMA KeepsSame == ASSUME NEW c PROVE Keeps(c, c)
BY DEF Keeps

LEMMA KeepsBehind ==
  ASSUME NEW c \in Seq(Cells), NEW m \in 0 .. Len(c)
  PROVE  Keeps(c, Behind(c, m))
BY Cuts DEF Keeps

LEMMA KeepsJoin ==
  ASSUME NEW c \in Seq(Cells), NEW x \in Seq(Cells), Harmless(x)
  PROVE  Keeps(c, c \o x)
<1>1. \A n, p : RequestsWhole(x, n, p)
  BY DEF Harmless, RequestsWhole
<1>2. (\A s : AnswersWhole(x, s)) /\ NoAnswer(x) /\ AtMostOne(x)
  BY DEF Harmless, AnswersWhole, NoAnswer, AtMostOne
<1> QED
  BY <1>1, <1>2, Joins DEF Keeps

LEMMA KeepsCell ==
  ASSUME NEW c \in Seq(Cells), NEW y \in Cells, y.what \in {"shake", "msg"}
  PROVE  Keeps(c, c \o <<y>>)
<1>1. PICK x \in Seq(Cells) : x = <<y>> /\ Len(x) = 1 /\ x[1] = y
  BY PutLast
<1>2. Harmless(x)
  BY <1>1 DEF Harmless
<1> QED
  BY <1>1, <1>2, KeepsJoin

-----------------------------------------------------------------------------
(* The ends agree on the mode, whatever happens.                             *)

LEMMA ModesFrame ==
  ASSUME ModeA, ModeB, offer' = offer, state' = state, full' = full,
         \A o \in Ends : state[o] # "finish" =>
            /\ Keeps(Stream(o), Stream(o)')
            /\ dec'[o] = dec[o]
            /\ state[o] # "new" /\ buf[o] # <<>> => buf'[o] # <<>> /\ buf'[o][1] = buf[o][1]
  PROVE  ModeA' /\ ModeB'
<1>1. "A" \in Ends /\ "B" \in Ends
  BY DEF Ends
<1>2. Dropped' = Dropped /\ Full' = Full /\ Selected' = Selected
  BY DEF Dropped, Full, Selected
<1>3. state["A"] # "finish" =>
        /\ Keeps(Stream("A"), Stream("A")')
        /\ dec'["A"] = dec["A"]
        /\ state["A"] # "new" /\ buf["A"] # <<>> => buf'["A"] # <<>> /\ buf'["A"][1] = buf["A"][1]
  BY <1>1
<1>4. state["B"] # "finish" =>
        /\ Keeps(Stream("B"), Stream("B")')
        /\ state["B"] # "new" /\ buf["B"] # <<>> => buf'["B"] # <<>> /\ buf'["B"][1] = buf["B"][1]
  BY <1>1
<1>5. ModeA'
  <2>1. state["A"] \in Early \cup {"got_pub", "found_vc"} =>
          IF state["B"] \in Late THEN AnswersWhole(Stream("A")', Selected)
          ELSE NoAnswer(Stream("A")')
    <3>1. SUFFICES ASSUME state["A"] \in Early \cup {"got_pub", "found_vc"}
                   PROVE  IF state["B"] \in Late THEN AnswersWhole(Stream("A")', Selected)
                          ELSE NoAnswer(Stream("A")')
      OBVIOUS
    <3>2. Keeps(Stream("A"), Stream("A")')
      BY <1>3, <3>1 DEF Early
    <3>3. IF state["B"] \in Late THEN AnswersWhole(Stream("A"), Selected)
          ELSE NoAnswer(Stream("A"))
      BY <3>1 DEF ModeA
    <3> QED
      BY <3>2, <3>3 DEF Keeps
  <2>2. state["A"] \in {"got_pub", "found_vc"} => dec'["A"] = Dropped
    BY <1>3 DEF ModeA
  <2>3. state["A"] = "found_vc" =>
          buf'["A"] # <<>> /\ buf'["A"][1].what = "vc" /\ buf'["A"][1].key = Dropped + 1
    BY <1>3 DEF ModeA
  <2>4. state["A"] \in {"wait_pad_d", "finish"} => full["A"] = Full
    BY DEF ModeA
  <2> QED
    BY <1>2, <2>1, <2>2, <2>3, <2>4 DEF ModeA
<1>6. ModeB'
  <2>1. state["B"] \in Early \cup {"found_req1"} =>
          RequestsWhole(Stream("B")', Dropped, offer.provide)
    <3>1. SUFFICES ASSUME state["B"] \in Early \cup {"found_req1"}
                   PROVE  RequestsWhole(Stream("B")', Dropped, offer.provide)
      OBVIOUS
    <3>2. Keeps(Stream("B"), Stream("B")') /\ RequestsWhole(Stream("B"), Dropped, offer.provide)
      BY <1>4, <3>1 DEF ModeB, Early
    <3> QED
      BY <3>2 DEF Keeps
  <2>2. state["B"] \notin Late => AtMostOne(Stream("B")')
    BY <1>4 DEF ModeB, Keeps, Late
  <2>3. state["B"] = "found_req1" => buf'["B"] # <<>> /\ buf'["B"][1].what = "req1"
    BY <1>4 DEF ModeB
  <2>4. state["B"] \in {"wait_pad_c"} \cup Late => full["B"] = Full
    BY DEF ModeB
  <2> QED
    BY <1>2, <2>1, <2>2, <2>3, <2>4 DEF ModeB
<1> QED
  BY <1>5, <1>6

\* Of one end only the other changes its state.
LEMMA ModeBFrame ==
  ASSUME ModeB, offer' = offer, state'["B"] = state["B"], full'["B"] = full["B"],
         buf'["B"] = buf["B"], Keeps(Stream("B"), Stream("B")')
  PROVE  ModeB'
<1>1. Dropped' = Dropped /\ Full' = Full
  BY DEF Dropped, Full
<1>2. state["B"] \in Early \cup {"found_req1"} =>
        RequestsWhole(Stream("B")', Dropped, offer.provide)
  BY DEF ModeB, Keeps
<1>3. state["B"] \notin Late => AtMostOne(Stream("B")')
  BY DEF ModeB, Keeps
<1>4. state["B"] = "found_req1" => buf["B"] # <<>> /\ buf["B"][1].what = "req1"
  BY DEF ModeB
<1>5. state["B"] \in {"wait_pad_c"} \cup Late => full["B"] = Full
  BY DEF ModeB
<1> QED
  BY <1>1, <1>2, <1>3, <1>4, <1>5 DEF ModeB

LEMMA ModeAFrame ==
  ASSUME ModeA, offer' = offer, state'["A"] = state["A"], full'["A"] = full["A"],
         state'["B"] \in Late <=> state["B"] \in Late,
         state["B"] \in Late => full'["B"] = full["B"],
         buf'["A"] = buf["A"], dec'["A"] = dec["A"], Keeps(Stream("A"), Stream("A")')
  PROVE  ModeA'
<1>1. Dropped' = Dropped /\ Full' = Full /\ (state["B"] \in Late => Selected' = Selected)
  BY DEF Dropped, Full, Selected
<1>2. state["A"] \in Early \cup {"got_pub", "found_vc"} =>
        IF state["B"] \in Late THEN AnswersWhole(Stream("A")', Selected)
        ELSE NoAnswer(Stream("A")')
  BY DEF ModeA, Keeps
<1>3. state["A"] \in {"got_pub", "found_vc"} => dec["A"] = Dropped
  BY DEF ModeA
<1>4. state["A"] = "found_vc" =>
        buf["A"] # <<>> /\ buf["A"][1].what = "vc" /\ buf["A"][1].key = Dropped + 1
  BY DEF ModeA
<1>5. state["A"] \in {"wait_pad_d", "finish"} => full["A"] = Full
  BY DEF ModeA
<1> QED
  BY <1>1, <1>2, <1>3, <1>4, <1>5 DEF ModeA

\* An end that says something is in none of the states of the search.
LEMMA SaysKeeps ==
  ASSUME MseTypeOK, NEW e \in Ends, NEW z \in Cells, z.key = 0, z.what \in {"shake", "msg"},
         SendData(e, <<z>>), buf'[Other(e)] = buf[Other(e)]
  PROVE  Keeps(Stream(Other(e)), Stream(Other(e))')
<1>1. PICK y \in Cells : y.what = z.what /\ wire'[Other(e)] = wire[Other(e)] \o <<y>>
  BY SentOf
<1>2. PICK o \in Ends : o = Other(e)
  BY OtherEnd
<1>3. PICK x : x = <<y>> /\ x \in Seq(Cells)
  <2>1. <<y>> \in Seq(Cells)
    OBVIOUS
  <2> QED
    BY <2>1
<1>4. Stream(o)' = Stream(o) \o x
  <2>1. wire'[o] = wire[o] \o x /\ buf'[o] = buf[o] /\ x \in Seq(Cells)
    BY <1>1, <1>2, <1>3
  <2> QED
    BY <2>1, PutStream
<1>5. Stream(o) \in Seq(Cells) /\ y.what \in {"shake", "msg"}
  BY <1>1, StreamOf
<1>6. Keeps(Stream(o), Stream(o) \o <<y>>)
  BY <1>5, KeepsCell
<1> QED
  BY <1>2, <1>3, <1>4, <1>6

LEMMA SaidCells ==
  /\ Plain("shake") \in Cells /\ Plain("shake").key = 0 /\ Plain("shake").what = "shake"
  /\ Plain("msg") \in Cells /\ Plain("msg").key = 0 /\ Plain("msg").what = "msg"
BY DEF Plain, Value, Cells, Whats

LEMMA MoveToConnectedListModes ==
  ASSUME ModeInv, MoveToConnectedList
  PROVE  ModeInv'
<1>1. /\ SendData("A", <<Plain("shake")>>) /\ sentShake' = [sentShake EXCEPT !["A"] = TRUE]
      /\ UNCHANGED <<buf, busy, state, dec, full, padLen, iaLen, got, link,
                     offer, nineteen, messages, keepAlives>>
  BY DEF MoveToConnectedList, SendHandshake, Fixed
<1>2. MseTypeOK /\ ModeA /\ ModeB /\ Settled
  BY DEF ModeInv
<1>3. "A" \in Ends /\ "B" \in Ends /\ Other("A") = "B"
  BY OtherEnd DEF Ends
<1>4. wire' \in [Ends -> Seq(Cells)] /\ wire'["A"] = wire["A"] /\ enc' \in [Ends -> Nat]
  BY <1>1, <1>2, <1>3, SentOf, SaidCells
<1>5. MseTypeOK'
  BY <1>1, <1>2, <1>4 DEF MseTypeOK
<1>6. Keeps(Stream("B"), Stream("B")')
  BY <1>1, <1>2, <1>3, SaysKeeps, SaidCells
<1>7. Keeps(Stream("A"), Stream("A")')
  BY <1>1, <1>4, KeepsSame DEF Stream
<1>8. ModeA' /\ ModeB'
  BY <1>1, <1>2, <1>6, <1>7, ModesFrame DEF Ends
<1>9. Settled'
  BY <1>1, <1>2 DEF Settled, Over
<1> QED
  BY <1>5, <1>8, <1>9 DEF ModeInv

LEMMA HarmlessKey ==
  ASSUME NEW n \in Nat
  PROVE  KeyCells(n) \in Seq(Cells) /\ Harmless(KeyCells(n))
<1>1. /\ KeyCells(n) \in Seq(Cells) /\ Len(KeyCells(n)) = n + 2
      /\ \A i \in 1 .. (n + 2) : KeyCells(n)[i].what \in {"pub", "pub2", "pad"}
  BY KeyOf
<1> QED
  BY <1>1 DEF Harmless

LEMMA SendPublicKeyModes ==
  ASSUME MseAssumption, ModeInv, SendPublicKey
  PROVE  ModeInv'
<1>1. PICK n \in Pads : Put("A", KeyCells(n))
  BY DEF SendPublicKey, KeyCells
<1>2. /\ state["A"] = "new" /\ state' = [state EXCEPT !["A"] = "send_pub"] /\ offer.crypt
      /\ UNCHANGED <<buf, busy, enc, dec, full, padLen, iaLen, got, sentShake, link,
                     offer, nineteen, messages, keepAlives>>
  BY DEF SendPublicKey, Fixed, Become
<1>3. MseTypeOK /\ ModeA /\ ModeB /\ Settled
  BY DEF ModeInv
<1>4. "A" \in Ends /\ "B" \in Ends /\ Other("A") = "B"
  BY OtherEnd DEF Ends
<1>5. KeyCells(n) \in Seq(Cells) /\ Harmless(KeyCells(n))
  BY HarmlessKey DEF MseAssumption
<1>6. /\ wire' \in [Ends -> Seq(Cells)] /\ wire'["A"] = wire["A"]
      /\ wire'["B"] = wire["B"] \o KeyCells(n)
  BY <1>1, <1>3, <1>4, <1>5, PutOf
<1>7. state'["A"] = "send_pub" /\ state'["B"] = state["B"]
  BY <1>2, <1>3, <1>4 DEF MseTypeOK
<1>8. MseTypeOK'
  BY <1>2, <1>3, <1>6 DEF MseTypeOK, States
<1>9. Keeps(Stream("B"), Stream("B")')
  <2>1. Stream("B") \in Seq(Cells) /\ Stream("B")' = Stream("B") \o KeyCells(n)
    BY <1>2, <1>3, <1>4, <1>5, <1>6, PutStream, StreamOf
  <2> QED
    BY <1>5, <2>1, KeepsJoin
<1>10. ModeB'
  BY <1>2, <1>3, <1>7, <1>9, ModeBFrame
<1>11. ModeA'
  <2>1. Stream("A")' = Stream("A")
    BY <1>2, <1>6 DEF Stream
  <2>2. Dropped' = Dropped /\ Full' = Full /\ Selected' = Selected
    BY <1>2 DEF Dropped, Full, Selected
  <2>3. IF state["B"] \in Late THEN AnswersWhole(Stream("A"), Selected)
        ELSE NoAnswer(Stream("A"))
    BY <1>2, <1>3 DEF ModeA, Early
  <2> QED
    BY <1>7, <2>1, <2>2, <2>3 DEF ModeA
<1>12. Settled'
  BY <1>2, <1>3, <1>7 DEF Settled, Over
<1> QED
  BY <1>8, <1>10, <1>11, <1>12 DEF ModeInv

\* What DoRead does to the end and its stream.
LEMMA ReadOf ==
  ASSUME MseTypeOK, NEW e \in Ends, DoRead(e)
  PROVE  \E n \in 1 .. Len(wire[e]) :
           /\ wire' \in [Ends -> Seq(Cells)] /\ wire'[e] = Behind(wire[e], n)
           /\ wire'[Other(e)] = wire[Other(e)]
           /\ buf' \in [Ends -> Seq(Cells)] /\ buf'[Other(e)] = buf[Other(e)]
           /\ buf'[e] = buf[e] \o (IF Ciphering(e) THEN Decrypt(Before(wire[e], n), dec[e])
                                   ELSE Before(wire[e], n))
           /\ dec' \in [Ends -> Nat] /\ dec'[Other(e)] = dec[Other(e)]
           /\ dec'[e] = IF Ciphering(e) THEN dec[e] + n ELSE dec[e]
           /\ buf'[e] # <<>>
           /\ buf[e] # <<>> => buf'[e][1] = buf[e][1]
           /\ ~Ciphering(e) => Stream(e)' = Stream(e)
<1>1. PICK n \in 1 .. Len(wire[e]) :
        /\ wire' = [wire EXCEPT ![e] = Behind(@, n)]
        /\ buf' = [buf EXCEPT ![e] = @ \o
              IF Ciphering(e) THEN Decrypt(Before(wire[e], n), dec[e]) ELSE Before(wire[e], n)]
        /\ dec' = [dec EXCEPT ![e] = IF Ciphering(e) THEN @ + n ELSE @]
  BY DEF DoRead
<1>2. wire \in [Ends -> Seq(Cells)] /\ buf \in [Ends -> Seq(Cells)] /\ dec \in [Ends -> Nat]
  BY DEF MseTypeOK
<1>3. PICK w \in Seq(Cells), b \in Seq(Cells), d \in Nat : w = wire[e] /\ b = buf[e] /\ d = dec[e]
  BY <1>2
<1>4. n \in 1 .. Len(w) /\ n \in 0 .. Len(w) /\ n \in Nat /\ n > 0
  BY <1>3, LenProperties
<1>5. PICK p : p = Before(w, n)
  OBVIOUS
<1>6. p \in Seq(Cells) /\ Len(p) = n
  BY <1>4, <1>5, BeforeOf
<1>7. Behind(w, n) \in Seq(Cells)
  BY <1>4, BehindOf
<1>8. PICK r : r = IF Ciphering(e) THEN Decrypt(p, d) ELSE p
  OBVIOUS
<1>9. r \in Seq(Cells) /\ Len(r) = n
  <2>1. p \in Seq(Cells)
    BY <1>6
  <2>2. Decrypt(p, d) \in Seq(Cells) /\ Len(Decrypt(p, d)) = Len(p)
    BY <2>1, DecryptOf
  <2> QED
    BY <1>6, <1>8, <2>2
<1>10. PICK x : x = b \o r
  OBVIOUS
<1>11. x \in Seq(Cells) /\ x # <<>> /\ (b # <<>> => x[1] = b[1])
  <2>1. r \in Seq(Cells)
    BY <1>9
  <2>2. b \o r \in Seq(Cells) /\ Len(b \o r) = Len(b) + Len(r) /\ Len(b) \in Nat
        /\ \A i \in 1 .. Len(b) : (b \o r)[i] = b[i]
    BY <2>1, JoinOf
  <2>3. Len(x) # 0
    BY <1>4, <1>9, <1>10, <2>2
  <2>4. b # <<>> => 1 \in 1 .. Len(b)
    BY <2>2, EmptySeq
  <2> QED
    BY <1>10, <2>2, <2>3, <2>4
<1>12. wire' = [wire EXCEPT ![e] = Behind(w, n)] /\ buf' = [buf EXCEPT ![e] = x]
  BY <1>1, <1>3, <1>5, <1>8, <1>10
<1>13. dec' = [dec EXCEPT ![e] = IF Ciphering(e) THEN d + n ELSE d]
  BY <1>1, <1>2, <1>3
<1>14. wire' \in [Ends -> Seq(Cells)] /\ wire'[e] = Behind(w, n)
       /\ wire'[Other(e)] = wire[Other(e)]
  BY <1>2, <1>7, <1>12, OtherEnd
<1>15. buf' \in [Ends -> Seq(Cells)] /\ buf'[e] = x /\ buf'[Other(e)] = buf[Other(e)]
  BY <1>2, <1>11, <1>12, OtherEnd
<1>16. dec' \in [Ends -> Nat] /\ dec'[Other(e)] = dec[Other(e)]
       /\ dec'[e] = IF Ciphering(e) THEN d + n ELSE d
  BY <1>2, <1>4, <1>13, OtherEnd
<1>17. ~Ciphering(e) => Stream(e)' = Stream(e)
  <2>1. SUFFICES ASSUME ~Ciphering(e) PROVE x \o Behind(w, n) = b \o w
    BY <1>3, <1>14, <1>15 DEF Stream
  <2>2. x = b \o Before(w, n)
    BY <1>5, <1>8, <1>10, <2>1
  <2> QED
    BY <1>4, <2>2, ReadStays
<1> QED
  BY <1>3, <1>5, <1>8, <1>10, <1>11, <1>14, <1>15, <1>16, <1>17

LEMMA DoReadModes ==
  ASSUME ModeInv, NEW e \in Ends, DoRead(e)
  PROVE  ModeInv'
<1>1. MseTypeOK /\ ModeA /\ ModeB /\ Settled
  BY DEF ModeInv
<1>2. /\ ~busy[e] /\ busy' = [busy EXCEPT ![e] = TRUE]
      /\ UNCHANGED <<state, enc, full, padLen, iaLen, got, sentShake, link,
                     offer, nineteen, messages, keepAlives>>
  BY DEF DoRead, Fixed
<1>3. PICK n \in 1 .. Len(wire[e]) :
        /\ wire' \in [Ends -> Seq(Cells)] /\ wire'[Other(e)] = wire[Other(e)]
        /\ buf' \in [Ends -> Seq(Cells)] /\ buf'[Other(e)] = buf[Other(e)]
        /\ dec' \in [Ends -> Nat] /\ dec'[Other(e)] = dec[Other(e)]
        /\ dec'[e] = IF Ciphering(e) THEN dec[e] + n ELSE dec[e]
        /\ buf'[e] # <<>>
        /\ buf[e] # <<>> => buf'[e][1] = buf[e][1]
        /\ ~Ciphering(e) => Stream(e)' = Stream(e)
  BY <1>1, ReadOf
<1>4. MseTypeOK'
  BY <1>1, <1>2, <1>3 DEF MseTypeOK
<1>5. ASSUME NEW o \in Ends, state[o] # "finish"
      PROVE  /\ Keeps(Stream(o), Stream(o)')
             /\ dec'[o] = dec[o]
             /\ state[o] # "new" /\ buf[o] # <<>> => buf'[o] # <<>> /\ buf'[o][1] = buf[o][1]
  <2>1. CASE o = e
    <3>1. ~Ciphering(e)
      BY <1>5, <2>1 DEF Ciphering
    <3>2. Stream(o)' = Stream(o) /\ dec'[o] = dec[o]
      BY <1>3, <2>1, <3>1
    <3>3. Keeps(Stream(o), Stream(o)')
      BY <3>2, KeepsSame
    <3> QED
      BY <1>3, <2>1, <3>2, <3>3
  <2>2. CASE o # e
    <3>1. o = Other(e)
      BY <2>2 DEF Ends, Other
    <3>2. Stream(o)' = Stream(o)
      BY <1>3, <3>1 DEF Stream
    <3>3. Keeps(Stream(o), Stream(o)')
      BY <3>2, KeepsSame
    <3> QED
      BY <1>3, <3>1, <3>3
  <2> QED
    BY <2>1, <2>2
<1>6. ModeA' /\ ModeB'
  BY <1>1, <1>2, <1>5, ModesFrame
<1>7. Settled'
  <2>1. CASE e = "A"
    <3>1. busy'["B"] = busy["B"] /\ buf'["B"] = buf["B"]
      BY <1>1, <1>2, <1>3, <2>1, OtherEnd DEF MseTypeOK, Ends
    <3> QED
      BY <1>1, <1>2, <3>1 DEF Settled, Over
  <2>2. CASE e = "B"
    BY <1>1, <1>2, <1>3, <2>2 DEF Settled, Over
  <2> QED
    BY <2>1, <2>2 DEF Ends
<1> QED
  BY <1>4, <1>6, <1>7 DEF ModeInv

LEMMA PeerEndedModes ==
  ASSUME ModeInv, NEW e \in Ends, PeerEnded(e)
  PROVE  ModeInv'
<1>1. MseTypeOK /\ ModeA /\ ModeB /\ Settled
  BY DEF ModeInv
<1>2. /\ link' = [link EXCEPT ![e] = "ended"]
      /\ UNCHANGED <<wire, buf, busy, state, enc, dec, full, padLen, iaLen, got, sentShake,
                     offer, nineteen, messages, keepAlives>>
  BY DEF PeerEnded, Fixed, Close
<1>3. MseTypeOK'
  BY <1>1, <1>2 DEF MseTypeOK
<1>4. \A o \in Ends : Stream(o)' = Stream(o)
  BY <1>2 DEF Stream
<1>5. \A o \in Ends : Keeps(Stream(o), Stream(o)')
  BY <1>4, KeepsSame
<1>6. ModeA' /\ ModeB'
  BY <1>1, <1>2, <1>5, ModesFrame
<1>7. Settled'
  BY <1>1, <1>2 DEF Settled, Over
<1> QED
  BY <1>3, <1>6, <1>7 DEF ModeInv

LEMMA RequestWhole ==
  ASSUME MseAssumption, MseTypeOK, NEW n \in Nat
  PROVE  /\ RequestCells(n) \in Seq(Cells)
         /\ RequestsWhole(RequestCells(n), Dropped, offer.provide)
         /\ AtMostOne(RequestCells(n))
<1>1. Dropped \in Nat /\ Ia \in 0 .. 1
  BY OfferOf
<1>2. PICK r : r = RequestCells(n)
  OBVIOUS
<1>3. /\ r \in Seq(Cells) /\ Len(r) = n + 6 + Ia
      /\ r[1].what = "req1" /\ r[1].key = 0
      /\ r[2].what = "req23"
      /\ r[3].what = "vc"
      /\ r[4].what = "provide" /\ r[4].v = offer.provide
      /\ r[5].what = "len" /\ r[5].v = n
      /\ \A i \in 6 .. (n + 5) : r[i].what = "pad"
      /\ r[n + 6].what = "ialen" /\ r[n + 6].v = Ia
      /\ offer.ia => r[n + 7].what = "shake"
      /\ \A i \in 3 .. (n + 6 + Ia) : r[i].key = Dropped + (i - 2)
  <2>1. /\ RequestCells(n) \in Seq(Cells) /\ Len(RequestCells(n)) = n + 6 + Ia
        /\ RequestCells(n)[1].what = "req1" /\ RequestCells(n)[1].key = 0
        /\ RequestCells(n)[2].what = "req23"
        /\ RequestCells(n)[3].what = "vc"
        /\ RequestCells(n)[4].what = "provide" /\ RequestCells(n)[4].v = offer.provide
        /\ RequestCells(n)[5].what = "len" /\ RequestCells(n)[5].v = n
        /\ \A i \in 6 .. (n + 5) : RequestCells(n)[i].what = "pad"
        /\ RequestCells(n)[n + 6].what = "ialen" /\ RequestCells(n)[n + 6].v = Ia
        /\ offer.ia => RequestCells(n)[n + 7].what = "shake"
        /\ \A i \in 3 .. (n + 6 + Ia) : RequestCells(n)[i].key = Dropped + (i - 2)
    BY RequestOf
  <2> HIDE DEF RequestCells
  <2> QED
    BY <1>2, <2>1
<1>4. ASSUME NEW i \in 1 .. Len(r)
      PROVE  /\ r[i].what = "req1" => i = 1
             /\ r[i].what = "ialen" => i = n + 6
  <2>1. i \in 1 .. n + 6 + Ia
    BY <1>3
  <2>2. i \in {1, 2, 3, 4, 5} \/ i \in 6 .. n + 5 \/ i = n + 6 \/ (i = n + 7 /\ Ia = 1)
    BY <1>1, <2>1
  <2>3. Ia = 1 => offer.ia
    BY OfferOf
  <2> QED
    BY <1>3, <2>2, <2>3
<1>5. r[3].key = Dropped + 1 /\ r[4].key = Dropped + 2 /\ 1 + 4 <= Len(r)
  <2>1. 3 \in 3 .. (n + 6 + Ia) /\ 4 \in 3 .. (n + 6 + Ia) /\ 1 + 4 <= n + 6 + Ia
        /\ 3 - 2 = 1 /\ 4 - 2 = 2
    BY <1>1
  <2> QED
    BY <1>3, <2>1
<1>6. RequestsWhole(r, Dropped, offer.provide)
  <2>1. SUFFICES ASSUME NEW i \in 1 .. Len(r), r[i].what = "req1"
                 PROVE  /\ i + 4 <= Len(r) /\ r[i + 2].key = Dropped + 1
                        /\ r[i + 3].key = Dropped + 2 /\ r[i + 3].v = offer.provide
    BY DEF RequestsWhole
  <2>2. i = 1 /\ 1 + 2 = 3 /\ 1 + 3 = 4
    BY <1>4, <2>1
  <2> QED
    BY <1>3, <1>5, <2>2
<1>7. AtMostOne(r)
  <2>1. SUFFICES ASSUME NEW i \in 1 .. Len(r), r[i].what = "ialen" PROVE r[i].v <= 1
    BY DEF AtMostOne
  <2>2. r[i].v = Ia
    BY <1>3, <1>4, <2>1
  <2> QED
    BY <1>1, <2>2
<1> QED
  BY <1>2, <1>3, <1>6, <1>7

LEMMA AfterSendPubAModes ==
  ASSUME MseAssumption, ModeInv, AfterSendPubA
  PROVE  ModeInv'
<1>1. MseTypeOK /\ ModeA /\ ModeB /\ Settled
  BY DEF ModeInv
<1>2. /\ busy["A"] /\ link["A"] = "open" /\ state["A"] = "send_pub"
      /\ busy' = [busy EXCEPT !["A"] = FALSE]
      /\ UNCHANGED <<buf, full, padLen, iaLen, got, offer, nineteen, messages, keepAlives>>
  BY DEF AfterSendPubA, At, Fixed, Return
<1>3. "A" \in Ends /\ "B" \in Ends /\ Other("A") = "B"
  BY OtherEnd DEF Ends
<1>4. CASE UNCHANGED <<state, dec, wire, enc, sentShake>>
  <2>1. \/ link' = [link EXCEPT !["A"] = "protocol"]
        \/ link' = link
    BY <1>4, <1>2, <1>1 DEF AfterSendPubA, Close, Become, MseTypeOK, Ends
  <2>2. MseTypeOK'
    BY <1>1, <1>2, <1>4, <2>1 DEF MseTypeOK
  <2>3. \A o \in Ends : Stream(o)' = Stream(o)
    BY <1>2, <1>4 DEF Stream
  <2>4. \A o \in Ends : Keeps(Stream(o), Stream(o)')
    BY <2>3, KeepsSame
  <2>5. ModeA' /\ ModeB'
    BY <1>1, <1>2, <1>4, <2>4, ModesFrame
  <2>6. Settled'
    BY <1>1, <1>2, <1>3, <1>4 DEF Settled, Over, MseTypeOK
  <2> QED
    BY <2>2, <2>5, <2>6 DEF ModeInv
<1>5. CASE ~UNCHANGED <<state, dec, wire, enc, sentShake>>
  <2>1. /\ \E n \in Pads : Request(n)
        /\ dec' = [dec EXCEPT !["A"] = Dropped]
        /\ sentShake' = [sentShake EXCEPT !["A"] = offer.ia]
        /\ state' = [state EXCEPT !["A"] = "got_pub"]
        /\ link' = link
    BY <1>5 DEF AfterSendPubA, Become
  <2>2. PICK n \in Nat : Put("A", RequestCells(n))
                         /\ enc' = [enc EXCEPT !["A"] = Dropped + Len(SecretA(n))]
    <3>1. PICK n \in Pads : Request(n)
      BY <2>1
    <3>2. n \in Nat
      BY DEF MseAssumption
    <3> QED
      BY <3>1, <3>2 DEF Request, RequestCells, SecretA
  <2>3. /\ RequestCells(n) \in Seq(Cells)
        /\ RequestsWhole(RequestCells(n), Dropped, offer.provide)
        /\ AtMostOne(RequestCells(n))
    BY <1>1, RequestWhole
  <2>4. Dropped \in Nat /\ Len(SecretA(n)) \in Nat /\ offer.ia \in BOOLEAN
    BY <1>1, OfferOf, SecretAOf, LenProperties
  <2>5. /\ wire' \in [Ends -> Seq(Cells)] /\ wire'["A"] = wire["A"]
        /\ wire'["B"] = wire["B"] \o RequestCells(n)
    BY <1>1, <1>3, <2>2, <2>3, PutOf
  <2>6. /\ state'["A"] = "got_pub" /\ state'["B"] = state["B"] /\ dec'["A"] = Dropped
        /\ busy'["B"] = busy["B"]
    BY <1>1, <1>2, <1>3, <2>1 DEF MseTypeOK
  <2>7. enc' \in [Ends -> Nat]
    <3>1. PICK q \in Nat : q = Dropped + Len(SecretA(n))
      BY <2>4
    <3> QED
      BY <1>1, <2>2, <3>1 DEF MseTypeOK
  <2>8. dec' \in [Ends -> Nat] /\ sentShake' \in [Ends -> BOOLEAN]
    BY <1>1, <2>1, <2>4 DEF MseTypeOK
  <2>9. MseTypeOK'
    BY <1>1, <1>2, <2>1, <2>5, <2>7, <2>8 DEF MseTypeOK, States
  <2>10. Dropped' = Dropped /\ Full' = Full /\ Selected' = Selected
    BY <1>2 DEF Dropped, Full, Selected
  <2>11. ModeA'
    <3>1. Stream("A")' = Stream("A")
      BY <1>2, <2>5 DEF Stream
    <3>2. IF state["B"] \in Late THEN AnswersWhole(Stream("A"), Selected)
          ELSE NoAnswer(Stream("A"))
      BY <1>1, <1>2 DEF ModeA, Early
    <3> QED
      BY <2>6, <2>10, <3>1, <3>2 DEF ModeA
  <2>12. Stream("B") \in Seq(Cells) /\ Stream("B")' = Stream("B") \o RequestCells(n)
    BY <1>1, <1>2, <1>3, <2>3, <2>5, PutStream, StreamOf
  <2>13. ModeB'
    <3>1. state["B"] \in Early \cup {"found_req1"} =>
            RequestsWhole(Stream("B")', Dropped, offer.provide)
      BY <1>1, <2>3, <2>12, Joins DEF ModeB
    <3>2. state["B"] \notin Late => AtMostOne(Stream("B")')
      BY <1>1, <2>3, <2>12, Joins DEF ModeB
    <3> QED
      BY <1>1, <1>2, <2>6, <2>10, <3>1, <3>2 DEF ModeB
  <2>14. Settled'
    BY <1>1, <1>2, <2>6 DEF Settled, Over
  <2> QED
    BY <2>9, <2>11, <2>13, <2>14 DEF ModeInv
<1> QED
  BY <1>4, <1>5

LEMMA AfterGotPubModes ==
  ASSUME MseAssumption, ModeInv, AfterGotPub
  PROVE  ModeInv'
<1>1. MseTypeOK /\ ModeA /\ ModeB /\ Settled
  BY DEF ModeInv
<1>2. /\ state["A"] = "got_pub"
      /\ UNCHANGED <<wire, enc, dec, full, padLen, iaLen, got, sentShake,
                     offer, nineteen, messages, keepAlives>>
  BY DEF AfterGotPub, At, Fixed
<1>3. "A" \in Ends /\ "B" \in Ends /\ Other("A") = "B"
  BY OtherEnd DEF Ends
<1>4. PICK c : c = [what |-> "vc", key |-> Dropped + 1]
  OBVIOUS
<1>5. CASE Positions("A", c) = {}
  <2>1. /\ link' = link \/ link' = [link EXCEPT !["A"] = "protocol"]
        /\ busy' = [busy EXCEPT !["A"] = FALSE] /\ UNCHANGED <<state, buf>>
    BY <1>4, <1>5 DEF AfterGotPub, Close, Return
  <2>2. MseTypeOK'
    BY <1>1, <1>2, <2>1 DEF MseTypeOK
  <2>3. \A o \in Ends : Stream(o)' = Stream(o)
    BY <1>2, <2>1 DEF Stream
  <2>4. \A o \in Ends : Keeps(Stream(o), Stream(o)')
    BY <2>3, KeepsSame
  <2>5. ModeA' /\ ModeB'
    BY <1>1, <1>2, <2>1, <2>4, ModesFrame
  <2>6. Settled'
    BY <1>1, <1>2, <1>3, <2>1 DEF Settled, Over, MseTypeOK
  <2> QED
    BY <2>2, <2>5, <2>6 DEF ModeInv
<1>6. CASE Positions("A", c) # {}
  <2>1. PICK m : m = FirstAt(Positions("A", c)) - 1
    OBVIOUS
  <2>2. state' = [state EXCEPT !["A"] = "found_vc"] /\ Eat("A", m) /\ UNCHANGED <<busy, link>>
    BY <1>4, <1>6, <2>1 DEF AfterGotPub, Become
  <2>3. /\ m \in 0 .. Len(buf["A"]) /\ Behind(buf["A"], m) # <<>>
        /\ Behind(buf["A"], m)[1].what = "vc" /\ Behind(buf["A"], m)[1].key = Dropped + 1
    BY <1>1, <1>3, <1>4, <1>6, <2>1, PlaceOf
  <2>4. /\ buf' \in [Ends -> Seq(Cells)] /\ buf'["A"] = Behind(buf["A"], m)
        /\ buf'["B"] = buf["B"]
        /\ m \in 0 .. Len(Stream("A")) /\ Stream("A")' = Behind(Stream("A"), m)
    BY <1>1, <1>2, <1>3, <2>2, <2>3, EatOf
  <2>5. state'["A"] = "found_vc" /\ state'["B"] = state["B"]
    BY <1>1, <1>3, <2>2 DEF MseTypeOK
  <2>6. MseTypeOK'
    BY <1>1, <1>2, <2>2, <2>4 DEF MseTypeOK, States
  <2>7. Keeps(Stream("A"), Stream("A")')
    BY <1>1, <1>3, <2>4, StreamOf, KeepsBehind
  <2>8. Stream("B")' = Stream("B")
    BY <1>2, <2>4 DEF Stream
  <2>9. ModeB'
    BY <1>1, <1>2, <2>4, <2>5, <2>8, KeepsSame, ModeBFrame
  <2>10. Dropped' = Dropped /\ Full' = Full /\ Selected' = Selected
    BY <1>2 DEF Dropped, Full, Selected
  <2>11. ModeA'
    <3>1. IF state["B"] \in Late THEN AnswersWhole(Stream("A"), Selected)
          ELSE NoAnswer(Stream("A"))
      BY <1>1, <1>2 DEF ModeA
    <3>2. IF state["B"] \in Late THEN AnswersWhole(Stream("A")', Selected)
          ELSE NoAnswer(Stream("A")')
      BY <2>7, <3>1 DEF Keeps
    <3>3. dec["A"] = Dropped
      BY <1>1, <1>2 DEF ModeA
    <3> QED
      BY <1>2, <2>3, <2>4, <2>5, <2>10, <3>2, <3>3 DEF ModeA
  <2>12. Settled'
    BY <1>1, <1>2, <2>2, <2>4, <2>5 DEF Settled, Over
  <2> QED
    BY <2>6, <2>9, <2>11, <2>12 DEF ModeInv
<1> QED
  BY <1>5, <1>6

\* The beginning of a buffer, decrypted.
LEMMA HeadCells ==
  ASSUME NEW b \in Seq(Cells), NEW m \in Nat, m <= Len(b), NEW n \in Nat
  PROVE  /\ Decrypt(Before(b, m), n) \in Seq(Cells) /\ Len(Decrypt(Before(b, m), n)) = m
         /\ \A i \in 1 .. m :
              /\ Decrypt(Before(b, m), n)[i] \in Cells
              /\ IF b[i].key = n + i
                 THEN /\ Decrypt(Before(b, m), n)[i].what = b[i].what
                      /\ Decrypt(Before(b, m), n)[i].v = b[i].v
                      /\ Decrypt(Before(b, m), n)[i].key = 0
                 ELSE Decrypt(Before(b, m), n)[i] = Plain("junk")
<1>1. m \in 0 .. Len(b)
  BY LenProperties
<1>2. PICK p : p = Before(b, m)
  OBVIOUS
<1>3. p \in Seq(Cells) /\ Len(p) = m /\ \A i \in 1 .. m : p[i] = b[i]
  BY <1>1, <1>2, BeforeOf
<1>4. p \in Seq(Cells)
  BY <1>3
<1>5. PICK d : d = Decrypt(p, n)
  OBVIOUS
<1>6. /\ d \in Seq(Cells) /\ Len(d) = Len(p)
      /\ \A i \in 1 .. Len(p) :
           IF p[i].key = n + i
           THEN d[i].what = p[i].what /\ d[i].v = p[i].v /\ d[i].key = 0
           ELSE d[i] = Plain("junk")
  BY <1>4, <1>5, DecryptOf
<1>7. \A i \in 1 .. m : d[i] \in Cells
  BY <1>3, <1>6, ElementOfSeq
<1> QED
  BY <1>2, <1>3, <1>5, <1>6, <1>7

LEMMA AfterFoundVCModes ==
  ASSUME MseAssumption, ModeInv, AfterFoundVC
  PROVE  ModeInv'
<1>1. MseTypeOK /\ ModeA /\ ModeB /\ Settled
  BY DEF ModeInv
<1>2. /\ state["A"] = "found_vc"
      /\ UNCHANGED <<wire, enc, iaLen, got, sentShake, offer, nineteen, messages, keepAlives>>
  BY DEF AfterFoundVC, At, Fixed
<1>3. "A" \in Ends /\ "B" \in Ends /\ Other("A") = "B"
  BY OtherEnd DEF Ends
<1>4. CASE Len(buf["A"]) < 3
  <2>1. busy' = [busy EXCEPT !["A"] = FALSE] /\ UNCHANGED <<state, buf, dec, full, padLen, link>>
    BY <1>4 DEF AfterFoundVC, Return
  <2>2. MseTypeOK'
    BY <1>1, <1>2, <2>1 DEF MseTypeOK
  <2>3. \A o \in Ends : Stream(o)' = Stream(o)
    BY <1>2, <2>1 DEF Stream
  <2>4. \A o \in Ends : Keeps(Stream(o), Stream(o)')
    BY <2>3, KeepsSame
  <2>5. ModeA' /\ ModeB'
    BY <1>1, <1>2, <2>1, <2>4, ModesFrame
  <2>6. Settled'
    BY <1>1, <1>2, <1>3, <2>1 DEF Settled, Over, MseTypeOK
  <2> QED
    BY <2>2, <2>5, <2>6 DEF ModeInv
<1>5. CASE ~(Len(buf["A"]) < 3)
  <2>1. PICK head : head = Decrypt(Before(buf["A"], 3), dec["A"])
    OBVIOUS
  <2>2. /\ dec' = [dec EXCEPT !["A"] = @ + 3]
        /\ Eat("A", 3)
        /\ state' = [state EXCEPT !["A"] = "wait_pad_d"]
        /\ full' = [full EXCEPT !["A"] = head[2].v = 2]
        /\ IF head[2].v \notin 1 .. 3 \/ head[3].v > PadMax
           THEN /\ link' = [link EXCEPT !["A"] = "protocol"]
                /\ busy' = [busy EXCEPT !["A"] = FALSE]
                /\ padLen' = padLen
           ELSE /\ padLen' = [padLen EXCEPT !["A"] = head[3].v]
                /\ UNCHANGED <<busy, link>>
    BY <1>5, <2>1 DEF AfterFoundVC, Close, Return, Become
  <2>3. PICK b \in Seq(Cells), n \in Nat : b = buf["A"] /\ n = dec["A"]
    BY <1>1, <1>3 DEF MseTypeOK
  <2>4. 3 \in Nat /\ 3 <= Len(b) /\ Len(b) \in Nat /\ 3 \in 0 .. Len(buf["A"])
    BY <1>5, <2>3, LenProperties
  <2>5. /\ head[2] \in Cells /\ head[3] \in Cells
        /\ b[2].key = n + 2 => head[2].v = b[2].v
    <3>1. \A i \in 1 .. 3 :
            /\ Decrypt(Before(b, 3), n)[i] \in Cells
            /\ IF b[i].key = n + i
               THEN Decrypt(Before(b, 3), n)[i].v = b[i].v
               ELSE TRUE
      BY <2>4, HeadCells
    <3> QED
      BY <2>1, <2>3, <3>1
  <2>6. PICK s \in Seq(Cells) : s = Stream("A")
    BY <1>1, <1>3, StreamOf
  <2>7. Len(s) >= 3 /\ s[1] = b[1] /\ s[2] = b[2]
    <3>1. Len(s) = Len(b) + Len(wire["A"]) /\ Len(wire["A"]) \in Nat
          /\ \A i \in 1 .. Len(b) : s[i] = b[i]
      BY <1>1, <1>3, <2>3, <2>6, StreamOf
    <3> QED
      BY <2>4, <3>1
  <2>8. /\ b[1].what = "vc" /\ b[1].key = Dropped + 1 /\ n = Dropped
        /\ IF state["B"] \in Late THEN AnswersWhole(s, Selected) ELSE NoAnswer(s)
    BY <1>1, <1>2, <2>3, <2>6 DEF ModeA
  <2>9. state["B"] \in Late /\ s[2].key = s[1].key + 1 /\ s[2].v = Selected
    <3>1. 1 \in 1 .. Len(s) /\ s[1].what = "vc"
      BY <2>7, <2>8
    <3>2. state["B"] \in Late
      BY <2>8, <3>1 DEF NoAnswer
    <3>3. AnswersWhole(s, Selected) /\ 1 + 1 = 2
      BY <2>8, <3>2
    <3> QED
      BY <3>1, <3>2, <3>3 DEF AnswersWhole
  <2>10. head[2].v = Selected
    <3>1. Dropped \in Nat
      BY <1>1, OfferOf
    <3>2. b[2].key = n + 2
      BY <2>7, <2>8, <2>9, <3>1
    <3> QED
      BY <2>5, <2>7, <2>9, <3>2
  <2>11. full["B"] = Full /\ full["B"] \in BOOLEAN
    BY <1>1, <1>3, <2>9 DEF ModeB, MseTypeOK
  <2>12. full'["A"] = Full /\ full'["B"] = full["B"] /\ full' \in [Ends -> BOOLEAN]
    <3>1. (head[2].v = 2) = full["B"]
      BY <2>10, <2>11 DEF Selected
    <3>2. full' = [full EXCEPT !["A"] = full["B"]]
      BY <2>2, <3>1
    <3> QED
      BY <1>1, <1>3, <2>11, <3>2 DEF MseTypeOK
  <2>13. /\ buf' \in [Ends -> Seq(Cells)]
         /\ buf'["B"] = buf["B"]
         /\ 3 \in 0 .. Len(Stream("A")) /\ Stream("A")' = Behind(Stream("A"), 3)
    BY <1>1, <1>2, <1>3, <2>2, <2>4, EatOf
  <2>14. state'["A"] = "wait_pad_d" /\ state'["B"] = state["B"] /\ busy'["B"] = busy["B"]
    BY <1>1, <1>3, <2>2 DEF MseTypeOK
  <2>15. padLen' \in [Ends -> 0 .. PadMax]
    <3>1. CASE head[3].v > PadMax \/ head[2].v \notin 1 .. 3
      BY <1>1, <2>2, <3>1 DEF MseTypeOK
    <3>2. CASE ~(head[3].v > PadMax \/ head[2].v \notin 1 .. 3)
      <4>1. head[3].v \in Nat
        BY <2>5 DEF Cells
      <4>2. head[3].v \in 0 .. PadMax
        BY <3>2, <4>1 DEF MseAssumption
      <4> QED
        BY <1>1, <2>2, <3>2, <4>2 DEF MseTypeOK
    <3> QED
      BY <3>1, <3>2
  <2>16. dec' \in [Ends -> Nat]
    <3>1. dec["A"] + 3 \in Nat
      BY <2>3
    <3>2. dec' = [dec EXCEPT !["A"] = dec["A"] + 3]
      BY <2>2
    <3> QED
      BY <1>1, <3>1, <3>2 DEF MseTypeOK
  <2>17. link' \in [Ends -> {"open", "refused", "protocol", "ended"}] /\ busy' \in [Ends -> BOOLEAN]
    BY <1>1, <2>2 DEF MseTypeOK
  <2>18. state' \in [Ends -> States]
    BY <1>1, <2>2 DEF MseTypeOK, States
  <2>19. MseTypeOK'
    BY <1>1, <1>2, <2>12, <2>13, <2>15, <2>16, <2>17, <2>18 DEF MseTypeOK
  <2>20. Stream("B")' = Stream("B")
    BY <1>2, <2>13 DEF Stream
  <2>21. ModeB'
    BY <1>1, <1>2, <2>12, <2>13, <2>14, <2>20, KeepsSame, ModeBFrame
  <2>22. ModeA'
    <3>1. Full' = Full
      BY <1>2 DEF Full
    <3> QED
      BY <2>12, <2>14, <3>1 DEF ModeA, Early
  <2>23. Settled'
    BY <1>1, <1>2, <2>13, <2>14 DEF Settled, Over
  <2> QED
    BY <2>19, <2>21, <2>22, <2>23 DEF ModeInv
<1> QED
  BY <1>4, <1>5

\* What Finish leaves.
LEMMA FinishOf ==
  ASSUME MseTypeOK, NEW e \in Ends, NEW n \in Nat, n <= Len(buf[e]), Finish(e, n)
  PROVE  /\ buf' \in [Ends -> Seq(Cells)] /\ buf'[Other(e)] = buf[Other(e)]
         /\ buf'[e] = IF full[e] THEN Decrypt(Behind(buf[e], n), dec[e] + n) ELSE Behind(buf[e], n)
         /\ dec' \in [Ends -> Nat] /\ dec'[Other(e)] = dec[Other(e)]
         /\ dec'[e] = dec[e] + n + (IF full[e] THEN Len(Behind(buf[e], n)) ELSE 0)
         /\ state' \in [Ends -> States] /\ state'[Other(e)] = state[Other(e)]
         /\ state'[e] = "finish"
         /\ busy' \in [Ends -> BOOLEAN] /\ busy'[Other(e)] = busy[Other(e)]
<1>1. /\ buf \in [Ends -> Seq(Cells)] /\ dec \in [Ends -> Nat] /\ state \in [Ends -> States]
      /\ busy \in [Ends -> BOOLEAN]
  BY DEF MseTypeOK
<1>2. PICK b \in Seq(Cells), d \in Nat : b = buf[e] /\ d = dec[e]
  BY <1>1
<1>3. n \in 0 .. Len(b)
  BY <1>2, LenProperties
<1>4. PICK r : r = Behind(b, n)
  OBVIOUS
<1>5. r \in Seq(Cells)
  BY <1>3, <1>4, BehindOf
<1>6. PICK x : x = IF full[e] THEN Decrypt(r, d + n) ELSE r
  OBVIOUS
<1>7. x \in Seq(Cells)
  <2>1. d + n \in Nat
    OBVIOUS
  <2>2. Decrypt(r, d + n) \in Seq(Cells)
    BY <1>5, <2>1, DecryptOf
  <2> QED
    BY <1>5, <1>6, <2>2
<1>8. PICK k : k = d + n + (IF full[e] THEN Len(r) ELSE 0)
  OBVIOUS
<1>9. k \in Nat
  <2>1. PICK l \in Nat : l = Len(r)
    BY <1>5, LenProperties
  <2>2. k = d + n + (IF full[e] THEN l ELSE 0)
    BY <1>8, <2>1
  <2> QED
    BY <2>2
<1>10. /\ state' = [state EXCEPT ![e] = "finish"]
       /\ buf' = [buf EXCEPT ![e] = x]
       /\ dec' = [dec EXCEPT ![e] = k]
       /\ busy' = [busy EXCEPT ![e] = r # <<>>]
  BY <1>1, <1>2, <1>4, <1>6, <1>8 DEF Finish, Become
<1>11. Other(e) # e /\ Other(e) \in Ends
  BY OtherEnd
<1>12. buf' \in [Ends -> Seq(Cells)] /\ buf'[Other(e)] = buf[Other(e)] /\ buf'[e] = x
  BY <1>1, <1>7, <1>10, <1>11
<1>13. dec' \in [Ends -> Nat] /\ dec'[Other(e)] = dec[Other(e)] /\ dec'[e] = k
  BY <1>1, <1>9, <1>10, <1>11
<1>14. state' \in [Ends -> States] /\ state'[Other(e)] = state[Other(e)] /\ state'[e] = "finish"
  BY <1>1, <1>10, <1>11 DEF States
<1>15. busy' \in [Ends -> BOOLEAN] /\ busy'[Other(e)] = busy[Other(e)]
  BY <1>1, <1>10, <1>11
<1> QED
  BY <1>2, <1>4, <1>6, <1>8, <1>12, <1>13, <1>14, <1>15

LEMMA AfterWaitPadDModes ==
  ASSUME MseAssumption, ModeInv, AfterWaitPadD
  PROVE  ModeInv'
<1>1. MseTypeOK /\ ModeA /\ ModeB /\ Settled
  BY DEF ModeInv
<1>2. /\ state["A"] = "wait_pad_d"
      /\ UNCHANGED <<wire, enc, full, padLen, iaLen, got, sentShake, link,
                     offer, nineteen, messages, keepAlives>>
  BY DEF AfterWaitPadD, At, Fixed
<1>3. "A" \in Ends /\ "B" \in Ends /\ Other("A") = "B"
  BY OtherEnd DEF Ends
<1>4. CASE Len(buf["A"]) < padLen["A"]
  <2>1. busy' = [busy EXCEPT !["A"] = FALSE] /\ UNCHANGED <<state, buf, dec>>
    BY <1>4 DEF AfterWaitPadD, Return
  <2>2. MseTypeOK'
    BY <1>1, <1>2, <2>1 DEF MseTypeOK
  <2>3. \A o \in Ends : Stream(o)' = Stream(o)
    BY <1>2, <2>1 DEF Stream
  <2>4. \A o \in Ends : Keeps(Stream(o), Stream(o)')
    BY <2>3, KeepsSame
  <2>5. ModeA' /\ ModeB'
    BY <1>1, <1>2, <2>1, <2>4, ModesFrame
  <2>6. Settled'
    BY <1>1, <1>2, <1>3, <2>1 DEF Settled, Over, MseTypeOK
  <2> QED
    BY <2>2, <2>5, <2>6 DEF ModeInv
<1>5. CASE ~(Len(buf["A"]) < padLen["A"])
  <2>1. Finish("A", padLen["A"])
    BY <1>5 DEF AfterWaitPadD
  <2>2. padLen["A"] \in Nat /\ padLen["A"] <= Len(buf["A"])
    BY <1>1, <1>3, <1>5, StreamOf DEF MseTypeOK
  <2>3. /\ buf' \in [Ends -> Seq(Cells)] /\ buf'["B"] = buf["B"]
        /\ dec' \in [Ends -> Nat]
        /\ state' \in [Ends -> States] /\ state'["B"] = state["B"] /\ state'["A"] = "finish"
        /\ busy' \in [Ends -> BOOLEAN] /\ busy'["B"] = busy["B"]
    BY <1>1, <1>3, <2>1, <2>2, FinishOf
  <2>4. MseTypeOK'
    BY <1>1, <1>2, <2>3 DEF MseTypeOK
  <2>5. Stream("B")' = Stream("B")
    BY <1>2, <2>3 DEF Stream
  <2>6. ModeB'
    BY <1>1, <1>2, <2>3, <2>5, KeepsSame, ModeBFrame
  <2>7. ModeA'
    BY <1>1, <1>2, <2>3 DEF ModeA, Early, Full
  <2>8. Settled'
    BY <1>1, <1>2, <2>3 DEF Settled, Over
  <2> QED
    BY <2>4, <2>6, <2>7, <2>8 DEF ModeInv
<1> QED
  BY <1>4, <1>5

LEMMA CheckAcceptedShakeHandModes ==
  ASSUME ModeInv, CheckAcceptedShakeHand
  PROVE  ModeInv'
<1>1. MseTypeOK /\ ModeA /\ ModeB /\ Settled
  BY DEF ModeInv
<1>2. /\ busy["B"] /\ state["B"] = "new" /\ ~got["B"]
      /\ got' = [got EXCEPT !["B"] = TRUE] /\ Eat("B", 1)
      /\ SendData("B", <<Plain("shake")>>) /\ sentShake' = [sentShake EXCEPT !["B"] = TRUE]
      /\ UNCHANGED <<busy, state, dec, full, padLen, iaLen, link,
                     offer, nineteen, messages, keepAlives>>
  BY DEF CheckAcceptedShakeHand, At, Fixed, SendHandshake
<1>3. "A" \in Ends /\ "B" \in Ends /\ Other("B") = "A"
  BY OtherEnd DEF Ends
<1>4. wire' \in [Ends -> Seq(Cells)] /\ wire'["B"] = wire["B"] /\ enc' \in [Ends -> Nat]
  BY <1>1, <1>2, <1>3, SentOf, SaidCells
<1>5. 1 \in 0 .. Len(buf["B"])
  <2>1. buf["B"] # <<>> /\ buf["B"] \in Seq(Cells)
    BY <1>1, <1>2, <1>3 DEF Settled, MseTypeOK
  <2> QED
    BY <2>1, EmptySeq, LenProperties
<1>6. /\ buf' \in [Ends -> Seq(Cells)] /\ buf'["A"] = buf["A"]
      /\ 1 \in 0 .. Len(Stream("B")) /\ Stream("B")' = Behind(Stream("B"), 1)
  BY <1>1, <1>2, <1>3, <1>4, <1>5, EatOf
<1>7. MseTypeOK'
  BY <1>1, <1>2, <1>4, <1>6 DEF MseTypeOK
<1>8. Keeps(Stream("A"), Stream("A")')
  BY <1>1, <1>2, <1>3, <1>6, SaysKeeps, SaidCells
<1>9. Keeps(Stream("B"), Stream("B")')
  BY <1>1, <1>3, <1>6, StreamOf, KeepsBehind
<1>10. ModeA' /\ ModeB'
  BY <1>1, <1>2, <1>6, <1>8, <1>9, ModesFrame DEF Ends
<1>11. Settled'
  BY <1>1, <1>2, <1>3 DEF Settled, Over, MseTypeOK
<1> QED
  BY <1>7, <1>10, <1>11 DEF ModeInv

LEMMA AfterConfirmEncryptModes ==
  ASSUME MseAssumption, ModeInv, AfterConfirmEncrypt
  PROVE  ModeInv'
<1>1. MseTypeOK /\ ModeA /\ ModeB /\ Settled
  BY DEF ModeInv
<1>2. /\ state["B"] \in {"new", "init"} /\ ~got["B"]
      /\ busy' = [busy EXCEPT !["B"] = FALSE]
      /\ UNCHANGED <<buf, enc, dec, full, padLen, iaLen, got, sentShake, link,
                     offer, nineteen, messages, keepAlives>>
  BY DEF AfterConfirmEncrypt, At, Fixed, Return
<1>3. "A" \in Ends /\ "B" \in Ends /\ Other("B") = "A"
  BY OtherEnd DEF Ends
<1>4. \/ state' = [state EXCEPT !["B"] = "init"] /\ wire' = wire
      \/ /\ state' = [state EXCEPT !["B"] = "send_pub"]
         /\ \E n \in Pads : Put("B", KeyCells(n))
  BY DEF AfterConfirmEncrypt, Become, KeyCells
<1>5. /\ wire' \in [Ends -> Seq(Cells)] /\ wire'["B"] = wire["B"]
      /\ Keeps(Stream("A"), Stream("A")')
  <2>1. CASE wire' = wire
    <3>1. Stream("A")' = Stream("A")
      BY <1>2, <2>1 DEF Stream
    <3> QED
      BY <1>1, <2>1, <3>1, KeepsSame DEF MseTypeOK
  <2>2. CASE \E n \in Pads : Put("B", KeyCells(n))
    <3>1. PICK n \in Pads : Put("B", KeyCells(n))
      BY <2>2
    <3>2. KeyCells(n) \in Seq(Cells) /\ Harmless(KeyCells(n))
      BY HarmlessKey DEF MseAssumption
    <3>3. /\ wire' \in [Ends -> Seq(Cells)] /\ wire'["B"] = wire["B"]
          /\ wire'["A"] = wire["A"] \o KeyCells(n)
      BY <1>1, <1>3, <3>1, <3>2, PutOf
    <3>4. Stream("A") \in Seq(Cells) /\ Stream("A")' = Stream("A") \o KeyCells(n)
      BY <1>1, <1>2, <1>3, <3>2, <3>3, PutStream, StreamOf
    <3> QED
      BY <3>2, <3>3, <3>4, KeepsJoin
  <2> QED
    BY <1>4, <2>1, <2>2
<1>6. state'["B"] \in {"init", "send_pub"} /\ state'["A"] = state["A"] /\ busy'["B"] = FALSE
  BY <1>1, <1>2, <1>3, <1>4 DEF MseTypeOK
<1>7. MseTypeOK'
  <2>1. state' \in [Ends -> States]
    BY <1>1, <1>4 DEF MseTypeOK, States
  <2> QED
    BY <1>1, <1>2, <1>5, <2>1 DEF MseTypeOK
<1>8. ModeA'
  BY <1>1, <1>2, <1>5, <1>6, ModeAFrame DEF Late
<1>9. ModeB'
  <2>1. Stream("B")' = Stream("B")
    BY <1>2, <1>5 DEF Stream
  <2>2. Dropped' = Dropped /\ Full' = Full
    BY <1>2 DEF Dropped, Full
  <2>3. RequestsWhole(Stream("B"), Dropped, offer.provide) /\ AtMostOne(Stream("B"))
    BY <1>1, <1>2 DEF ModeB, Early, Late
  <2> QED
    BY <1>2, <1>6, <2>1, <2>2, <2>3 DEF ModeB, Late
<1>10. Settled'
  BY <1>1, <1>2, <1>6 DEF Settled, Over
<1> QED
  BY <1>7, <1>8, <1>9, <1>10 DEF ModeInv

LEMMA AfterSendPubBModes ==
  ASSUME MseAssumption, ModeInv, AfterSendPubB
  PROVE  ModeInv'
<1>1. MseTypeOK /\ ModeA /\ ModeB /\ Settled
  BY DEF ModeInv
<1>2. /\ state["B"] = "send_pub"
      /\ UNCHANGED <<wire, enc, dec, full, padLen, iaLen, got, sentShake,
                     offer, nineteen, messages, keepAlives>>
  BY DEF AfterSendPubB, At, Fixed
<1>3. "A" \in Ends /\ "B" \in Ends /\ Other("B") = "A"
  BY OtherEnd DEF Ends
<1>4. PICK c : c = Plain("req1")
  OBVIOUS
<1>5. CASE Positions("B", c) = {}
  <2>1. /\ link' = link \/ link' = [link EXCEPT !["B"] = "protocol"]
        /\ busy' = [busy EXCEPT !["B"] = FALSE] /\ UNCHANGED <<state, buf>>
    BY <1>4, <1>5 DEF AfterSendPubB, Close, Return
  <2>2. MseTypeOK'
    BY <1>1, <1>2, <2>1 DEF MseTypeOK
  <2>3. \A o \in Ends : Stream(o)' = Stream(o)
    BY <1>2, <2>1 DEF Stream
  <2>4. \A o \in Ends : Keeps(Stream(o), Stream(o)')
    BY <2>3, KeepsSame
  <2>5. ModeA' /\ ModeB'
    BY <1>1, <1>2, <2>1, <2>4, ModesFrame
  <2>6. Settled'
    BY <1>1, <1>2, <1>3, <2>1 DEF Settled, Over, MseTypeOK
  <2> QED
    BY <2>2, <2>5, <2>6 DEF ModeInv
<1>6. CASE Positions("B", c) # {}
  <2>1. PICK m : m = FirstAt(Positions("B", c)) - 1
    OBVIOUS
  <2>2. state' = [state EXCEPT !["B"] = "found_req1"] /\ Eat("B", m) /\ UNCHANGED <<busy, link>>
    BY <1>4, <1>6, <2>1 DEF AfterSendPubB, Become
  <2>3. /\ m \in 0 .. Len(buf["B"]) /\ Behind(buf["B"], m) # <<>>
        /\ Behind(buf["B"], m)[1].what = c.what
    BY <1>1, <1>3, <1>6, <2>1, PlaceOf
  <2>4. c.what = "req1"
    BY <1>4 DEF Plain, Value
  <2>5. /\ buf' \in [Ends -> Seq(Cells)] /\ buf'["B"] = Behind(buf["B"], m)
        /\ buf'["A"] = buf["A"]
        /\ m \in 0 .. Len(Stream("B")) /\ Stream("B")' = Behind(Stream("B"), m)
    BY <1>1, <1>2, <1>3, <2>2, <2>3, EatOf
  <2>6. state'["B"] = "found_req1" /\ state'["A"] = state["A"]
    BY <1>1, <1>3, <2>2 DEF MseTypeOK
  <2>7. MseTypeOK'
    BY <1>1, <1>2, <2>2, <2>5 DEF MseTypeOK, States
  <2>8. Keeps(Stream("B"), Stream("B")')
    BY <1>1, <1>3, <2>5, StreamOf, KeepsBehind
  <2>9. Stream("A")' = Stream("A")
    BY <1>2, <2>5 DEF Stream
  <2>10. ModeA'
    BY <1>1, <1>2, <2>5, <2>6, <2>9, KeepsSame, ModeAFrame DEF Late
  <2>11. Dropped' = Dropped
    BY <1>2 DEF Dropped
  <2>12. ModeB'
    <3>1. RequestsWhole(Stream("B"), Dropped, offer.provide) /\ AtMostOne(Stream("B"))
      BY <1>1, <1>2 DEF ModeB, Early, Late
    <3>2. RequestsWhole(Stream("B")', Dropped, offer.provide) /\ AtMostOne(Stream("B")')
      BY <2>8, <3>1 DEF Keeps
    <3> QED
      BY <1>2, <2>3, <2>4, <2>5, <2>6, <2>11, <3>2 DEF ModeB, Late
  <2>13. Settled'
    BY <1>1, <1>2, <2>2, <2>5, <2>6 DEF Settled, Over
  <2> QED
    BY <2>7, <2>10, <2>12, <2>13 DEF ModeInv
<1> QED
  BY <1>5, <1>6

LEMMA AfterFoundReq1Modes ==
  ASSUME MseAssumption, ModeInv, AfterFoundReq1
  PROVE  ModeInv'
<1>1. MseTypeOK /\ ModeA /\ ModeB /\ Settled
  BY DEF ModeInv
<1>2. /\ state["B"] = "found_req1"
      /\ UNCHANGED <<wire, iaLen, got, sentShake, offer, nineteen, messages, keepAlives>>
  BY DEF AfterFoundReq1, At, Fixed
<1>3. "A" \in Ends /\ "B" \in Ends /\ Other("B") = "A"
  BY OtherEnd DEF Ends
<1>4. CASE UNCHANGED <<state, buf, enc, dec, full, padLen>>
           /\ busy' = [busy EXCEPT !["B"] = FALSE]
           /\ (link' = link \/ link' = [link EXCEPT !["B"] = "protocol"]
               \/ link' = [link EXCEPT !["B"] = "refused"])
  <2>1. MseTypeOK'
    BY <1>1, <1>2, <1>4 DEF MseTypeOK
  <2>2. \A o \in Ends : Stream(o)' = Stream(o)
    BY <1>2, <1>4 DEF Stream
  <2>3. \A o \in Ends : Keeps(Stream(o), Stream(o)')
    BY <2>2, KeepsSame
  <2>4. ModeA' /\ ModeB'
    BY <1>1, <1>2, <1>4, <2>3, ModesFrame
  <2>5. Settled'
    BY <1>1, <1>2, <1>3, <1>4 DEF Settled, Over, MseTypeOK
  <2> QED
    BY <2>1, <2>4, <2>5 DEF ModeInv
<1>5. CASE ~(UNCHANGED <<state, buf, enc, dec, full, padLen>>
             /\ busy' = [busy EXCEPT !["B"] = FALSE]
             /\ (link' = link \/ link' = [link EXCEPT !["B"] = "protocol"]
                 \/ link' = [link EXCEPT !["B"] = "refused"]))
  <2>1. PICK secret : secret = SubSeq(buf["B"], 3, 5)
    OBVIOUS
  <2>2. PICK start : start = IF secret[1].key = 1 THEN 0 ELSE Skip
    OBVIOUS
  <2>3. PICK head : head = Decrypt(secret, start)
    OBVIOUS
  <2>4. /\ Len(buf["B"]) >= 5
        /\ head[1].what = "vc" /\ head[3].v <= PadMax
        /\ dec' = [dec EXCEPT !["B"] = start + 3]
        /\ enc' = [enc EXCEPT !["B"] = start]
        /\ full' = [full EXCEPT !["B"] = head[2].v \in {2, 3}]
        /\ padLen' = [padLen EXCEPT !["B"] = head[3].v]
        /\ Eat("B", 5)
        /\ state' = [state EXCEPT !["B"] = "wait_pad_c"]
        /\ UNCHANGED <<busy, link>>
    <3>1. Len(buf["B"]) \in Nat
      BY <1>1, <1>3, StreamOf
    <3> QED
      BY <1>5, <2>1, <2>2, <2>3, <3>1 DEF AfterFoundReq1, Become, Return, Close
  <2>5. PICK b \in Seq(Cells) : b = buf["B"]
    BY <1>1, <1>3 DEF MseTypeOK
  <2>6. /\ secret \in Seq(Cells) /\ Len(secret) = 3
        /\ secret[1] = b[3] /\ secret[2] = b[4] /\ secret[3] = b[5]
    <3>1. PICK l \in Nat : l = Len(b) /\ l >= 5
      BY <2>4, <2>5, LenProperties
    <3>2. \A i \in 3 .. 5 : b[i] \in Cells
      <4>1. ASSUME NEW i \in 3 .. 5 PROVE i \in 1 .. Len(b)
        BY <3>1
      <4> QED
        BY <4>1, ElementOfSeq
    <3>3. 3 \in Int /\ 5 \in Int
      OBVIOUS
    <3>4. /\ secret \in Seq(Cells)
          /\ Len(secret) = (IF 3 <= 5 THEN 5 - 3 + 1 ELSE 0)
          /\ \A i \in 1 .. (5 - 3 + 1) : secret[i] = b[3 + i - 1]
      BY <2>1, <2>5, <3>2, <3>3, SubSeqProperties
    <3>5. 1 \in 1 .. (5 - 3 + 1) /\ 2 \in 1 .. (5 - 3 + 1) /\ 3 \in 1 .. (5 - 3 + 1)
          /\ 3 + 1 - 1 = 3 /\ 3 + 2 - 1 = 4 /\ 3 + 3 - 1 = 5 /\ 5 - 3 + 1 = 3
      OBVIOUS
    <3> QED
      BY <3>4, <3>5
  <2>7. PICK s \in Seq(Cells) : s = Stream("B")
    BY <1>1, <1>3, StreamOf
  <2>8. Len(s) >= 5 /\ s[1] = b[1] /\ s[3] = b[3] /\ s[4] = b[4] /\ s[5] = b[5]
    <3>1. Len(s) = Len(b) + Len(wire["B"]) /\ Len(wire["B"]) \in Nat /\ Len(b) \in Nat
          /\ \A i \in 1 .. Len(b) : s[i] = b[i]
      BY <1>1, <1>3, <2>5, <2>7, StreamOf
    <3>2. Len(b) >= 5
      BY <2>4, <2>5
    <3> QED
      BY <3>1, <3>2
  <2>9. /\ b[1].what = "req1"
        /\ RequestsWhole(s, Dropped, offer.provide) /\ AtMostOne(s)
    BY <1>1, <1>2, <2>5, <2>7 DEF ModeB, Late
  <2>10. s[3].key = Dropped + 1 /\ s[4].key = Dropped + 2 /\ s[4].v = offer.provide
    <3>1. 1 \in 1 .. Len(s) /\ s[1].what = "req1" /\ 1 + 2 = 3 /\ 1 + 3 = 4
      BY <2>8, <2>9
    <3> QED
      BY <2>9, <3>1 DEF RequestsWhole
  <2>11. Dropped \in Nat /\ offer.provide \in 1 .. 3 /\ Skip \in Nat
    BY <1>1, OfferOf DEF MseAssumption
  <2>12. start = Dropped
    BY <2>2, <2>6, <2>8, <2>10, <2>11 DEF Dropped
  <2>13. /\ \A i \in 1 .. 3 :
              IF secret[i].key = Dropped + i THEN head[i].v = secret[i].v ELSE TRUE
         /\ head[2] \in Cells /\ head[3] \in Cells
    <3>1. Dropped \in Nat /\ secret \in Seq(Cells)
      BY <2>6, <2>11
    <3>2. /\ Decrypt(secret, Dropped) \in Seq(Cells)
          /\ Len(Decrypt(secret, Dropped)) = Len(secret)
          /\ \A i \in 1 .. Len(secret) :
               IF secret[i].key = Dropped + i
               THEN Decrypt(secret, Dropped)[i].v = secret[i].v
               ELSE TRUE
      BY <3>1, DecryptOf
    <3>3. head = Decrypt(secret, Dropped)
      BY <2>3, <2>12
    <3>4. head \in Seq(Cells) /\ Len(head) = 3
      BY <2>6, <3>2, <3>3
    <3>5. head[2] \in Cells /\ head[3] \in Cells
      <4>1. head \in Seq(Cells) /\ 2 \in 1 .. Len(head) /\ 3 \in 1 .. Len(head)
        BY <3>4
      <4> QED
        BY <4>1, ElementOfSeq
    <3> QED
      BY <2>6, <3>2, <3>3, <3>5
  <2>14. head[2].v = offer.provide
    <3>1. secret[2].key = Dropped + 2 /\ 2 \in 1 .. 3
      BY <2>6, <2>8, <2>10
    <3> QED
      BY <2>6, <2>8, <2>10, <2>13, <3>1
  <2>15. full'["B"] = Full /\ full'["A"] = full["A"] /\ full' \in [Ends -> BOOLEAN]
    <3>1. (head[2].v \in {2, 3}) = Full
      BY <2>11, <2>14 DEF Full
    <3>2. full' = [full EXCEPT !["B"] = Full]
      BY <2>4, <3>1
    <3> QED
      BY <1>1, <1>3, <3>2 DEF MseTypeOK, Full
  <2>16. 5 \in 0 .. Len(buf["B"])
    BY <2>4, <2>5, LenProperties
  <2>17. /\ buf' \in [Ends -> Seq(Cells)] /\ buf'["A"] = buf["A"]
         /\ 5 \in 0 .. Len(Stream("B")) /\ Stream("B")' = Behind(Stream("B"), 5)
    BY <1>1, <1>2, <1>3, <2>4, <2>16, EatOf
  <2>18. /\ state'["B"] = "wait_pad_c" /\ state'["A"] = state["A"]
         /\ dec'["A"] = dec["A"]
    BY <1>1, <1>3, <2>4 DEF MseTypeOK
  <2>19. /\ padLen' \in [Ends -> 0 .. PadMax] /\ enc' \in [Ends -> Nat]
         /\ dec' \in [Ends -> Nat] /\ state' \in [Ends -> States]
    <3>1. head[3].v \in 0 .. PadMax
      BY <2>4, <2>13 DEF Cells, MseAssumption
    <3>2. start \in Nat /\ start + 3 \in Nat
      BY <2>11, <2>12
    <3> QED
      BY <1>1, <2>4, <3>1, <3>2 DEF MseTypeOK, States
  <2>20. MseTypeOK'
    BY <1>1, <1>2, <2>4, <2>15, <2>17, <2>19 DEF MseTypeOK
  <2>21. ModeB'
    <3>1. AtMostOne(Stream("B")')
      BY <2>7, <2>9, <2>17, Cuts
    <3>2. Full' = Full
      BY <1>2 DEF Full
    <3> QED
      BY <2>15, <2>18, <3>1, <3>2 DEF ModeB, Early
  <2>22. ModeA'
    <3>1. Stream("A")' = Stream("A")
      BY <1>2, <2>17 DEF Stream
    <3> QED
      BY <1>1, <1>2, <2>15, <2>17, <2>18, <3>1, KeepsSame, ModeAFrame DEF Late
  <2>23. Settled'
    BY <1>1, <1>2, <2>4, <2>18 DEF Settled, Over
  <2> QED
    BY <2>20, <2>21, <2>22, <2>23 DEF ModeInv
<1> QED
  BY <1>4, <1>5

LEMMA AnswerWhole ==
  ASSUME MseTypeOK, NEW n \in Nat, NEW k \in Nat
  PROVE  /\ Encrypt(SecretB(n), k) \in Seq(Cells)
         /\ AnswersWhole(Encrypt(SecretB(n), k), Selected)
<1>1. PICK a : a = Encrypt(SecretB(n), k)
  OBVIOUS
<1>2. /\ a \in Seq(Cells) /\ Len(a) = n + 3
      /\ a[2].what = "select" /\ a[2].v = Selected /\ a[3].what = "len"
      /\ \A i \in 4 .. (n + 3) : a[i].what = "pad"
      /\ \A i \in 1 .. (n + 3) : a[i].key = k + i
  <2>1. /\ Encrypt(SecretB(n), k) \in Seq(Cells) /\ Len(Encrypt(SecretB(n), k)) = n + 3
        /\ Encrypt(SecretB(n), k)[2].what = "select" /\ Encrypt(SecretB(n), k)[2].v = Selected
        /\ Encrypt(SecretB(n), k)[3].what = "len"
        /\ \A i \in 4 .. (n + 3) : Encrypt(SecretB(n), k)[i].what = "pad"
        /\ \A i \in 1 .. (n + 3) : Encrypt(SecretB(n), k)[i].key = k + i
    BY AnswerOf
  <2> HIDE DEF SecretB
  <2> QED
    BY <1>1, <2>1
<1>3. ASSUME NEW i \in 1 .. Len(a), a[i].what = "vc"
      PROVE  i + 2 <= Len(a) /\ a[i + 1].key = a[i].key + 1 /\ a[i + 1].v = Selected
  <2>1. i \in 1 .. n + 3
    BY <1>2
  <2>2. i = 1 \/ i = 2 \/ i = 3 \/ i \in 4 .. n + 3
    BY <2>1
  <2>3. i = 1
    BY <1>2, <1>3, <2>2
  <2>4. 1 \in 1 .. n + 3 /\ 2 \in 1 .. n + 3 /\ 1 + 2 <= n + 3
    OBVIOUS
  <2>5. a[1].key = k + 1 /\ a[2].key = k + 2
    BY <1>2, <2>4
  <2> QED
    BY <1>2, <2>3, <2>4, <2>5
<1> QED
  BY <1>1, <1>2, <1>3 DEF AnswersWhole

LEMMA AfterWaitPadCModes ==
  ASSUME MseAssumption, ModeInv, AfterWaitPadC
  PROVE  ModeInv'
<1>1. MseTypeOK /\ ModeA /\ ModeB /\ Settled
  BY DEF ModeInv
<1>2. /\ state["B"] = "wait_pad_c"
      /\ UNCHANGED <<full, padLen, got, sentShake, offer, nineteen, messages, keepAlives>>
  BY DEF AfterWaitPadC, At, Fixed
<1>3. "A" \in Ends /\ "B" \in Ends /\ Other("B") = "A"
  BY OtherEnd DEF Ends
<1>4. PICK size \in Nat : size = padLen["B"] + 1
  BY <1>1, <1>3 DEF MseTypeOK
<1>5. CASE Len(buf["B"]) < size
  <2>1. /\ busy' = [busy EXCEPT !["B"] = FALSE]
        /\ UNCHANGED <<state, buf, wire, enc, dec, iaLen, link>>
    BY <1>4, <1>5 DEF AfterWaitPadC, Return
  <2>2. MseTypeOK'
    BY <1>1, <1>2, <2>1 DEF MseTypeOK
  <2>3. \A o \in Ends : Stream(o)' = Stream(o)
    BY <2>1 DEF Stream
  <2>4. \A o \in Ends : Keeps(Stream(o), Stream(o)')
    BY <2>3, KeepsSame
  <2>5. ModeA' /\ ModeB'
    BY <1>1, <1>2, <2>1, <2>4, ModesFrame
  <2>6. Settled'
    BY <1>1, <1>2, <1>3, <2>1 DEF Settled, Over, MseTypeOK
  <2> QED
    BY <2>2, <2>5, <2>6 DEF ModeInv
<1>6. CASE ~(Len(buf["B"]) < size)
  <2>1. PICK tail : tail = Decrypt(Before(buf["B"], size), dec["B"])
    OBVIOUS
  <2>2. /\ dec' = [dec EXCEPT !["B"] = @ + size]
        /\ Eat("B", size)
        /\ IF tail[size].what # "ialen"
           THEN /\ link' = [link EXCEPT !["B"] = "protocol"]
                /\ busy' = [busy EXCEPT !["B"] = FALSE]
                /\ UNCHANGED <<state, wire, enc, iaLen>>
           ELSE /\ iaLen' = tail[size].v
                /\ \E k \in Pads : Answer(k)
                /\ state' = [state EXCEPT !["B"] = "wait_ia"]
                /\ UNCHANGED <<busy, link>>
    BY <1>4, <1>6, <2>1 DEF AfterWaitPadC, Become, Return, Close
  <2>3. size \in 0 .. Len(buf["B"])
    BY <1>1, <1>3, <1>6, StreamOf
  <2>4. dec' \in [Ends -> Nat] /\ dec'["A"] = dec["A"]
    <3>1. PICK n \in Nat : n = dec["B"]
      BY <1>1, <1>3 DEF MseTypeOK
    <3>2. dec' = [dec EXCEPT !["B"] = n + size] /\ n + size \in Nat
      BY <2>2, <3>1
    <3> QED
      BY <1>1, <1>3, <3>2 DEF MseTypeOK
  <2>5. Dropped' = Dropped /\ Full' = Full /\ Selected' = Selected
    BY <1>2 DEF Dropped, Full, Selected
  <2>6. CASE tail[size].what # "ialen"
    <3>1. wire'["B"] = wire["B"]
      BY <2>2, <2>6
    <3>2. /\ buf' \in [Ends -> Seq(Cells)] /\ buf'["A"] = buf["A"]
          /\ size \in 0 .. Len(Stream("B")) /\ Stream("B")' = Behind(Stream("B"), size)
      BY <1>1, <1>3, <2>2, <2>3, <3>1, EatOf
    <3>3. MseTypeOK'
      BY <1>1, <1>2, <2>2, <2>4, <2>6, <3>2 DEF MseTypeOK
    <3>4. Keeps(Stream("B"), Stream("B")')
      BY <1>1, <1>3, <3>2, StreamOf, KeepsBehind
    <3>5. Stream("A")' = Stream("A")
      BY <2>2, <2>6, <3>2 DEF Stream
    <3>6. ModeA'
      BY <1>1, <1>2, <2>2, <2>4, <2>6, <3>2, <3>5, KeepsSame, ModeAFrame
    <3>7. ModeB'
      BY <1>1, <1>2, <2>2, <2>5, <2>6, <3>4 DEF ModeB, Keeps, Early
    <3>8. Settled'
      BY <1>1, <1>2, <1>3, <2>2, <2>6 DEF Settled, Over, MseTypeOK
    <3> QED
      BY <3>3, <3>6, <3>7, <3>8 DEF ModeInv
  <2>7. CASE tail[size].what = "ialen"
    <3>1. PICK k \in Nat : /\ Put("B", Encrypt(SecretB(k), enc["B"]))
                           /\ enc' = [enc EXCEPT !["B"] = @ + Len(SecretB(k))]
      <4>1. PICK k \in Pads : Answer(k)
        BY <2>2, <2>7
      <4>2. k \in Nat
        BY DEF MseAssumption
      <4> QED
        BY <4>1, <4>2 DEF Answer, SecretB, Selected
    <3>2. enc["B"] \in Nat
      BY <1>1, <1>3 DEF MseTypeOK
    <3>3. PICK a \in Seq(Cells) : a = Encrypt(SecretB(k), enc["B"]) /\ AnswersWhole(a, Selected)
      BY <1>1, <3>2, AnswerWhole
    <3>4. /\ wire' \in [Ends -> Seq(Cells)] /\ wire'["B"] = wire["B"]
          /\ wire'["A"] = wire["A"] \o a
      <4>1. Put("B", a)
        BY <3>1, <3>3
      <4> QED
        BY <1>1, <1>3, <4>1, PutOf
    <3>5. /\ buf' \in [Ends -> Seq(Cells)] /\ buf'["A"] = buf["A"]
          /\ size \in 0 .. Len(Stream("B")) /\ Stream("B")' = Behind(Stream("B"), size)
      BY <1>1, <1>3, <2>2, <2>3, <3>4, EatOf
    <3>6. state'["B"] = "wait_ia" /\ state'["A"] = state["A"]
      BY <1>1, <1>3, <2>2, <2>7 DEF MseTypeOK
    <3>7. enc' \in [Ends -> Nat]
      <4>1. Len(SecretB(k)) \in Nat
        BY <1>1, <3>2, AnswerOf
      <4>2. PICK q \in Nat : q = enc["B"] + Len(SecretB(k))
        BY <3>2, <4>1
      <4> QED
        BY <1>1, <3>1, <4>2 DEF MseTypeOK
    <3>8. iaLen' \in 0 .. 1
      <4>1. PICK b \in Seq(Cells), n \in Nat : b = buf["B"] /\ n = dec["B"]
        BY <1>1, <1>3 DEF MseTypeOK
      <4>2. size <= Len(b) /\ size \in 1 .. size
        BY <1>1, <1>3, <1>4, <2>3, <4>1 DEF MseTypeOK
      <4>3. /\ tail[size] \in Cells
            /\ IF b[size].key = n + size
               THEN tail[size].what = b[size].what /\ tail[size].v = b[size].v
               ELSE tail[size] = Plain("junk")
        <5>1. /\ Decrypt(Before(b, size), n)[size] \in Cells
              /\ IF b[size].key = n + size
                 THEN /\ Decrypt(Before(b, size), n)[size].what = b[size].what
                      /\ Decrypt(Before(b, size), n)[size].v = b[size].v
                      /\ Decrypt(Before(b, size), n)[size].key = 0
                 ELSE Decrypt(Before(b, size), n)[size] = Plain("junk")
          BY <4>2, HeadCells
        <5> QED
          BY <2>1, <4>1, <5>1
      <4>4. b[size].what = "ialen" /\ tail[size].v = b[size].v
        BY <2>7, <4>3 DEF Plain, Value
      <4>5. AtMostOne(Stream("B"))
        BY <1>1, <1>2 DEF ModeB, Late
      <4>6. size \in 1 .. Len(Stream("B")) /\ Stream("B")[size] = b[size]
        <5>1. /\ Len(Stream("B")) = Len(b) + Len(wire["B"])
              /\ Len(wire["B"]) \in Nat /\ Len(b) \in Nat
              /\ \A i \in 1 .. Len(b) : Stream("B")[i] = b[i]
          BY <1>1, <1>3, <4>1, StreamOf
        <5>2. size \in 1 .. Len(b)
          BY <4>2, <5>1
        <5> QED
          BY <5>1, <5>2
      <4>7. b[size].v <= 1
        BY <4>4, <4>5, <4>6 DEF AtMostOne
      <4>8. tail[size].v \in Nat
        BY <4>3 DEF Cells
      <4> QED
        BY <2>2, <2>7, <4>4, <4>7, <4>8
    <3>9. state' \in [Ends -> States]
      BY <1>1, <2>2, <2>7 DEF MseTypeOK, States
    <3>10. MseTypeOK'
      BY <1>1, <1>2, <2>2, <2>4, <2>7, <3>4, <3>5, <3>7, <3>8, <3>9 DEF MseTypeOK
    <3>11. ModeB'
      BY <1>1, <1>2, <2>5, <3>6 DEF ModeB, Early, Late
    <3>12. ModeA'
      <4>1. Stream("A") \in Seq(Cells) /\ Stream("A")' = Stream("A") \o a
        BY <1>1, <1>3, <3>4, <3>5, PutStream, StreamOf
      <4>2. state["A"] \in Early \cup {"got_pub", "found_vc"} => NoAnswer(Stream("A"))
        BY <1>1, <1>2 DEF ModeA, Late
      <4>3. NoAnswer(Stream("A")) => AnswersWhole(Stream("A"), Selected)
        BY DEF NoAnswer, AnswersWhole
      <4>4. state["A"] \in Early \cup {"got_pub", "found_vc"} =>
              AnswersWhole(Stream("A")', Selected)
        BY <3>3, <4>1, <4>2, <4>3, Joins
      <4> QED
        BY <1>1, <1>2, <2>4, <2>5, <3>5, <3>6, <4>4 DEF ModeA, Late
    <3>13. Settled'
      BY <1>1, <1>2, <3>6 DEF Settled, Over
    <3> QED
      BY <3>10, <3>11, <3>12, <3>13 DEF ModeInv
  <2> QED
    BY <2>6, <2>7
<1> QED
  BY <1>5, <1>6

LEMMA AfterWaitIAModes ==
  ASSUME MseAssumption, ModeInv, AfterWaitIA
  PROVE  ModeInv'
<1>1. MseTypeOK /\ ModeA /\ ModeB /\ Settled
  BY DEF ModeInv
<1>2. /\ state["B"] = "wait_ia"
      /\ UNCHANGED <<wire, enc, full, padLen, iaLen, got, sentShake, link,
                     offer, nineteen, messages, keepAlives>>
  BY DEF AfterWaitIA, At, Fixed
<1>3. "A" \in Ends /\ "B" \in Ends /\ Other("B") = "A"
  BY OtherEnd DEF Ends
<1>4. /\ buf' \in [Ends -> Seq(Cells)] /\ dec' \in [Ends -> Nat]
      /\ state' \in [Ends -> States] /\ busy' \in [Ends -> BOOLEAN]
      /\ buf'["A"] = buf["A"] /\ dec'["A"] = dec["A"] /\ state'["A"] = state["A"]
      /\ state'["B"] \in {"wait_ia", "finish"}
  <2>1. CASE iaLen = 0 /\ Become("B", "finish") /\ Return("B") /\ UNCHANGED <<buf, dec>>
    BY <1>1, <1>3, <2>1 DEF MseTypeOK, Become, Return, States
  <2>2. CASE Return("B") /\ UNCHANGED <<state, buf, dec>>
    BY <1>1, <1>2, <1>3, <2>2 DEF MseTypeOK, Return
  <2>3. CASE Finish("B", 0)
    <3>1. 0 \in Nat /\ 0 <= Len(buf["B"])
      BY <1>1, <1>3, StreamOf
    <3> QED
      BY <1>1, <1>3, <2>3, <3>1, FinishOf
  <2>4. CASE /\ Len(buf["B"]) >= iaLen
             /\ Become("B", "finish")
             /\ buf' = [buf EXCEPT !["B"] = Decrypt(Before(@, iaLen), dec["B"]) \o Behind(@, iaLen)]
             /\ dec' = [dec EXCEPT !["B"] = @ + iaLen]
             /\ busy' = busy
    <3>1. PICK b \in Seq(Cells), n \in Nat, m \in Nat : b = buf["B"] /\ n = dec["B"] /\ m = iaLen
      BY <1>1, <1>3 DEF MseTypeOK
    <3>2. m <= Len(b) /\ m \in 0 .. Len(b)
      BY <2>4, <3>1, LenProperties
    <3>3. PICK x, y : x = Decrypt(Before(b, m), n) /\ y = Behind(b, m)
      OBVIOUS
    <3>4. x \in Seq(Cells) /\ y \in Seq(Cells)
      BY <3>2, <3>3, HeadCells, BehindOf
    <3>5. x \o y \in Seq(Cells)
      BY <3>4, JoinOf
    <3>6. buf' = [buf EXCEPT !["B"] = x \o y] /\ dec' = [dec EXCEPT !["B"] = n + m]
      BY <1>1, <1>3, <2>4, <3>1, <3>3 DEF MseTypeOK
    <3>7. n + m \in Nat
      OBVIOUS
    <3>8. buf' \in [Ends -> Seq(Cells)] /\ buf'["A"] = buf["A"]
      BY <1>1, <1>3, <3>5, <3>6 DEF MseTypeOK
    <3>9. dec' \in [Ends -> Nat] /\ dec'["A"] = dec["A"]
      BY <1>1, <1>3, <3>6, <3>7 DEF MseTypeOK
    <3>10. /\ state' \in [Ends -> States] /\ state'["A"] = state["A"] /\ state'["B"] = "finish"
           /\ busy' \in [Ends -> BOOLEAN]
      BY <1>1, <1>3, <2>4 DEF MseTypeOK, Become, States
    <3> QED
      BY <3>8, <3>9, <3>10
  <2> QED
    BY <2>1, <2>2, <2>3, <2>4 DEF AfterWaitIA
<1>5. MseTypeOK'
  BY <1>1, <1>2, <1>4 DEF MseTypeOK
<1>6. Stream("A")' = Stream("A")
  BY <1>2, <1>4 DEF Stream
<1>7. ModeA'
  BY <1>1, <1>2, <1>4, <1>6, KeepsSame, ModeAFrame DEF Late
<1>8. ModeB'
  BY <1>1, <1>2, <1>4 DEF ModeB, Early, Late, Full
<1>9. Settled'
  BY <1>1, <1>2, <1>4 DEF Settled, Over
<1> QED
  BY <1>5, <1>7, <1>8, <1>9 DEF ModeInv

\* An end that reads messages.
LEMMA ReadyOf ==
  ASSUME Settled, NEW e \in Ends, Ready(e)
  PROVE  /\ state[e] \in {"new", "finish"} /\ (e = "A" => Over("A"))
         /\ busy[e] /\ link[e] = "open"
         /\ e = "B" => got["B"] \/ state["B"] = "finish"
BY DEF Settled, Ready, Over, Ends

LEMMA ReplyOf ==
  ASSUME MseTypeOK, NEW e \in Ends, Reply(e) \/ UNCHANGED Talk, buf'[Other(e)] = buf[Other(e)]
  PROVE  /\ wire' \in [Ends -> Seq(Cells)] /\ wire'[e] = wire[e]
         /\ enc' \in [Ends -> Nat] /\ sentShake' \in [Ends -> BOOLEAN]
         /\ Keeps(Stream(Other(e)), Stream(Other(e))')
<1>1. CASE UNCHANGED Talk
  <2>1. Stream(Other(e))' = Stream(Other(e))
    BY <1>1 DEF Stream, Talk
  <2> QED
    BY <1>1, <2>1, KeepsSame DEF MseTypeOK, Talk
<1>2. CASE ~UNCHANGED Talk
  <2>1. SendData(e, <<Plain("shake")>>) /\ sentShake' = [sentShake EXCEPT ![e] = TRUE]
    BY <1>2 DEF Reply, SendHandshake
  <2>2. wire' \in [Ends -> Seq(Cells)] /\ wire'[e] = wire[e] /\ enc' \in [Ends -> Nat]
    BY <2>1, SentOf, SaidCells
  <2>3. Keeps(Stream(Other(e)), Stream(Other(e))')
    BY <2>1, SaysKeeps, SaidCells
  <2> QED
    BY <2>1, <2>2, <2>3 DEF MseTypeOK
<1> QED
  BY <1>1, <1>2

LEMMA CheckHandshakeModes ==
  ASSUME ModeInv, NEW e \in Ends, CheckHandshake(e)
  PROVE  ModeInv'
<1>1. MseTypeOK /\ ModeA /\ ModeB /\ Settled
  BY DEF ModeInv
<1>2. /\ Ready(e) /\ ~got[e] /\ buf[e] # <<>> /\ Eat(e, 1)
      /\ UNCHANGED <<state, dec, full, padLen, iaLen, offer, nineteen, messages, keepAlives>>
      /\ Reply(e) \/ UNCHANGED Talk
  BY DEF CheckHandshake, Fixed
<1>3. \/ got' = [got EXCEPT ![e] = TRUE] /\ UNCHANGED <<busy, link>>
      \/ link' = [link EXCEPT ![e] = "protocol"] /\ busy' = [busy EXCEPT ![e] = FALSE] /\ got' = got
  BY DEF CheckHandshake, Close, Return
<1>4. buf'[Other(e)] = buf[Other(e)]
  BY <1>1, <1>2, OtherEnd DEF Eat, MseTypeOK
<1>5. /\ wire' \in [Ends -> Seq(Cells)] /\ wire'[e] = wire[e]
      /\ enc' \in [Ends -> Nat] /\ sentShake' \in [Ends -> BOOLEAN]
      /\ Keeps(Stream(Other(e)), Stream(Other(e))')
  BY <1>1, <1>2, <1>4, ReplyOf
<1>6. 1 \in 0 .. Len(buf[e])
  <2>1. buf[e] \in Seq(Cells)
    BY <1>1, StreamOf
  <2> QED
    BY <1>2, <2>1, EmptySeq, LenProperties
<1>7. /\ buf' \in [Ends -> Seq(Cells)]
      /\ 1 \in 0 .. Len(Stream(e)) /\ Stream(e)' = Behind(Stream(e), 1)
  BY <1>1, <1>2, <1>5, <1>6, EatOf
<1>8. MseTypeOK'
  <2>1. /\ got' \in [Ends -> BOOLEAN] /\ busy' \in [Ends -> BOOLEAN]
        /\ link' \in [Ends -> {"open", "refused", "protocol", "ended"}]
    BY <1>1, <1>3 DEF MseTypeOK
  <2> QED
    BY <1>1, <1>2, <1>5, <1>7, <2>1 DEF MseTypeOK
<1>9. Keeps(Stream(e), Stream(e)')
  BY <1>1, <1>7, StreamOf, KeepsBehind
<1>10. state[e] \in {"new", "finish"}
  BY <1>1, <1>2, ReadyOf
<1>11. ASSUME NEW o \in Ends, state[o] # "finish"
       PROVE  /\ Keeps(Stream(o), Stream(o)')
              /\ dec'[o] = dec[o]
              /\ state[o] # "new" /\ buf[o] # <<>> => buf'[o] # <<>> /\ buf'[o][1] = buf[o][1]
  <2>1. o = e \/ o = Other(e)
    BY DEF Ends, Other
  <2>2. CASE o = e
    BY <1>2, <1>9, <1>10, <1>11, <2>2
  <2>3. CASE o = Other(e)
    BY <1>2, <1>4, <1>5, <2>3
  <2> QED
    BY <2>1, <2>2, <2>3
<1>12. ModeA' /\ ModeB'
  BY <1>1, <1>2, <1>11, ModesFrame
<1>13. Settled'
  <2>1. CASE e = "A"
    <3>1. got'["B"] = got["B"] /\ busy'["B"] = busy["B"] /\ buf'["B"] = buf["B"]
      BY <1>1, <1>3, <1>4, <2>1, OtherEnd DEF MseTypeOK, Ends
    <3>2. Over("A")'
      BY <1>1, <1>2, <2>1, ReadyOf DEF Over
    <3> QED
      BY <1>1, <1>2, <3>1, <3>2 DEF Settled
  <2>2. CASE e = "B"
    <3>1. got'["A"] = got["A"]
      BY <1>1, <1>3, <2>2 DEF MseTypeOK, Ends
    <3>2. state["B"] = "finish"
      BY <1>1, <1>2, <2>2, ReadyOf
    <3> QED
      BY <1>1, <1>2, <3>1, <3>2 DEF Settled, Over
  <2> QED
    BY <2>1, <2>2 DEF Ends
<1> QED
  BY <1>8, <1>12, <1>13 DEF ModeInv

LEMMA MessagesOf ==
  ASSUME MseTypeOK, NEW e \in Ends, Messages(e)
  PROVE  /\ buf' \in [Ends -> Seq(Cells)] /\ buf'[e] = <<>> /\ buf'[Other(e)] = buf[Other(e)]
         /\ busy' \in [Ends -> BOOLEAN] /\ busy'[e] = FALSE /\ busy'[Other(e)] = busy[Other(e)]
         /\ \/ link' = link
            \/ /\ link' = [link EXCEPT ![e] = "protocol"]
               /\ ~\A k \in DOMAIN buf[e] : buf[e][k].what = "msg" /\ buf[e][k].key = 0
         /\ UNCHANGED <<wire, state, enc, dec, full, padLen, iaLen, got, sentShake,
                        offer, nineteen, messages, keepAlives>>
<1>1. /\ buf' = [buf EXCEPT ![e] = <<>>] /\ busy' = [busy EXCEPT ![e] = FALSE]
      /\ UNCHANGED <<wire, state, enc, dec, full, padLen, iaLen, got, sentShake,
                     offer, nineteen, messages, keepAlives>>
      /\ \/ link' = link
         \/ /\ link' = [link EXCEPT ![e] = "protocol"]
            /\ ~\A k \in DOMAIN buf[e] : buf[e][k].what = "msg" /\ buf[e][k].key = 0
  BY DEF Messages, Return, Fixed, Close
<1>2. <<>> \in Seq(Cells)
  OBVIOUS
<1>3. buf' \in [Ends -> Seq(Cells)] /\ buf'[e] = <<>> /\ buf'[Other(e)] = buf[Other(e)]
  BY <1>1, <1>2, OtherEnd DEF MseTypeOK
<1>4. busy' \in [Ends -> BOOLEAN] /\ busy'[e] = FALSE /\ busy'[Other(e)] = busy[Other(e)]
  BY <1>1, OtherEnd DEF MseTypeOK
<1> QED
  BY <1>1, <1>3, <1>4

LEMMA MessagesModes ==
  ASSUME ModeInv, NEW e \in Ends, Messages(e)
  PROVE  ModeInv'
<1>1. MseTypeOK /\ ModeA /\ ModeB /\ Settled
  BY DEF ModeInv
<1>2. /\ buf' \in [Ends -> Seq(Cells)] /\ buf'[e] = <<>> /\ buf'[Other(e)] = buf[Other(e)]
      /\ busy' \in [Ends -> BOOLEAN] /\ busy'[e] = FALSE /\ busy'[Other(e)] = busy[Other(e)]
      /\ link' = link \/ link' = [link EXCEPT ![e] = "protocol"]
      /\ UNCHANGED <<wire, state, enc, dec, full, padLen, iaLen, got, sentShake,
                     offer, nineteen, messages, keepAlives>>
  BY <1>1, MessagesOf
<1>3. MseTypeOK'
  BY <1>1, <1>2 DEF MseTypeOK
<1>4. state[e] \in {"new", "finish"}
  BY <1>1, ReadyOf DEF Messages
<1>5. Keeps(Stream(e), Stream(e)')
  <2>1. PICK b \in Seq(Cells), w \in Seq(Cells) : b = buf[e] /\ w = wire[e]
    BY <1>1 DEF MseTypeOK
  <2>2. <<>> \o w = w
    BY ConcatEmptySeq
  <2>3. Stream(e)' = Behind(b \o w, Len(b))
    BY <1>2, <2>1, <2>2, BehindJoin DEF Stream
  <2>4. b \o w \in Seq(Cells) /\ Len(b) \in 0 .. Len(b \o w)
    <3>1. b \o w \in Seq(Cells) /\ Len(b \o w) = Len(b) + Len(w) /\ Len(b) \in Nat /\ Len(w) \in Nat
      BY JoinOf
    <3> QED
      BY <3>1
  <2>5. Keeps(b \o w, Behind(b \o w, Len(b)))
    BY <2>4, KeepsBehind
  <2> QED
    BY <2>1, <2>3, <2>5 DEF Stream
<1>6. ASSUME NEW o \in Ends, state[o] # "finish"
      PROVE  /\ Keeps(Stream(o), Stream(o)')
             /\ dec'[o] = dec[o]
             /\ state[o] # "new" /\ buf[o] # <<>> => buf'[o] # <<>> /\ buf'[o][1] = buf[o][1]
  <2>1. o = e \/ o = Other(e)
    BY DEF Ends, Other
  <2>2. CASE o = e
    BY <1>2, <1>4, <1>5, <1>6, <2>2
  <2>3. CASE o = Other(e)
    <3>1. Stream(o)' = Stream(o)
      BY <1>2, <2>3 DEF Stream
    <3> QED
      BY <1>2, <2>3, <3>1, KeepsSame
  <2> QED
    BY <2>1, <2>2, <2>3
<1>7. ModeA' /\ ModeB'
  BY <1>1, <1>2, <1>6, ModesFrame
<1>8. Settled'
  <2>1. CASE e = "A"
    BY <1>1, <1>2, <2>1, OtherEnd DEF Settled, Over
  <2>2. CASE e = "B"
    BY <1>1, <1>2, <2>2 DEF Settled, Over
  <2> QED
    BY <2>1, <2>2 DEF Ends
<1> QED
  BY <1>3, <1>7, <1>8 DEF ModeInv

\* A step that only says something.
LEMMA SaysModes ==
  ASSUME ModeInv, NEW e \in Ends, NEW z \in Cells, z.key = 0, z.what \in {"shake", "msg"},
         SendData(e, <<z>>), MseTypeOK',
         UNCHANGED <<offer, buf, busy, state, dec, full, got>>
  PROVE  ModeInv'
<1>1. MseTypeOK /\ ModeA /\ ModeB /\ Settled
  BY DEF ModeInv
<1>2. wire'[e] = wire[e]
  BY <1>1, SentOf
<1>3. Keeps(Stream(Other(e)), Stream(Other(e))')
  BY <1>1, SaysKeeps
<1>4. Keeps(Stream(e), Stream(e)')
  BY <1>2, KeepsSame DEF Stream
<1>5. \A o \in Ends : o = e \/ o = Other(e)
  BY DEF Ends, Other
<1>6. \A o \in Ends : Keeps(Stream(o), Stream(o)')
  BY <1>3, <1>4, <1>5
<1>7. ModeA' /\ ModeB'
  BY <1>1, <1>6, ModesFrame
<1>8. Settled'
  BY <1>1 DEF Settled, Over
<1> QED
  BY <1>7, <1>8 DEF ModeInv

LEMMA LateHandshakeModes ==
  ASSUME ModeInv, LateHandshake
  PROVE  ModeInv'
<1>1. /\ SendData("A", <<Plain("shake")>>) /\ sentShake' = [sentShake EXCEPT !["A"] = TRUE]
      /\ UNCHANGED <<buf, busy, state, dec, full, padLen, iaLen, got, link,
                     offer, nineteen, messages, keepAlives>>
  BY DEF LateHandshake, SendHandshake, Fixed
<1>2. MseTypeOK /\ "A" \in Ends
  BY DEF ModeInv, Ends
<1>3. wire' \in [Ends -> Seq(Cells)] /\ enc' \in [Ends -> Nat]
  BY <1>1, <1>2, SentOf, SaidCells
<1>4. MseTypeOK'
  BY <1>1, <1>2, <1>3 DEF MseTypeOK
<1> QED
  BY <1>1, <1>2, <1>4, SaysModes, SaidCells

LEMMA SayModes ==
  ASSUME MseAssumption, ModeInv, NEW e \in Ends, Say(e)
  PROVE  ModeInv'
<1>1. /\ SendData(e, <<Plain("msg")>>) /\ messages[e] < MaxMessages
      /\ messages' = [messages EXCEPT ![e] = @ + 1]
      /\ UNCHANGED <<offer, nineteen, buf, busy, state, dec, full, padLen, iaLen,
                     got, sentShake, link, keepAlives>>
  BY DEF Say
<1>2. MseTypeOK
  BY DEF ModeInv
<1>3. wire' \in [Ends -> Seq(Cells)] /\ enc' \in [Ends -> Nat]
  BY <1>1, <1>2, SentOf, SaidCells
<1>4. messages' \in [Ends -> 0 .. MaxMessages]
  <2>1. messages[e] + 1 \in 0 .. MaxMessages
    BY <1>1, <1>2 DEF MseTypeOK, MseAssumption
  <2>2. messages' = [messages EXCEPT ![e] = messages[e] + 1]
    BY <1>1
  <2> QED
    BY <1>2, <2>1, <2>2 DEF MseTypeOK
<1>5. MseTypeOK'
  BY <1>1, <1>2, <1>3, <1>4 DEF MseTypeOK
<1> QED
  BY <1>1, <1>5, SaysModes, SaidCells

LEMMA SendKeepAliveModes ==
  ASSUME MseAssumption, ModeInv, NEW e \in Ends, SendKeepAlive(e)
  PROVE  ModeInv' /\ ~Undisturbed'
<1>1. /\ SendData(e, <<Plain("msg")>>) /\ keepAlives < MaxKeepAlives
      /\ keepAlives' = keepAlives + 1
      /\ UNCHANGED <<offer, nineteen, buf, busy, state, dec, full, padLen, iaLen,
                     got, sentShake, link, messages>>
  BY DEF SendKeepAlive
<1>2. MseTypeOK
  BY DEF ModeInv
<1>3. wire' \in [Ends -> Seq(Cells)] /\ enc' \in [Ends -> Nat]
  BY <1>1, <1>2, SentOf, SaidCells
<1>4. keepAlives' \in 0 .. MaxKeepAlives /\ keepAlives' # 0
  BY <1>1, <1>2 DEF MseTypeOK, MseAssumption
<1>5. MseTypeOK'
  BY <1>1, <1>2, <1>3, <1>4 DEF MseTypeOK
<1>6. ModeInv'
  BY <1>1, <1>5, SaysModes, SaidCells
<1> QED
  BY <1>4, <1>6 DEF Undisturbed
-----------------------------------------------------------------------------
(* What a step does to the handshake that nothing spoils.                    *)

\* The stream toward B is as it was, and so is all that says how to read it.
LEMMA TowardBFrame ==
  ASSUME TowardB, offer' = offer, state'["B"] = state["B"], buf'["B"] = buf["B"],
         wire'["B"] = wire["B"], dec'["B"] = dec["B"], padLen'["B"] = padLen["B"],
         busy'["B"] = busy["B"] \/ state["B"] # "wait_ia" \/ Ia # 0,
         got'["B"] = got["B"], iaLen' = iaLen,
         enc'["A"] = enc["A"], sentShake'["A"] = sentShake["A"],
         state'["A"] = state["A"] \/ state'["A"] \notin {"new", "send_pub", "got_pub"}
  PROVE  TowardB'
  <1>1. Stream("B")' = Stream("B") /\ Ia' = Ia /\ Dropped' = Dropped /\ Over("B")' = Over("B")
    BY DEF Stream, Ia, Dropped, Over
  <1> HIDE DEF Stream, Ia, Dropped, Over
  <1>2. (state["B"] = "wait_ia" =>
        /\ iaLen = Ia
        /\ Ia = 0 => busy["B"] /\ buf["B"] = <<>>
        /\ Session(Stream("B"), 0, sentShake["A"], FALSE)
        /\ offer.ia => Stream("B")[1].key = dec["B"] + 1
        /\ SealedFrom(offer, Stream("B"), Ia, dec["B"] + Ia)
        /\ Sealed(offer) => enc["A"] = dec["B"] + Len(Stream("B")))'
    BY <1>1 DEF TowardB
  <1>3. (Over("B") => Talking(offer, buf["B"], wire["B"], dec["B"], enc["A"],
                              sentShake["A"], got["B"]))'
    BY <1>1 DEF TowardB
  <1>4. (state["B"] = "wait_pad_c" =>
        /\ RequestTail(Ia, Dropped, enc["A"], Stream("B"), padLen["B"])
        /\ dec["B"] = Dropped + 3)'
    BY <1>1 DEF TowardB
  <1> QED BY <1>1, <1>2, <1>3, <1>4 DEF TowardB

\* The same of the stream toward A; what B does not send yet does not count.
LEMMA TowardAFrame ==
  ASSUME TowardA, offer' = offer, buf'["A"] = buf["A"], wire'["A"] = wire["A"],
         dec'["A"] = dec["A"], padLen'["A"] = padLen["A"], got'["A"] = got["A"],
         sentShake'["B"] = sentShake["B"],
         \/ state'["A"] = state["A"]
         \/ state["A"] = "send_pub" /\ state'["A"] = "got_pub" /\ state'["B"] \notin Late
         \/ state'["A"] = "send_pub" /\ state'["B"] = "new",
         \/ state'["B"] = state["B"]
         \/ {state["B"], state'["B"]} \subseteq {"new", "init"}
         \/ {state["B"], state'["B"]} \subseteq {"send_pub", "found_req1", "wait_pad_c"}
         \/ {state["B"], state'["B"]} \subseteq Late,
         \/ enc'["B"] = enc["B"]
         \/ /\ state["A"] \notin {"found_vc", "wait_pad_d"} /\ ~Over("A")
            /\ state'["A"] = state["A"] /\ state'["B"] \notin Late
  PROVE  TowardA'
  <1>1. /\ Stream("A")' = Stream("A") /\ Dropped' = Dropped
        /\ Over("A")' => Over("A") /\ enc'["B"] = enc["B"]
    BY DEF Stream, Dropped, Over
  <1>2. /\ state'["A"] \in {"found_vc", "wait_pad_d"} =>
            state["A"] = state'["A"] /\ enc'["B"] = enc["B"]
        /\ state'["B"] \in Late => state["B"] \in Late
        /\ state'["A"] = "got_pub" /\ state'["B"] \in Late =>
            state["A"] = "got_pub" /\ enc'["B"] = enc["B"]
    BY DEF Late
  <1>a. (state["B"] \in {"new", "init"} /\ offer.crypt => Stream("A") = <<>>)'
    BY <1>1 DEF TowardA, Late
  <1>b. (state["A"] \in {"send_pub", "got_pub"}
          /\ state["B"] \in {"send_pub", "found_req1", "wait_pad_c"} =>
           Lead(Stream("A"), Len(Stream("A"))))'
    BY <1>1 DEF TowardA, Late
  <1>c. (state["A"] = "got_pub" /\ state["B"] \in Late =>
        \E j \in 2 .. PadMax + 1 :
            /\ Lead(Stream("A"), j)
            /\ Answered(offer, Dropped, enc["B"], sentShake["B"], Behind(Stream("A"), j)))'
    BY <1>1, <1>2 DEF TowardA, Late
  <1>d. (state["A"] = "found_vc" =>
        Answered(offer, Dropped, enc["B"], sentShake["B"], Stream("A")))'
    BY <1>1, <1>2 DEF TowardA
  <1>e. (state["A"] = "wait_pad_d" =>
        /\ AnswerTail(offer, Dropped, enc["B"], sentShake["B"], Stream("A"), padLen["A"])
        /\ dec["A"] = Dropped + 3)'
    BY <1>1, <1>2 DEF TowardA
  <1>f. (Over("A") =>
        Talking(offer, buf["A"], wire["A"], dec["A"], enc["B"], sentShake["B"], got["A"]))'
    BY <1>1 DEF TowardA
  <1> QED BY <1>a, <1>b, <1>c, <1>d, <1>e, <1>f DEF TowardA

\* Of an end that is over with the encryption nothing else is asked.
LEMMA TowardOver ==
  ASSUME InStep'
  PROVE  /\ Over("B")' /\ Talking(offer, buf["B"], wire["B"], dec["B"], enc["A"],
                                  sentShake["A"], got["B"])' => TowardB'
         /\ Over("A")' /\ Talking(offer, buf["A"], wire["A"], dec["A"], enc["B"],
                                  sentShake["B"], got["A"])' => TowardA'
  BY DEF TowardA, TowardB, InStep, Over, Early, Late

\* An end that is over with it encrypts exactly if the link is sealed.
LEMMA Seals ==
  ASSUME ModeInv, InStep, NEW e \in Ends, Over(e)
  PROVE  Ciphering(e) <=> Sealed(offer)
  <1>1. offer.crypt => state[e] = "finish" /\ full[e] = Full
    BY DEF ModeInv, ModeA, ModeB, Over, Ends, Late
  <1>2. ~offer.crypt => state[e] = "new"
    BY DEF InStep, Ends
  <1> QED BY <1>1, <1>2 DEF Ciphering, Sealed, Full
\* What the end that is over with it says next comes behind all it has said.
LEMMA OverSays ==
  ASSUME MseAssumption, ModeInv, InStep, ShakesSent, TowardA, TowardB, NEW e \in Ends, Over(e),
         NEW z \in Cells, z.key = 0, Speaks(z, sentShake[e]), SendData(e, <<z>>),
         offer' = offer, state' = state, sentShake'[e] = TRUE,
         buf'[Other(e)] = buf[Other(e)], dec'[Other(e)] = dec[Other(e)],
         padLen'[Other(e)] = padLen[Other(e)], busy'[Other(e)] = busy[Other(e)],
         got'[Other(e)] = got[Other(e)], iaLen' = iaLen
  PROVE  IF e = "A" THEN TowardB' ELSE TowardA'
  <1>t. MseTypeOK
    BY DEF ModeInv
  <1>0. PICK o \in Ends : o = Other(e)
    BY OtherEnd
  <1>1. PICK y \in Cells :
          /\ y.what = z.what /\ y.key = IF Ciphering(e) THEN enc[e] + 1 ELSE 0
          /\ wire'[o] = wire[o] \o <<y>>
    BY <1>t, <1>0, SentOf
  <1>2. enc'[e] = IF Ciphering(e) THEN enc[e] + 1 ELSE enc[e]
    BY <1>t, SentOf
  <1>3. Ciphering(e) <=> Sealed(offer)
    BY Seals
  <1>4. PICK k \in Nat : k = enc[e]
    BY <1>t DEF MseTypeOK
  <1>5. PICK l \in Nat : l = enc'[e]
    <2>1. enc' \in [Ends -> Nat]
      BY <1>t, SentOf
    <2> QED BY <2>1
  <1>6. PICK sent \in BOOLEAN : sent = sentShake[e]
    BY <1>t DEF MseTypeOK
  <1>7. /\ Speaks(y, sent) /\ y.key = (IF Sealed(offer) THEN k + 1 ELSE 0)
        /\ (Sealed(offer) => l = k + 1) /\ y \in Cells
    BY <1>1, <1>2, <1>3, <1>4, <1>5, <1>6 DEF Speaks
  <1>8. /\ Dropped \in Nat /\ Dropped' = Dropped
        /\ Ia \in 0 .. 1 /\ Ia' = Ia /\ (Ia = 1 <=> offer.ia)
        /\ Over("A")' = Over("A") /\ Over("B")' = Over("B")
    BY <1>t, OfferOf DEF Dropped, Ia, Over
  <1>9. PICK c \in Seq(Cells) : c = Stream(o)
    BY <1>t, StreamOf
  <1>10. PICK b \in Seq(Cells) : b = buf[o]
    BY <1>t, StreamOf
  <1>11. PICK w \in Seq(Cells) : w = wire[o]
    BY <1>t, StreamOf
  <1>12. PICK n \in Nat : n = dec[o]
    BY <1>t DEF MseTypeOK
  <1>13. PICK g \in BOOLEAN : g = got[o]
    BY <1>t DEF MseTypeOK
  <1>14. <<y>> \in Seq(Cells)
    BY <1>7
  <1>15. Stream(o)' = c \o <<y>>
    <2>1. PICK x \in Seq(Cells) : x = <<y>>
      BY <1>14
    <2>2. wire'[o] = wire[o] \o x /\ buf'[o] = buf[o]
      BY <1>0, <1>1, <2>1
    <2>3. Stream(o)' = Stream(o) \o x
      BY <1>t, <2>2, PutStream
    <2> QED BY <1>9, <2>1, <2>3
  <1>16. sentShake'[e] = TRUE
    OBVIOUS
  <1>17. PICK d \in Nat : d = Dropped
    BY <1>8
  <1>18. ASSUME Over(o)
         PROVE  Talking(offer, buf[o], wire[o] \o <<y>>, dec[o], enc'[e], TRUE, got[o])
    <2>1. Talking(offer, buf[o], wire[o], dec[o], enc[e], sentShake[e], got[o])
      BY <1>0, <1>18 DEF TowardA, TowardB, Ends, Other
    <2>2. Talking(offer, b, w, n, k, sent, g)
      BY <2>1, <1>4, <1>6, <1>10, <1>11, <1>12, <1>13
    <2>3. Talking(offer, b, w \o <<y>>, n, l, TRUE, g)
      <3>1. PICK j \in Nat : j = Len(w)
        BY LenProperties
      <3>2. /\ Session(b \o w, 0, sent, g)
            /\ \A i \in 1 .. Len(b) : b[i].key = 0
            /\ SealedFrom(offer, w, 0, n)
            /\ Sealed(offer) => k = n + j
        BY <2>2, <1>7, <3>1 DEF Talking
      <3>3. b \o w \in Seq(Cells) /\ <<y>> \in Seq(Cells) /\ Len(w \o <<y>>) = j + 1
        <4>1. b \o w \in Seq(Cells)
          BY JoinOf
        <4>2. <<y>> \in Seq(Cells)
          OBVIOUS
        <4>3. Len(w \o <<y>>) = j + 1
          BY <3>1, PutLast
        <4> QED
          BY <4>1, <4>2, <4>3
      <3>4. Session(b \o (w \o <<y>>), 0, TRUE, g)
        <4>1. (b \o w) \o <<y>> = b \o (w \o <<y>>)
          BY <3>3, ConcatAssociative
        <4>2. Session((b \o w) \o <<y>>, 0, TRUE, g)
          <5>1. PICK x \in Seq(Cells) : x = b \o w
            BY <3>3
          <5>2. Session(x, 0, sent, g) /\ Speaks(y, sent) /\ 0 \in Nat
            BY <1>7, <3>2, <5>1
          <5>3. Session(x \o <<y>>, 0, TRUE, g)
            BY <5>2, SpeaksOn
          <5> QED
            BY <5>1, <5>3
        <4> QED
          BY <4>1, <4>2
      <3>5. SealedFrom(offer, w \o <<y>>, 0, n)
        <4>1. 0 <= Len(w) /\ y.key = IF Sealed(offer) THEN n + Len(w) + 1 - 0 ELSE 0
          BY <1>7, <3>1, <3>2
        <4> QED
          BY <3>2, <4>1, SealedOn
      <3>6. Sealed(offer) => l = n + Len(w \o <<y>>)
        BY <1>7, <3>1, <3>2, <3>3
      <3> QED
        BY <3>2, <3>4, <3>5, <3>6 DEF Talking
    <2> QED BY <2>3, <1>5, <1>10, <1>11, <1>12, <1>13
  <1> HIDE DEF Ia, Dropped, Over, Stream
  <1>A. CASE e = "A"
    <2>0. o = "B" /\ Other(e) = "B"
      BY <1>0, <1>A, OtherEnd
    <2>s. /\ \/ state["A"] = "finish" /\ state["B"] \in Late
             \/ ~offer.crypt /\ state["B"] = "new"
          /\ ~(state["A"] \in {"send_pub", "got_pub"})
      BY <1>A DEF InStep, Over
    <2>1. (Over("B") => Talking(offer, buf["B"], wire["B"], dec["B"], enc["A"],
                                sentShake["A"], got["B"]))'
      BY <1>A, <2>0, <1>1, <1>8, <1>16, <1>18
    <2>2. ASSUME state["B"] = "wait_ia"
          PROVE  (/\ iaLen = Ia
                  /\ Ia = 0 => busy["B"] /\ buf["B"] = <<>>
                  /\ Session(Stream("B"), 0, sentShake["A"], FALSE)
                  /\ offer.ia => Stream("B")[1].key = dec["B"] + 1
                  /\ SealedFrom(offer, Stream("B"), Ia, dec["B"] + Ia)
                  /\ Sealed(offer) => enc["A"] = dec["B"] + Len(Stream("B")))'
      <3>0. /\ iaLen = Ia /\ (Ia = 0 => busy["B"] /\ buf["B"] = <<>>)
            /\ Session(c, 0, sent, FALSE)
            /\ (offer.ia => c[1].key = n + 1)
            /\ SealedFrom(offer, c, Ia, n + Ia)
            /\ (Sealed(offer) => k = n + Len(c))
        BY <2>2, <2>0, <1>A, <1>4, <1>6, <1>9, <1>12 DEF TowardB
      <3>1. Session(c \o <<y>>, 0, TRUE, FALSE)
        <4>1. Session(c, 0, sent, FALSE) /\ Speaks(y, sent) /\ 0 \in Nat
          BY <3>0, <1>7
        <4> QED BY <4>1, SpeaksOn
      <3>2. /\ Len(c \o <<y>>) = Len(c) + 1 /\ Len(c) \in Nat
            /\ \A i \in 1 .. Len(c) : (c \o <<y>>)[i] = c[i]
        BY <1>7, PutLast
      <3>3. offer.ia => 1 <= Len(c)
        <4>1. offer.ia => sent
          BY <1>6, <1>A, <2>2, <2>s DEF ShakesSent, InStep, Late
        <4> QED BY <3>0, <3>2, <4>1 DEF Session
      <3>4. PICK a \in Nat : a = Ia
        BY <1>8
      <3>5. a <= Len(c)
        BY <1>8, <3>2, <3>3, <3>4
      <3>6. SealedFrom(offer, c \o <<y>>, a, n + a)
        <4>1. PICK m \in Nat : m = n + a
          OBVIOUS
        <4>2. PICK l0 \in Nat : l0 = Len(c)
          BY <3>2
        <4>3. SealedFrom(offer, c, a, m)
          BY <3>0, <3>4, <4>1
        <4>4. Sealed(offer) => k + 1 = m + l0 + 1 - a
          BY <3>0, <4>1, <4>2
        <4>5. y.key = IF Sealed(offer) THEN m + Len(c) + 1 - a ELSE 0
          BY <1>7, <4>2, <4>4
        <4>6. SealedFrom(offer, c \o <<y>>, a, m)
          BY <1>7, <3>5, <4>3, <4>5, SealedOn
        <4> QED BY <4>1, <4>6
      <3>7. offer.ia => (c \o <<y>>)[1].key = n + 1
        BY <3>0, <3>2, <3>3
      <3>8. Sealed(offer) => l = n + Len(c \o <<y>>)
        BY <3>0, <3>2, <1>7
      <3>9. /\ Stream("B")' = c \o <<y>> /\ dec'["B"] = n /\ busy'["B"] = busy["B"]
            /\ buf'["B"] = buf["B"] /\ iaLen' = iaLen /\ Ia' = a /\ sentShake'["A"] = TRUE
            /\ enc'["A"] = l /\ offer' = offer
        BY <1>5, <1>8, <1>A, <1>12, <1>15, <2>0, <3>4
      <3>10. (iaLen = Ia /\ (Ia = 0 => busy["B"] /\ buf["B"] = <<>>))'
        BY <3>0, <3>4, <3>9
      <3>11. (Session(Stream("B"), 0, sentShake["A"], FALSE))'
        BY <3>1, <3>9
      <3> QED BY <3>6, <3>7, <3>8, <3>9, <3>10, <3>11
    <2> QED BY <1>A, <2>0, <2>1, <2>2, <2>s, <1>8 DEF TowardB, Late, Early
  <1>B. CASE e = "B"
    <2>0. o = "A" /\ Other(e) = "A"
      BY <1>0, <1>B, OtherEnd
    <2>s. state["B"] = "finish" \/ ~offer.crypt
      BY <1>B DEF Over
    <2>h. /\ Stream("A")' = c \o <<y>> /\ enc'["B"] = l /\ sentShake'["B"] = TRUE
          /\ Dropped' = d /\ offer' = offer /\ padLen'["A"] = padLen["A"]
          /\ dec'["A"] = dec["A"]
      BY <1>5, <1>8, <1>B, <1>15, <1>17, <2>0
    <2>g. c = Stream("A") /\ k = enc["B"] /\ sent = sentShake["B"] /\ d = Dropped
      BY <1>4, <1>6, <1>9, <1>17, <1>B, <2>0
    <2>1. (Over("A") => Talking(offer, buf["A"], wire["A"], dec["A"], enc["B"],
                                sentShake["B"], got["A"]))'
      BY <1>B, <2>0, <1>1, <1>8, <1>16, <1>18
    <2>2. ASSUME state["A"] = "got_pub", state["B"] \in Late
          PROVE  (\E j \in 2 .. PadMax + 1 :
                    /\ Lead(Stream("A"), j)
                    /\ Answered(offer, Dropped, enc["B"], sentShake["B"], Behind(Stream("A"), j)))'
      <3>1. PICK j \in 2 .. PadMax + 1 :
              Lead(c, j) /\ Answered(offer, d, k, sent, Behind(c, j))
        BY <2>2, <2>g DEF TowardA
      <3>2. j \in 0 .. Len(c)
        BY <3>1 DEF Lead
      <3>3. Behind(c \o <<y>>, j) = Behind(c, j) \o <<y>>
        <4>1. PICK x \in Seq(Cells) : x = <<y>>
          BY <1>14
        <4>2. Behind(c, j) \o x = Behind(c \o x, j)
          BY <3>2, EatStream
        <4> QED BY <4>1, <4>2
      <3>4. PICK r \in Seq(Cells) : r = Behind(c, j)
        BY <3>2, BehindOf
      <3>5. Answered(offer, d, l, TRUE, r \o <<y>>)
        <4>1. Answered(offer, d, k, sent, r)
          BY <3>1, <3>4
        <4> QED BY <4>1, <1>7, AnsweredOn
      <3>6. Lead(c \o <<y>>, j)
        BY <3>1, <1>14, LeadJoin
      <3>7. Answered(offer, d, l, TRUE, Behind(c \o <<y>>, j))
        BY <3>3, <3>4, <3>5
      <3> QED BY <3>6, <3>7, <2>h
    <2>3. ASSUME state["A"] = "found_vc"
          PROVE  Answered(offer, Dropped, enc["B"], sentShake["B"], Stream("A"))'
      <3>1. Answered(offer, d, k, sent, c)
        BY <2>3, <2>g DEF TowardA
      <3>2. Answered(offer, d, l, TRUE, c \o <<y>>)
        BY <3>1, <1>7, AnsweredOn
      <3> QED BY <3>2, <2>h
    <2>4. ASSUME state["A"] = "wait_pad_d"
          PROVE  (/\ AnswerTail(offer, Dropped, enc["B"], sentShake["B"], Stream("A"), padLen["A"])
                  /\ dec["A"] = Dropped + 3)'
      <3>1. PICK m \in Nat : m = padLen["A"]
        BY <1>t DEF MseTypeOK, MseAssumption, Ends
      <3>2. AnswerTail(offer, d, k, sent, c, m) /\ dec["A"] = Dropped + 3
        BY <2>4, <2>g, <3>1 DEF TowardA
      <3>3. AnswerTail(offer, d, l, TRUE, c \o <<y>>, m)
        BY <3>2, <1>7, AnswerTailOn
      <3>4. AnswerTail(offer, Dropped, enc["B"], sentShake["B"], Stream("A"), padLen["A"])'
        BY <3>1, <3>3, <2>h
      <3> QED BY <3>2, <3>4, <2>h, <1>17
    <2>5. /\ ~(state["B"] \in {"new", "init"} /\ offer.crypt)
          /\ ~(/\ state["A"] \in {"send_pub", "got_pub"}
               /\ state["B"] \in {"send_pub", "found_req1", "wait_pad_c"})
      BY <2>s DEF InStep
    <2> QED BY <1>B, <2>0, <2>1, <2>2, <2>3, <2>4, <2>5, <1>8 DEF TowardA, Late
  <1> QED BY <1>A, <1>B DEF Ends
\* Saying something, and nothing else, spoils nothing.
LEMMA SpeaksShakes ==
  ASSUME MseAssumption, ModeInv, ShakeInv, NEW e \in Ends, Over(e),
         NEW z \in Cells, z.key = 0, Speaks(z, sentShake[e]), SendData(e, <<z>>),
         UNCHANGED <<offer, buf, busy, state, dec, padLen, iaLen, got, link>>,
         sentShake' = [sentShake EXCEPT ![e] = TRUE], e = "B" => got["B"]
  PROVE  ShakeInv'
  <1>t. MseTypeOK
    BY DEF ModeInv
  <1>1. InStep /\ ShakesSent /\ TowardA /\ TowardB /\ \A n \in Ends : link[n] # "protocol"
    BY DEF ShakeInv
  <1>2. sentShake'[e] = TRUE /\ sentShake'[Other(e)] = sentShake[Other(e)]
    BY <1>t, OtherEnd DEF MseTypeOK
  <1>3. wire'[e] = wire[e] /\ enc'[Other(e)] = enc[Other(e)]
    BY <1>t, SentOf
  <1>4. IF e = "A" THEN TowardB' ELSE TowardA'
    BY <1>1, <1>2, OverSays
  <1>5. e = "A" => TowardA'
    BY <1>1, <1>2, <1>3, TowardAFrame, OtherEnd
  <1>6. e = "B" => TowardB'
    BY <1>1, <1>2, <1>3, TowardBFrame, OtherEnd
  <1>7. InStep'
    <2>1. enc'["B"] = enc["B"] \/ state["B"] # "wait_pad_c"
      BY <1>1, <1>3, OtherEnd DEF InStep, Over, Ends
    <2> QED BY <1>1, <2>1 DEF InStep, Dropped
  <1>8. ShakesSent'
    <2>1. \A n \in Ends : sentShake[n] => sentShake'[n]
      BY <1>t DEF MseTypeOK
    <2>2. e = "B" => sentShake'["A"] = sentShake["A"]
      BY <1>2, OtherEnd
    <2>3. e = "A" => sentShake'["B"] = sentShake["B"] /\ (offer.crypt => state["A"] = "finish")
      BY <1>2, OtherEnd DEF Over
    <2>4. Over("A")' = Over("A") /\ Over("B")' = Over("B")
      BY DEF Over
    <2> QED BY <1>1, <1>2, <2>1, <2>2, <2>3, <2>4 DEF ShakesSent, Ends
  <1> QED BY <1>1, <1>4, <1>5, <1>6, <1>7, <1>8 DEF ShakeInv, Ends

LEMMA MoveToConnectedListShakes ==
  ASSUME MseAssumption, ModeInv, ShakeInv, MoveToConnectedList
  PROVE  ShakeInv'
  <1>1. /\ Over("A") /\ Speaks(Plain("shake"), sentShake["A"])
        /\ SendData("A", <<Plain("shake")>>)
        /\ UNCHANGED <<offer, buf, busy, state, dec, padLen, iaLen, got, link>>
        /\ sentShake' = [sentShake EXCEPT !["A"] = TRUE]
    BY SaidCells DEF MoveToConnectedList, SendHandshake, Over, Speaks, Fixed
  <1> QED BY <1>1, SaidCells, SpeaksShakes DEF Ends

LEMMA LateHandshakeShakes ==
  ASSUME MseAssumption, ModeInv, ShakeInv, LateHandshake
  PROVE  ShakeInv'
  <1>1. /\ Over("A") /\ Speaks(Plain("shake"), sentShake["A"])
        /\ SendData("A", <<Plain("shake")>>)
        /\ UNCHANGED <<offer, buf, busy, state, dec, padLen, iaLen, got, link>>
        /\ sentShake' = [sentShake EXCEPT !["A"] = TRUE]
    BY SaidCells DEF LateHandshake, SendHandshake, Over, Speaks, Fixed
  <1> QED BY <1>1, SaidCells, SpeaksShakes DEF Ends

LEMMA SayShakes ==
  ASSUME MseAssumption, ModeInv, ShakeInv, NEW e \in Ends, Say(e)
  PROVE  ShakeInv'
  <1>1. got[e] /\ Over(e) /\ sentShake[e] /\ sentShake \in [Ends -> BOOLEAN]
    BY DEF Say, ShakeInv, ShakesSent, ModeInv, MseTypeOK
  <1>2. /\ Speaks(Plain("msg"), sentShake[e]) /\ SendData(e, <<Plain("msg")>>)
        /\ UNCHANGED <<offer, buf, busy, state, dec, padLen, iaLen, got, link>>
        /\ sentShake' = sentShake
    BY <1>1, SaidCells DEF Say, Speaks
  <1>3. sentShake' = [sentShake EXCEPT ![e] = TRUE]
    BY <1>1, <1>2
  <1> QED BY <1>1, <1>2, <1>3, SaidCells, SpeaksShakes

LEMMA PeerEndedShakes ==
  ASSUME ModeInv, ShakeInv, NEW e \in Ends, PeerEnded(e)
  PROVE  ShakeInv'
  <1>1. /\ UNCHANGED <<wire, buf, busy, state, enc, dec, full, padLen, iaLen, got,
                       sentShake, offer>>
        /\ link' = [link EXCEPT ![e] = "ended"]
    BY DEF PeerEnded, Close, Fixed
  <1>2. TowardA' /\ TowardB'
    BY <1>1, TowardAFrame, TowardBFrame DEF ShakeInv
  <1>3. ShakesSent' /\ InStep'
    <2>1. \A n \in Ends : Over(n)' = Over(n)
      BY <1>1 DEF Over
    <2>2. ShakesSent'
      BY <1>1, <2>1 DEF ShakeInv, ShakesSent
    <2>3. InStep'
      BY <1>1 DEF ShakeInv, InStep, Dropped
    <2> QED BY <2>2, <2>3
  <1>4. \A n \in Ends : link'[n] # "protocol"
    BY <1>1 DEF ShakeInv, ModeInv, MseTypeOK
  <1> QED BY <1>2, <1>3, <1>4 DEF ShakeInv
\* How far the ends are, and what they said, is as it was.
LEMMA StandsFrame ==
  ASSUME InStep, ShakesSent, UNCHANGED <<offer, state, enc, got, sentShake>>
  PROVE  InStep' /\ ShakesSent'
  <1>1. \A n \in Ends : Over(n)' = Over(n)
    BY DEF Over
  <1>2. ShakesSent'
    BY <1>1 DEF ShakesSent
  <1>3. InStep'
    BY DEF InStep, Dropped
  <1> QED BY <1>2, <1>3

\* An end that is over with it decrypts what it reads.
LEMMA OverRead ==
  ASSUME ModeInv, InStep, TowardA, TowardB, NEW e \in Ends, DoRead(e), Over(e), InStep',
         UNCHANGED <<offer, state, enc, got, sentShake>>
  PROVE  IF e = "B" THEN TowardB' ELSE TowardA'
  <1>t. MseTypeOK
    BY DEF ModeInv
  <1>0. PICK o \in Ends : o = Other(e)
    BY OtherEnd
  <1>1. PICK m \in 1 .. Len(wire[e]) :
          /\ wire'[e] = Behind(wire[e], m)
          /\ buf'[e] = buf[e] \o (IF Ciphering(e) THEN Decrypt(Before(wire[e], m), dec[e])
                                  ELSE Before(wire[e], m))
          /\ dec'[e] = IF Ciphering(e) THEN dec[e] + m ELSE dec[e]
    BY <1>t, ReadOf
  <1>2. Ciphering(e) <=> Sealed(offer)
    BY Seals
  <1>3. PICK b \in Seq(Cells) : b = buf[e]
    BY <1>t, StreamOf
  <1>4. PICK w \in Seq(Cells) : w = wire[e]
    BY <1>t, StreamOf
  <1>5. PICK n \in Nat : n = dec[e]
    BY <1>t DEF MseTypeOK
  <1>6. PICK k \in Nat : k = enc[o]
    BY <1>t DEF MseTypeOK
  <1>7. PICK sent \in BOOLEAN : sent = sentShake[o]
    BY <1>t DEF MseTypeOK
  <1>8. PICK g \in BOOLEAN : g = got[e]
    BY <1>t DEF MseTypeOK
  <1>9. Talking(offer, buf[e], wire[e], dec[e], enc[o], sentShake[o], got[e])
    BY <1>0 DEF TowardA, TowardB, Ends, Other
  <1>10. Talking(offer, b, w, n, k, sent, g)
    BY <1>3, <1>4, <1>5, <1>6, <1>7, <1>8, <1>9
  <1>11. m \in 0 .. Len(w)
    BY <1>1, <1>4, LenProperties
  <1>12. Talking(offer,
                 b \o (IF Sealed(offer) THEN Decrypt(Before(w, m), n) ELSE Before(w, m)),
                 Behind(w, m), IF Sealed(offer) THEN n + m ELSE n, k, sent, g)
    BY <1>10, <1>11, TalkingRead
  <1>13. Talking(offer, buf'[e], wire'[e], dec'[e], enc[o], sentShake[o], got[e])
    BY <1>1, <1>2, <1>3, <1>4, <1>5, <1>6, <1>7, <1>8, <1>12
  <1>14. Over(e)'
    BY DEF Over
  <1> QED BY <1>0, <1>13, <1>14, TowardOver DEF Ends, Other

LEMMA DoReadShakes ==
  ASSUME ModeInv, ShakeInv, NEW e \in Ends, DoRead(e)
  PROVE  ShakeInv'
  <1>t. MseTypeOK
    BY DEF ModeInv
  <1>0. InStep /\ ShakesSent /\ TowardA /\ TowardB
    BY DEF ShakeInv
  <1>1. /\ UNCHANGED <<offer, state, enc, full, padLen, iaLen, got, sentShake, link>>
        /\ ~busy[e] /\ busy' = [busy EXCEPT ![e] = TRUE]
    BY DEF DoRead, Fixed
  <1>2. InStep' /\ ShakesSent'
    BY <1>0, <1>1, StandsFrame
  <1>3. /\ wire'[Other(e)] = wire[Other(e)] /\ buf'[Other(e)] = buf[Other(e)]
        /\ dec'[Other(e)] = dec[Other(e)] /\ busy'[Other(e)] = busy[Other(e)]
    BY <1>t, <1>1, ReadOf, OtherEnd DEF MseTypeOK
  <1>4. e = "A" => TowardB'
    BY <1>0, <1>1, <1>3, TowardBFrame, OtherEnd
  <1>5. e = "B" => TowardA'
    BY <1>0, <1>1, <1>3, TowardAFrame, OtherEnd
  <1>6. CASE Over(e)
    <2>1. IF e = "B" THEN TowardB' ELSE TowardA'
      BY <1>0, <1>1, <1>2, <1>6, OverRead
    <2> QED BY <1>1, <1>2, <1>4, <1>5, <2>1 DEF ShakeInv, Ends
  <1>7. CASE ~Over(e)
    <2>1. ~Ciphering(e)
      BY <1>7 DEF Over, Ciphering
    <2>2. Stream(e)' = Stream(e) /\ dec'[e] = dec[e]
      BY <1>t, <2>1, ReadOf
    <2>3. Ia' = Ia /\ Dropped' = Dropped /\ Over("A")' = Over("A") /\ Over("B")' = Over("B")
      BY <1>1 DEF Ia, Dropped, Over
    <2> HIDE DEF Ia, Dropped, Over, Stream
    <2>4. e = "B" => TowardB'
      BY <1>0, <1>1, <1>7, <2>2, <2>3, OfferOf DEF TowardB
    <2>5. e = "A" => TowardA'
      BY <1>0, <1>1, <1>7, <2>2, <2>3 DEF TowardA
    <2> QED BY <1>1, <1>2, <1>4, <1>5, <2>4, <2>5 DEF ShakeInv, Ends
  <1> QED BY <1>6, <1>7
\* An end that returns and has more to read, or refuses, has done nothing.
LEMMA RefusedShakes ==
  ASSUME ShakeInv,
         UNCHANGED <<offer, wire, buf, state, enc, dec, padLen, iaLen, got, sentShake>>,
         busy'["B"] = busy["B"] \/ state["B"] # "wait_ia" \/ Ia # 0,
         \A e \in Ends : link'[e] # "protocol"
  PROVE  ShakeInv'
  <1>1. InStep' /\ ShakesSent'
    BY StandsFrame DEF ShakeInv
  <1>2. TowardA' /\ TowardB'
    BY TowardAFrame, TowardBFrame DEF ShakeInv
  <1> QED BY <1>1, <1>2 DEF ShakeInv

LEMMA BusyShakes ==
  ASSUME ShakeInv,
         UNCHANGED <<offer, wire, buf, state, enc, dec, padLen, iaLen, got, sentShake, link>>,
         busy'["B"] = busy["B"] \/ state["B"] # "wait_ia" \/ Ia # 0
  PROVE  ShakeInv'
  <1>1. \A e \in Ends : link'[e] # "protocol"
    BY DEF ShakeInv
  <1> QED BY <1>1, RefusedShakes

LEMMA SendPublicKeyShakes ==
  ASSUME MseAssumption, ModeInv, ShakeInv, SendPublicKey
  PROVE  ShakeInv'
  <1>t. MseTypeOK
    BY DEF ModeInv
  <1>0. InStep /\ ShakesSent /\ TowardA /\ TowardB
    BY DEF ShakeInv
  <1>1. PICK n \in Pads : Put("A", KeyCells(n))
    BY DEF SendPublicKey, KeyCells
  <1>2. /\ state["A"] = "new" /\ offer.crypt /\ state["B"] = "new"
        /\ state' = [state EXCEPT !["A"] = "send_pub"]
        /\ UNCHANGED <<offer, buf, busy, enc, dec, full, padLen, iaLen, got, sentShake, link>>
    BY <1>0 DEF SendPublicKey, Become, Fixed, InStep
  <1>3. state'["A"] = "send_pub" /\ state'["B"] = "new"
    BY <1>t, <1>2 DEF MseTypeOK, Ends
  <1>4. KeyCells(n) \in Seq(Cells) /\ Lead(KeyCells(n), Len(KeyCells(n)))
    BY LeadKey
  <1>5. wire'["A"] = wire["A"] /\ wire'["B"] = wire["B"] \o KeyCells(n)
    BY <1>t, <1>1, <1>4, PutOf, OtherEnd DEF Ends
  <1>6. Stream("B")' = KeyCells(n)
    <2>1. Stream("B")' = Stream("B") \o KeyCells(n)
      BY <1>t, <1>2, <1>4, <1>5, PutStream DEF Ends
    <2>2. Stream("B") = <<>>
      BY <1>0, <1>2 DEF TowardB
    <2>3. PICK K \in Seq(Cells) : K = KeyCells(n)
      BY <1>4
    <2>4. <<>> \o K = K
      OBVIOUS
    <2> QED BY <2>1, <2>2, <2>3, <2>4
  <1>7. ~Over("A")' /\ ~Over("B")'
    BY <1>2, <1>3 DEF Over
  <1>8. TowardB'
    <2>1. Lead(Stream("B"), Len(Stream("B")))'
      BY <1>4, <1>6
    <2> QED BY <1>3, <1>7, <2>1 DEF TowardB
  <1>9. TowardA'
    BY <1>0, <1>2, <1>3, <1>5, TowardAFrame
  <1>10. InStep'
    BY <1>2, <1>3 DEF InStep, Early
  <1>11. ShakesSent'
    <2>1. ~Over("A") /\ ~Over("B")
      BY <1>2 DEF Over
    <2> QED BY <1>0, <1>2, <1>3, <2>1 DEF ShakesSent, Ends
  <1> QED BY <1>2, <1>8, <1>9, <1>10, <1>11 DEF ShakeInv

\* The request is what B waits for.
LEMMA RequestedOf ==
  ASSUME MseAssumption, MseTypeOK, NEW n \in Pads
  PROVE  /\ n \in Nat /\ RequestCells(n) \in Seq(Cells)
         /\ Len(SecretA(n)) \in Nat
         /\ Requested(Ia, Dropped, Dropped + Len(SecretA(n)), RequestCells(n))
  <1>1. n \in Nat /\ n <= PadMax /\ Dropped \in Nat /\ Ia \in 0 .. 1 /\ (Ia = 1 <=> offer.ia)
    BY OfferOf DEF MseAssumption
  <1>2. PICK x : x = RequestCells(n)
    OBVIOUS
  <1>3. /\ x \in Seq(Cells) /\ Len(x) = n + 6 + Ia
        /\ x[1].what = "req1" /\ x[1].key = 0
        /\ x[3].what = "vc" /\ x[5].v = n
        /\ x[n + 6].what = "ialen" /\ x[n + 6].v = Ia
        /\ offer.ia => x[n + 7].what = "shake"
        /\ \A i \in 3 .. (n + 6 + Ia) : x[i].key = Dropped + (i - 2)
    <2>1. /\ RequestCells(n) \in Seq(Cells) /\ Len(RequestCells(n)) = n + 6 + Ia
          /\ RequestCells(n)[1].what = "req1" /\ RequestCells(n)[1].key = 0
          /\ RequestCells(n)[3].what = "vc" /\ RequestCells(n)[5].v = n
          /\ RequestCells(n)[n + 6].what = "ialen" /\ RequestCells(n)[n + 6].v = Ia
          /\ offer.ia => RequestCells(n)[n + 7].what = "shake"
          /\ \A i \in 3 .. (n + 6 + Ia) : RequestCells(n)[i].key = Dropped + (i - 2)
      BY <1>1, RequestOf
    <2> QED BY <1>2, <2>1
  <1>4. Len(SecretA(n)) = n + 4 + Ia
    BY <1>1, SecretAOf
  <1>5. PICK c : c = Behind(x, 5)
    OBVIOUS
  <1>6. /\ c \in Seq(Cells) /\ Len(c) = n + 1 + Ia
        /\ \A i \in 1 .. Len(c) : c[i] = x[5 + i]
    <2>1. 5 \in 0 .. Len(x)
      BY <1>1, <1>3
    <2>2. /\ c \in Seq(Cells) /\ Len(c) = Len(x) - 5
          /\ \A i \in 1 .. (Len(x) - 5) : c[i] = x[5 + i]
      BY <1>3, <1>5, <2>1, BehindOf
    <2>3. \A i \in 1 .. Len(c) : c[i] = x[5 + i]
      BY <2>2
    <2>4. Len(c) = n + 1 + Ia
      BY <1>1, <1>3, <2>2
    <2> QED BY <2>2, <2>3, <2>4
  <1>7. RequestTail(Ia, Dropped, Dropped + Len(SecretA(n)), c, n)
    <2>1. \A i \in 1 .. Len(c) : c[i].key = Dropped + 3 + i
      <3>1. SUFFICES ASSUME NEW i \in 1 .. Len(c) PROVE c[i].key = Dropped + 3 + i
        OBVIOUS
      <3>2. 5 + i \in 3 .. (n + 6 + Ia) 
        BY <1>1, <1>6
      <3>3. c[i] = x[5 + i] /\ x[5 + i].key = Dropped + ((5 + i) - 2)
        BY <1>3, <1>6, <3>2
      <3> QED BY <1>1, <3>3
    <2>2. c[n + 1] = x[n + 6] /\ (Ia = 1 => c[n + 2] = x[n + 7])
      BY <1>1, <1>6
    <2> QED BY <1>1, <1>3, <1>4, <1>6, <2>1, <2>2, SMTT(20) DEF RequestTail
  <1>8. x[3].key = Dropped + 1 /\ x[4].key = Dropped + 2 /\ x[5].key = Dropped + 3
    BY <1>1, <1>3
  <1>9. Requested(Ia, Dropped, Dropped + Len(SecretA(n)), x)
    BY <1>1, <1>3, <1>5, <1>7, <1>8 DEF Requested
  <1> QED BY <1>1, <1>2, <1>3, <1>4, <1>9

LEMMA AfterSendPubAShakes ==
  ASSUME MseAssumption, ModeInv, ShakeInv, ~nineteen, AfterSendPubA
  PROVE  ShakeInv'
  <1>t. MseTypeOK
    BY DEF ModeInv
  <1>0. InStep /\ ShakesSent /\ TowardA /\ TowardB
    BY DEF ShakeInv
  <1>1. /\ state["A"] = "send_pub" /\ busy' = [busy EXCEPT !["A"] = FALSE]
        /\ UNCHANGED <<buf, full, padLen, iaLen, got, offer>> /\ link' = link
    BY DEF AfterSendPubA, At, Return, Fixed
  <1>2. CASE Len(buf["A"]) < 2
    <2>1. UNCHANGED <<state, dec, wire, enc, sentShake, link>>
      BY <1>2 DEF AfterSendPubA
    <2>2. busy'["B"] = busy["B"]
      BY <1>t, <1>1 DEF MseTypeOK, Ends
    <2> QED BY <1>1, <2>1, <2>2, BusyShakes
  <1>3. CASE ~(Len(buf["A"]) < 2)
    <2>1. PICK n \in Pads : Request(n)
      BY <1>3 DEF AfterSendPubA
    <2>2. /\ dec' = [dec EXCEPT !["A"] = Dropped]
          /\ sentShake' = [sentShake EXCEPT !["A"] = offer.ia]
          /\ state' = [state EXCEPT !["A"] = "got_pub"]
      BY <1>3 DEF AfterSendPubA, Become
    <2>3. /\ Put("A", RequestCells(n))
          /\ enc' = [enc EXCEPT !["A"] = Dropped + Len(SecretA(n))]
      BY <2>1 DEF Request, RequestCells, SecretA
    <2>4. PICK R \in Seq(Cells) : R = RequestCells(n)
      BY <1>t, RequestedOf
    <2>5. PICK k \in Nat : k = Dropped + Len(SecretA(n))
      BY <1>t, RequestedOf, OfferOf
    <2>6. Requested(Ia, Dropped, k, R)
      BY <1>t, <2>4, <2>5, RequestedOf
    <2>7. wire'["A"] = wire["A"] /\ wire'["B"] = wire["B"] \o R
      BY <1>t, <2>3, <2>4, PutOf, OtherEnd DEF Ends
    <2>8. /\ enc'["A"] = k /\ enc'["B"] = enc["B"] /\ dec'["B"] = dec["B"]
          /\ state'["A"] = "got_pub" /\ state'["B"] = state["B"]
          /\ sentShake'["A"] = offer.ia /\ sentShake'["B"] = sentShake["B"]
          /\ busy'["B"] = busy["B"]
      BY <1>t, <1>1, <2>2, <2>3, <2>5 DEF MseTypeOK, Ends
    <2>9. offer.crypt /\ state["B"] = "send_pub"
      <3>1. offer.crypt /\ state["B"] \in Early
        BY <1>0, <1>1 DEF InStep
      <3>2. Stream("A") # <<>>
        <4>1. /\ Len(buf["A"]) \in Nat /\ Len(wire["A"]) \in Nat
              /\ Len(Stream("A")) = Len(buf["A"]) + Len(wire["A"])
          BY <1>t, StreamOf DEF Ends
        <4>2. PICK l \in Nat : l = Len(buf["A"])
          BY <4>1
        <4>3. PICK m \in Nat : m = Len(wire["A"])
          BY <4>1
        <4>4. ~(l < 2) /\ Len(Stream("A")) = l + m
          BY <1>3, <4>1, <4>2, <4>3
        <4>5. Len(Stream("A")) # 0
          BY <4>4
        <4> QED BY <4>5
      <3> QED BY <1>0, <3>1, <3>2 DEF TowardA, Early
    <2>10. ~Over("A") /\ ~Over("A")' /\ ~Over("B") /\ ~Over("B")'
      BY <1>1, <2>8, <2>9 DEF Over
    <2>11. Stream("B")' = Stream("B") \o R
      BY <1>t, <1>1, <2>7, PutStream DEF Ends
    <2>12. PICK c \in Seq(Cells) : c = Stream("B")
      BY <1>t, StreamOf DEF Ends
    <2>13. Lead(c, Len(c))
      BY <1>0, <1>1, <2>12 DEF TowardB
    <2>14. PICK j \in 2 .. PadMax + 1 : j = Len(c)
      BY <2>13 DEF Lead
    <2>15. Lead(c \o R, j) /\ Behind(c \o R, j) = R
      BY <2>13, <2>14, LeadJoin, BehindJoin
    <2>16. TowardB'
      <3>1. Ia' = Ia /\ Dropped' = Dropped
        BY <1>1 DEF Ia, Dropped
      <3>2. Requested(Ia', Dropped', enc'["A"], Behind(c \o R, j))
        BY <2>6, <2>8, <2>15, <3>1
      <3>3. (\E i \in 2 .. PadMax + 1 :
               /\ Lead(Stream("B"), i)
               /\ Requested(Ia, Dropped, enc["A"], Behind(Stream("B"), i)))'
        BY <2>11, <2>12, <2>15, <3>2
      <3> QED BY <2>8, <2>9, <2>10, <3>3 DEF TowardB
    <2>17. TowardA'
      <3>1. Stream("A")' = Stream("A")
        BY <1>1, <2>7 DEF Stream
      <3>2. Lead(Stream("A"), Len(Stream("A")))
        BY <1>0, <1>1, <2>9 DEF TowardA
      <3> HIDE DEF Over, Stream
      <3> QED BY <2>8, <2>9, <2>10, <3>1, <3>2 DEF TowardA, Late
    <2>18. InStep'
      BY <1>1, <2>8, <2>9 DEF InStep, Early, Late
    <2>19. ShakesSent'
      BY <1>0, <1>1, <2>8, <2>10 DEF ShakesSent, Ends
    <2> QED BY <1>1, <2>16, <2>17, <2>18, <2>19 DEF ShakeInv
  <1> QED BY <1>2, <1>3

\* A finds the VC exactly where the answer of B begins.
LEMMA AfterGotPubShakes ==
  ASSUME MseAssumption, ModeInv, ShakeInv, AfterGotPub
  PROVE  ShakeInv'
  <1>t. MseTypeOK
    BY DEF ModeInv
  <1>0. InStep /\ ShakesSent /\ TowardA /\ TowardB
    BY DEF ShakeInv
  <1>d. Dropped \in Nat
    BY <1>t, OfferOf
  <1>1. PICK x : x = [what |-> "vc", key |-> Dropped + 1]
    OBVIOUS
  <1>2. x.what = "vc" /\ x.key = Dropped + 1 /\ x.what \notin Leading
    BY <1>1 DEF Leading
  <1>3. /\ state["A"] = "got_pub"
        /\ UNCHANGED <<wire, enc, dec, full, padLen, iaLen, got, sentShake, offer>>
    BY DEF AfterGotPub, At, Fixed
  <1>4. IF Positions("A", x) # {}
        THEN /\ state' = [state EXCEPT !["A"] = "found_vc"]
             /\ Eat("A", FirstAt(Positions("A", x)) - 1)
             /\ UNCHANGED <<busy, link>>
        ELSE /\ IF TooLong("A") THEN Close("A", "protocol") ELSE link' = link
             /\ busy' = [busy EXCEPT !["A"] = FALSE]
             /\ UNCHANGED <<state, buf>>
    BY <1>1 DEF AfterGotPub, Become, Return
  <1>5. PICK c \in Seq(Cells) : c = Stream("A")
    BY <1>t, StreamOf DEF Ends
  <1>6. CASE state["B"] \in Late
    <2>1. PICK j \in 2 .. PadMax + 1 :
            Lead(c, j) /\ Answered(offer, Dropped, enc["B"], sentShake["B"], Behind(c, j))
      BY <1>0, <1>3, <1>5, <1>6 DEF TowardA
    <2>2. PICK s \in Seq(Cells) : s = Behind(c, j)
      BY <2>1, BehindOf DEF Lead
    <2>3. /\ Len(s) \in Nat /\ 2 <= Len(s) /\ s[1].what = x.what /\ s[1].key = x.key
      BY <1>2, <2>1, <2>2, LenProperties DEF Answered
    <2>4. j \in Nat
      BY DEF MseAssumption
    <2>5. IF Positions("A", x) # {} THEN FirstAt(Positions("A", x)) - 1 = j ELSE ~TooLong("A")
      <3>1. Lead(Stream("A"), j) /\ s = Behind(Stream("A"), j)
        BY <1>5, <2>1, <2>2
      <3> QED BY <1>t, <1>2, <2>3, <2>4, <3>1, FoundBehind DEF Ends
    <2>6. CASE Positions("A", x) # {}
      <3>1. j \in 0 .. Len(buf["A"]) /\ Eat("A", j)
        BY <1>t, <1>4, <2>5, <2>6, PlaceOf DEF Ends
      <3>2. /\ Stream("A")' = Behind(Stream("A"), j) /\ buf'["B"] = buf["B"]
        BY <1>t, <1>3, <3>1, EatOf, OtherEnd DEF Ends
      <3>3. Stream("A")' = s
        BY <1>5, <2>2, <3>2
      <3>4. state'["A"] = "found_vc" /\ state'["B"] = state["B"] /\ busy' = busy /\ link' = link
        BY <1>t, <1>4, <2>6 DEF MseTypeOK, Ends
      <3>5. offer.crypt
        BY <1>0, <1>3 DEF InStep
      <3>6. ~Over("A") /\ ~Over("A")' /\ Over("B")' = Over("B")
        BY <1>3, <3>4, <3>5 DEF Over
      <3>7. TowardA'
        <4>1. Dropped' = Dropped
          BY <1>3 DEF Dropped
        <4>2. Answered(offer, Dropped, enc["B"], sentShake["B"], Stream("A"))'
          BY <1>3, <2>1, <2>2, <3>3, <4>1
        <4> QED BY <1>6, <3>4, <3>6, <4>2 DEF TowardA, Late
      <3>8. TowardB'
        BY <1>0, <1>3, <3>2, <3>4, TowardBFrame
      <3>9. InStep'
        BY <1>0, <1>3, <1>6, <3>4, <3>5 DEF InStep, Late
      <3>10. ShakesSent'
        BY <1>0, <1>3, <3>4, <3>6 DEF ShakesSent, Ends
      <3> QED BY <3>4, <3>7, <3>8, <3>9, <3>10 DEF ShakeInv
    <2>7. CASE Positions("A", x) = {}
      <3>1. link' = link /\ UNCHANGED <<state, buf>> /\ busy'["B"] = busy["B"]
        BY <1>t, <1>4, <2>5, <2>7 DEF MseTypeOK, Ends
      <3> QED BY <1>3, <3>1, BusyShakes
    <2> QED BY <2>6, <2>7
  <1>7. CASE state["B"] \notin Late
    <2>1. Lead(Stream("A"), Len(Stream("A")))
      BY <1>0, <1>3, <1>7 DEF TowardA, InStep
    <2>2. Positions("A", x) = {} /\ ~TooLong("A")
      BY <1>t, <1>2, <2>1, NothingBehind DEF Ends
    <2>3. link' = link /\ UNCHANGED <<state, buf>> /\ busy'["B"] = busy["B"]
      BY <1>t, <1>4, <2>2 DEF MseTypeOK, Ends
    <2> QED BY <1>3, <2>3, BusyShakes
  <1> QED BY <1>6, <1>7

\* A reads what was selected and how much padding follows.
LEMMA AfterFoundVCShakes ==
  ASSUME MseAssumption, ModeInv, ShakeInv, AfterFoundVC
  PROVE  ShakeInv'
  <1>t. MseTypeOK
    BY DEF ModeInv
  <1>0. InStep /\ ShakesSent /\ TowardA /\ TowardB
    BY DEF ShakeInv
  <1>1. /\ state["A"] = "found_vc" /\ state["B"] \in Late /\ offer.crypt /\ dec["A"] = Dropped
        /\ UNCHANGED <<wire, enc, iaLen, got, sentShake, offer>>
    BY <1>0 DEF AfterFoundVC, At, Fixed, InStep, ModeInv, ModeA
  <1>2. CASE Len(buf["A"]) < 3
    <2>1. UNCHANGED <<state, buf, dec, full, padLen, link>> /\ busy' = [busy EXCEPT !["A"] = FALSE]
      BY <1>2 DEF AfterFoundVC, Return
    <2>2. busy'["B"] = busy["B"]
      BY <1>t, <2>1 DEF MseTypeOK, Ends
    <2> QED BY <1>1, <2>1, <2>2, BusyShakes
  <1>3. CASE ~(Len(buf["A"]) < 3)
    <2>1. PICK d \in Nat : d = Dropped
      BY <1>t, OfferOf
    <2>2. PICK b \in Seq(Cells) : b = buf["A"]
      BY <1>t, StreamOf DEF Ends
    <2>3. PICK c \in Seq(Cells) : c = Stream("A")
      BY <1>t, StreamOf DEF Ends
    <2>4. 3 <= Len(b) /\ \A i \in 1 .. Len(b) : c[i] = b[i]
      <3>1. Len(buf["A"]) \in Nat /\ \A i \in 1 .. Len(buf["A"]) : Stream("A")[i] = buf["A"][i]
        BY <1>t, StreamOf DEF Ends
      <3> QED BY <1>3, <2>2, <2>3, <3>1
    <2>5. Answered(offer, d, enc["B"], sentShake["B"], c)
      BY <1>0, <1>1, <2>1, <2>3 DEF TowardA
    <2>6. /\ b[1].key = d + 1 /\ b[2].key = d + 2 /\ b[3].key = d + 3
          /\ b[2] = c[2] /\ b[3] = c[3]
          /\ b[2].v \in {1, 2} /\ b[3].v <= PadMax
          /\ AnswerTail(offer, d, enc["B"], sentShake["B"], Behind(c, 3), b[3].v)
      BY <2>4, <2>5, LenProperties, SMTT(20) DEF Answered
    <2>7. PICK h : h = Decrypt(Before(b, 3), d)
      OBVIOUS
    <2>8. h[2].v = b[2].v /\ h[3].v = b[3].v
      <3>1. \A i \in 1 .. 3 : b[i].key = d + i => h[i].v = b[i].v
        <4>1. 3 \in Nat /\ 3 <= Len(b)
          BY <2>4
        <4>2. \A i \in 1 .. 3 :
                IF b[i].key = d + i
                THEN /\ Decrypt(Before(b, 3), d)[i].what = b[i].what
                     /\ Decrypt(Before(b, 3), d)[i].v = b[i].v
                     /\ Decrypt(Before(b, 3), d)[i].key = 0
                ELSE Decrypt(Before(b, 3), d)[i] = Plain("junk")
          BY <4>1, HeadCells
        <4> QED BY <2>7, <4>2
      <3> QED BY <2>6, <3>1
    <2>9. PICK m \in Nat : m = b[3].v
      <3>1. b[3] \in Cells
        BY <2>4
      <3> QED BY <3>1 DEF Cells
    <2>10. /\ dec' = [dec EXCEPT !["A"] = d + 3] /\ Eat("A", 3)
           /\ state' = [state EXCEPT !["A"] = "wait_pad_d"]
           /\ padLen' = [padLen EXCEPT !["A"] = m]
           /\ UNCHANGED <<busy, link>>
      <3>1. h[2].v \in 1 .. 3 /\ ~(h[3].v > PadMax) /\ h[3].v = m
        <4>1. h[2].v = 1 \/ h[2].v = 2
          BY <2>6, <2>8
        <4>2. h[3].v = m /\ m <= PadMax /\ PadMax \in Nat
          BY <2>6, <2>8, <2>9 DEF MseAssumption
        <4> QED BY <4>1, <4>2
      <3>2. h = Decrypt(Before(buf["A"], 3), dec["A"])
        BY <1>1, <2>1, <2>2, <2>7
      <3>3. dec' = [dec EXCEPT !["A"] = dec["A"] + 3]
        BY <1>3 DEF AfterFoundVC
      <3> QED BY <1>1, <1>3, <2>1, <3>1, <3>2, <3>3 DEF AfterFoundVC, Become
    <2>11. /\ dec'["A"] = d + 3 /\ dec'["B"] = dec["B"]
           /\ state'["A"] = "wait_pad_d" /\ state'["B"] = state["B"]
           /\ padLen'["A"] = m /\ padLen'["B"] = padLen["B"]
      BY <1>t, <2>10 DEF MseTypeOK, Ends
    <2>12. Stream("A")' = Behind(c, 3) /\ buf'["B"] = buf["B"]
      <3>1. 3 \in 0 .. Len(buf["A"])
        BY <2>2, <2>4, LenProperties
      <3> QED BY <1>t, <1>1, <2>3, <2>10, <3>1, EatOf, OtherEnd DEF Ends
    <2>13. ~Over("A") /\ ~Over("A")' /\ Over("B")' = Over("B") /\ Dropped' = Dropped
      BY <1>1, <2>11 DEF Over, Dropped
    <2>14. TowardA'
      <3>1. (AnswerTail(offer, Dropped, enc["B"], sentShake["B"], Stream("A"), padLen["A"])
             /\ dec["A"] = Dropped + 3)'
        BY <1>1, <2>1, <2>6, <2>9, <2>11, <2>12, <2>13
      <3> QED BY <1>1, <2>11, <2>13, <3>1 DEF TowardA, Late
    <2>15. TowardB'
      BY <1>0, <1>1, <2>10, <2>11, <2>12, TowardBFrame
    <2>16. InStep'
      BY <1>0, <1>1, <2>11, <2>13 DEF InStep, Late
    <2>17. ShakesSent'
      BY <1>0, <1>1, <2>11, <2>13 DEF ShakesSent, Ends
    <2> QED BY <2>10, <2>14, <2>15, <2>16, <2>17 DEF ShakeInv
  <1> QED BY <1>2, <1>3

\* A skips the padding, and what is left is the session of B.
LEMMA AfterWaitPadDShakes ==
  ASSUME MseAssumption, ModeInv, ShakeInv, AfterWaitPadD
  PROVE  ShakeInv'
  <1>t. MseTypeOK
    BY DEF ModeInv
  <1>0. InStep /\ ShakesSent /\ TowardA /\ TowardB
    BY DEF ShakeInv
  <1>1. /\ state["A"] = "wait_pad_d" /\ state["B"] \in Late /\ offer.crypt
        /\ (full["A"] <=> Sealed(offer))
        /\ UNCHANGED <<wire, enc, full, padLen, iaLen, got, sentShake, link, offer>>
    BY <1>0 DEF AfterWaitPadD, At, Fixed, InStep, ModeInv, ModeA, Sealed, Full
  <1>2. CASE Len(buf["A"]) < padLen["A"]
    <2>1. UNCHANGED <<state, buf, dec>> /\ busy' = [busy EXCEPT !["A"] = FALSE]
      BY <1>2 DEF AfterWaitPadD, Return
    <2>2. busy'["B"] = busy["B"]
      BY <1>t, <2>1 DEF MseTypeOK, Ends
    <2> QED BY <1>1, <2>1, <2>2, BusyShakes
  <1>3. CASE ~(Len(buf["A"]) < padLen["A"])
    <2>1. PICK b \in Seq(Cells) : b = buf["A"]
      BY <1>t, StreamOf DEF Ends
    <2>2. PICK w \in Seq(Cells) : w = wire["A"]
      BY <1>t, StreamOf DEF Ends
    <2>3. PICK n \in Nat : n = dec["A"]
      BY <1>t DEF MseTypeOK, Ends
    <2>4. PICK k \in Nat : k = enc["B"]
      BY <1>t DEF MseTypeOK, Ends
    <2>5. PICK sent \in BOOLEAN : sent = sentShake["B"]
      BY <1>t DEF MseTypeOK, Ends
    <2>6. PICK m \in Nat : m = padLen["A"]
      BY <1>t DEF MseTypeOK, Ends, MseAssumption
    <2>7. m \in 0 .. Len(b)
      BY <1>3, <2>1, <2>6, LenProperties
    <2>8. PICK d \in Nat : d = Dropped
      BY <1>t, OfferOf
    <2>9. n = d + 3 /\ AnswerTail(offer, d, k, sent, b \o w, m)
      BY <1>0, <1>1, <2>1, <2>2, <2>3, <2>4, <2>5, <2>6, <2>8 DEF TowardA, Stream
    <2>10. /\ Session(b \o w, m, sent, FALSE) /\ SealedFrom(offer, b \o w, m, n + m)
           /\ (Sealed(offer) => k = n + Len(b \o w))
      BY <2>9 DEF AnswerTail
    <2>11. Talking(offer,
                   IF Sealed(offer) THEN Decrypt(Behind(b, m), n + m) ELSE Behind(b, m),
                   w, n + m + (IF Sealed(offer) THEN Len(Behind(b, m)) ELSE 0), k, sent, FALSE)
      BY <2>7, <2>10, TalkingBegins
    <2>12. Finish("A", m) /\ m <= Len(buf["A"])
      BY <1>3, <2>1, <2>6, <2>7 DEF AfterWaitPadD
    <2>13. /\ buf'["B"] = buf["B"] /\ dec'["B"] = dec["B"]
           /\ buf'["A"] = (IF full["A"] THEN Decrypt(Behind(b, m), n + m) ELSE Behind(b, m))
           /\ dec'["A"] = n + m + (IF full["A"] THEN Len(Behind(b, m)) ELSE 0)
           /\ state'["A"] = "finish" /\ state'["B"] = state["B"] /\ busy'["B"] = busy["B"]
      BY <1>t, <2>1, <2>3, <2>12, FinishOf, OtherEnd DEF Ends
    <2>14. ~Over("A") /\ Over("A")' /\ Over("B")' = Over("B") /\ Dropped' = Dropped
      BY <1>1, <2>13 DEF Over, Dropped
    <2>15. got["A"] = FALSE
      BY <1>t, <1>0, <2>14 DEF ShakesSent, Ends, MseTypeOK
    <2>16. InStep'
      BY <1>0, <1>1, <2>13, <2>14 DEF InStep, Late
    <2>17. Talking(offer, buf["A"], wire["A"], dec["A"], enc["B"], sentShake["B"], got["A"])'
      <3>1. Talking(offer, buf'["A"], w, dec'["A"], k, sent, FALSE)
        BY <1>1, <2>11, <2>13
      <3> QED BY <1>1, <2>2, <2>4, <2>5, <2>15, <3>1
    <2>18. TowardA'
      BY <2>14, <2>16, <2>17, TowardOver
    <2>19. TowardB'
      BY <1>0, <1>1, <2>13, TowardBFrame
    <2>20. ShakesSent'
      BY <1>0, <1>1, <2>13, <2>14 DEF ShakesSent, Ends
    <2> QED BY <1>1, <2>16, <2>18, <2>19, <2>20 DEF ShakeInv
  <1> QED BY <1>2, <1>3

\* The handshake of the other end is read, and answered if that is due.
LEMMA HearsShakes ==
  ASSUME MseAssumption, ModeInv, ShakeInv, NEW e \in Ends, Over(e), ~got[e], buf[e] # <<>>,
         Eat(e, 1), got' = [got EXCEPT ![e] = TRUE], Reply(e),
         UNCHANGED <<offer, busy, state, dec, padLen, iaLen, link>>
  PROVE  ShakeInv'
  <1>t. MseTypeOK
    BY DEF ModeInv
  <1>0. InStep /\ ShakesSent /\ TowardA /\ TowardB
    BY DEF ShakeInv
  <1>o. PICK o \in Ends : o = Other(e) /\ e # o
    BY OtherEnd
  <1>1. PICK b \in Seq(Cells) : b = buf[e]
    BY <1>t, StreamOf
  <1>2. PICK w \in Seq(Cells) : w = wire[e]
    BY <1>t, StreamOf
  <1>3. PICK n \in Nat : n = dec[e]
    BY <1>t DEF MseTypeOK
  <1>4. PICK k \in Nat : k = enc[o]
    BY <1>t DEF MseTypeOK
  <1>5. PICK sent \in BOOLEAN : sent = sentShake[o]
    BY <1>t DEF MseTypeOK
  <1>6. got[e] = FALSE
    BY <1>t DEF MseTypeOK
  <1>7. Talking(offer, b, w, n, k, sent, FALSE)
    <2>1. Talking(offer, buf[e], wire[e], dec[e], enc[o], sentShake[o], got[e])
      BY <1>0, <1>o DEF TowardA, TowardB, Ends, Other
    <2> QED BY <2>1, <1>1, <1>2, <1>3, <1>4, <1>5, <1>6
  <1>8. 1 <= Len(b) /\ Talking(offer, Behind(b, 1), w, n, k, sent, TRUE)
    <2>1. Talking(offer, b, w, n, k, sent, FALSE) /\ b # <<>>
      BY <1>1, <1>7
    <2> QED BY <2>1, TalkingShake
  <1>9. /\ wire'[e] = wire[e] /\ enc'[o] = enc[o] /\ sentShake'[o] = sentShake[o]
        /\ sentShake'[e] = TRUE
        /\ sentShake[e] => UNCHANGED <<wire, enc, sentShake>>
    <2>1. CASE sentShake[e]
      <3>1. UNCHANGED <<wire, enc, sentShake>>
        BY <2>1 DEF Reply, Talk
      <3>2. sentShake[e] = TRUE
        BY <1>t, <2>1 DEF MseTypeOK
      <3> QED BY <3>1, <3>2
    <2>2. CASE ~sentShake[e]
      <3>1. SendData(e, <<Plain("shake")>>) /\ sentShake' = [sentShake EXCEPT ![e] = TRUE]
        BY <2>2 DEF Reply, SendHandshake
      <3>2. wire'[e] = wire[e] /\ enc'[Other(e)] = enc[Other(e)]
        BY <1>t, <3>1, SaidCells, SentOf
      <3>3. sentShake'[e] = TRUE /\ sentShake'[o] = sentShake[o]
        BY <1>t, <1>o, <3>1 DEF MseTypeOK
      <3> QED BY <1>o, <2>2, <3>2, <3>3
    <2> QED BY <2>1, <2>2
  <1>10. buf'[e] = Behind(b, 1) /\ buf'[o] = buf[o]
    <2>1. 1 \in 0 .. Len(buf[e])
      BY <1>1, <1>8, LenProperties
    <2> QED BY <1>t, <1>1, <1>9, <1>o, <2>1, EatOf
  <1>11. got'[e] = TRUE /\ got'[o] = got[o]
    BY <1>t, <1>o DEF MseTypeOK
  <1>12. Over("A")' = Over("A") /\ Over("B")' = Over("B")
    BY DEF Over
  <1>13. InStep'
    <2>1. enc'["B"] = enc["B"] \/ state["B"] # "wait_pad_c"
      BY <1>0, <1>9, <1>o DEF InStep, Over, Ends, Other
    <2> QED BY <1>0, <2>1 DEF InStep, Dropped
  <1>14. IF e = "B" THEN TowardB' ELSE TowardA'
    <2>1. Talking(offer', buf'[e], wire'[e], dec'[e], enc'[o], sentShake'[o], got'[e])
      BY <1>2, <1>3, <1>4, <1>5, <1>8, <1>9, <1>10, <1>11
    <2>2. Over(e)'
      BY DEF Over
    <2> QED BY <1>13, <1>o, <2>1, <2>2, TowardOver DEF Ends, Other
  <1>15. IF e = "A" THEN TowardB' ELSE TowardA'
    <2>1. CASE sentShake[e]
      <3>1. UNCHANGED <<wire, enc, sentShake>>
        BY <1>9, <2>1
      <3>2. e = "A" => o = "B"
        BY <1>o, OtherEnd
      <3>3. e = "B" => o = "A"
        BY <1>o, OtherEnd
      <3> QED BY <1>0, <1>10, <1>11, <3>1, <3>2, <3>3, TowardAFrame, TowardBFrame DEF Ends
    <2>2. CASE ~sentShake[e]
      <3>1. SendData(e, <<Plain("shake")>>) /\ Speaks(Plain("shake"), sentShake[e])
        BY <2>2, SaidCells DEF Reply, SendHandshake, Speaks
      <3>2. buf'[Other(e)] = buf[Other(e)] /\ got'[Other(e)] = got[Other(e)]
        BY <1>o, <1>10, <1>11
      <3> QED BY <1>0, <1>9, <3>1, <3>2, SaidCells, OverSays
    <2> QED BY <2>1, <2>2
  <1>16. ShakesSent'
    <2>1. CASE e = "A"
      <3>1. /\ got'["B"] = got["B"] /\ sentShake'["B"] = sentShake["B"]
            /\ got'["A"] = TRUE /\ sentShake'["A"] = TRUE
        BY <1>9, <1>11, <1>o, <2>1, OtherEnd
      <3>2. offer.crypt => state["A"] = "finish"
        BY <2>1 DEF Over
      <3> QED BY <1>0, <1>12, <2>1, <3>1, <3>2 DEF ShakesSent, Ends
    <2>2. CASE e = "B"
      <3>1. /\ got'["A"] = got["A"] /\ sentShake'["A"] = sentShake["A"]
            /\ got'["B"] = TRUE /\ sentShake'["B"] = TRUE
        BY <1>9, <1>11, <1>o, <2>2, OtherEnd
      <3> QED BY <1>0, <1>12, <2>2, <3>1 DEF ShakesSent, Ends
    <2> QED BY <2>1, <2>2 DEF Ends
  <1> QED BY <1>13, <1>14, <1>15, <1>16 DEF ShakeInv, Ends

LEMMA CheckHandshakeShakes ==
  ASSUME MseAssumption, ModeInv, ShakeInv, NEW e \in Ends, CheckHandshake(e)
  PROVE  ShakeInv'
  <1>t. MseTypeOK /\ Settled
    BY DEF ModeInv
  <1>1. /\ Ready(e) /\ ~got[e] /\ buf[e] # <<>> /\ Eat(e, 1)
        /\ UNCHANGED <<offer, state, dec, padLen, iaLen>>
    BY DEF CheckHandshake, Fixed
  <1>2. Over(e)
    BY <1>t, <1>1, ReadyOf DEF Over, Ends
  <1>o. PICK o \in Ends : o = Other(e)
    BY OtherEnd
  <1>3. Head(buf[e]).what = "shake"
    <2>1. PICK b \in Seq(Cells) : b = buf[e]
      BY <1>t, StreamOf
    <2>2. PICK w \in Seq(Cells) : w = wire[e]
      BY <1>t, StreamOf
    <2>3. PICK n \in Nat : n = dec[e]
      BY <1>t DEF MseTypeOK
    <2>4. PICK k \in Nat : k = enc[o]
      BY <1>t DEF MseTypeOK
    <2>5. PICK sent \in BOOLEAN : sent = sentShake[o]
      BY <1>t DEF MseTypeOK
    <2>6. got[e] = FALSE
      BY <1>t, <1>1 DEF MseTypeOK
    <2>7. Talking(offer, buf[e], wire[e], dec[e], enc[o], sentShake[o], got[e])
      BY <1>2, <1>o DEF ShakeInv, TowardA, TowardB, Ends, Other
    <2>8. Talking(offer, b, w, n, k, sent, FALSE) /\ b # <<>>
      BY <2>1, <2>2, <2>3, <2>4, <2>5, <2>6, <2>7, <1>1
    <2>9. /\ sent /\ b[1].what = "shake" /\ b[1].key = 0 /\ 1 <= Len(b)
          /\ Talking(offer, Behind(b, 1), w, n, k, sent, TRUE)
      BY <2>8, TalkingShake
    <2> QED BY <2>1, <2>9
  <1>4. got' = [got EXCEPT ![e] = TRUE] /\ Reply(e) /\ UNCHANGED <<busy, link>>
    BY <1>3 DEF CheckHandshake
  <1> QED BY <1>1, <1>2, <1>4, HearsShakes

\* An end that has read the handshake finds nothing but messages.
LEMMA MessagesShakes ==
  ASSUME MseAssumption, ModeInv, ShakeInv, NEW e \in Ends, Messages(e)
  PROVE  ShakeInv'
  <1>t. MseTypeOK /\ Settled
    BY DEF ModeInv
  <1>0. InStep /\ ShakesSent /\ TowardA /\ TowardB
    BY DEF ShakeInv
  <1>1. Ready(e) /\ (got[e] \/ buf[e] = <<>>)
    BY DEF Messages
  <1>2. Over(e)
    BY <1>t, <1>0, <1>1, ReadyOf DEF Over, Ends, ShakesSent
  <1>3. /\ buf'[e] = <<>> /\ buf'[Other(e)] = buf[Other(e)] /\ busy'[Other(e)] = busy[Other(e)]
        /\ UNCHANGED <<wire, state, enc, dec, full, padLen, iaLen, got, sentShake, offer>>
    BY <1>t, MessagesOf
  <1>o. PICK o \in Ends : o = Other(e) /\ e # o
    BY OtherEnd
  <1>4. PICK b \in Seq(Cells) : b = buf[e]
    BY <1>t, StreamOf
  <1>5. PICK w \in Seq(Cells) : w = wire[e]
    BY <1>t, StreamOf
  <1>6. PICK n \in Nat : n = dec[e]
    BY <1>t DEF MseTypeOK
  <1>7. PICK k \in Nat : k = enc[o]
    BY <1>t DEF MseTypeOK
  <1>8. PICK sent \in BOOLEAN : sent = sentShake[o]
    BY <1>t DEF MseTypeOK
  <1>9. Talking(offer, buf[e], wire[e], dec[e], enc[o], sentShake[o], got[e])
    BY <1>0, <1>2, <1>o DEF TowardA, TowardB, Ends, Other
  <1>10. /\ \A i \in DOMAIN buf[e] : buf[e][i].what = "msg" /\ buf[e][i].key = 0
         /\ Talking(offer, <<>>, wire[e], dec[e], enc[o], sentShake[o], got[e])
    <2>1. CASE got[e]
      <3>1. got[e] = TRUE
        BY <1>t, <2>1 DEF MseTypeOK
      <3>2. Talking(offer, b, w, n, k, sent, TRUE)
        BY <1>4, <1>5, <1>6, <1>7, <1>8, <1>9, <3>1
      <3>3. /\ \A i \in 1 .. Len(b) : b[i].what = "msg" /\ b[i].key = 0
            /\ Talking(offer, <<>>, w, n, k, sent, TRUE)
        BY <3>2, TalkingRest
      <3>4. DOMAIN b = 1 .. Len(b)
        BY LenProperties
      <3> QED BY <1>4, <1>5, <1>6, <1>7, <1>8, <3>1, <3>3, <3>4
    <2>2. CASE ~got[e]
      <3>1. buf[e] = <<>> /\ DOMAIN buf[e] = {}
        BY <1>1, <2>2
      <3> QED BY <1>9, <3>1
    <2> QED BY <2>1, <2>2
  <1>11. link' = link
    BY <1>t, <1>10, MessagesOf
  <1>12. InStep' /\ ShakesSent'
    BY <1>0, <1>3, StandsFrame
  <1>13. IF e = "B" THEN TowardB' ELSE TowardA'
    <2>1. Talking(offer', buf'[e], wire'[e], dec'[e], enc'[o], sentShake'[o], got'[e])
      BY <1>3, <1>10
    <2>2. Over(e)'
      BY <1>2, <1>3 DEF Over
    <2> QED BY <1>12, <1>o, <2>1, <2>2, TowardOver DEF Ends, Other
  <1>14. e = "A" => TowardB'
    BY <1>0, <1>3, TowardBFrame, OtherEnd
  <1>15. e = "B" => TowardA'
    BY <1>0, <1>3, TowardAFrame, OtherEnd
  <1> QED BY <1>11, <1>12, <1>13, <1>14, <1>15 DEF ShakeInv, Ends

\* What stands first for B, if A encrypts, is the key of A.
LEMMA FirstForB ==
  ASSUME ModeInv, ShakeInv, offer.crypt, state["B"] \in {"new", "init"},
         buf["B"] # <<>>
  PROVE  /\ state["A"] = "send_pub" /\ Head(buf["B"]).what # "shake"
  <1>t. MseTypeOK
    BY DEF ModeInv
  <1>0. InStep /\ TowardB
    BY DEF ShakeInv
  <1>1. PICK b \in Seq(Cells) : b = buf["B"]
    BY <1>t, StreamOf DEF Ends
  <1>2. 1 <= Len(b)
    BY <1>1, LenProperties, EmptySeq
  <1>3. PICK c \in Seq(Cells) : c = Stream("B")
    BY <1>t, StreamOf DEF Ends
  <1>4. c[1] = b[1] /\ c # <<>>
    <2>1. /\ Len(wire["B"]) \in Nat /\ Len(b) \in Nat /\ Len(c) = Len(b) + Len(wire["B"])
          /\ \A i \in 1 .. Len(b) : c[i] = b[i]
      BY <1>t, <1>1, <1>3, StreamOf DEF Ends
    <2>2. PICK l \in Nat : l = Len(b)
      BY <2>1
    <2>3. PICK m \in Nat : m = Len(wire["B"])
      BY <2>1
    <2>4. Len(c) # 0
      BY <1>2, <2>1, <2>2, <2>3
    <2>5. 1 \in 1 .. Len(b)
      BY <1>2, <2>1
    <2> QED BY <2>1, <2>4, <2>5
  <1>5. state["A"] = "send_pub"
    BY <1>0, <1>3, <1>4 DEF TowardB, InStep, Late
  <1>6. c[1].what \in {"pub", "pub2", "pad"}
    <2>1. Lead(c, Len(c))
      BY <1>0, <1>3, <1>5 DEF TowardB
    <2> QED BY <2>1 DEF Lead
  <1> QED BY <1>1, <1>2, <1>4, <1>5, <1>6

LEMMA CheckAcceptedShakeHandShakes ==
  ASSUME MseAssumption, ModeInv, ShakeInv, CheckAcceptedShakeHand
  PROVE  ShakeInv'
  <1>1. /\ busy["B"] /\ state["B"] = "new" /\ ~got["B"] /\ Head(buf["B"]).what = "shake"
        /\ got' = [got EXCEPT !["B"] = TRUE] /\ Eat("B", 1) /\ SendHandshake("B")
        /\ UNCHANGED <<offer, busy, state, dec, padLen, iaLen, link>>
    BY DEF CheckAcceptedShakeHand, At, Fixed
  <1>2. buf["B"] # <<>>
    BY <1>1 DEF ModeInv, Settled
  <1>3. Over("B")
    BY <1>1, <1>2, FirstForB DEF Over
  <1>4. ~sentShake["B"]
    BY <1>1 DEF ShakeInv, ShakesSent
  <1>5. Reply("B")
    BY <1>1, <1>4 DEF Reply
  <1> QED BY <1>1, <1>2, <1>3, <1>5, HearsShakes DEF Ends

LEMMA AfterConfirmEncryptShakes ==
  ASSUME MseAssumption, ModeInv, ShakeInv, AfterConfirmEncrypt
  PROVE  ShakeInv'
  <1>t. MseTypeOK
    BY DEF ModeInv
  <1>0. InStep /\ ShakesSent /\ TowardA /\ TowardB
    BY DEF ShakeInv
  <1>1. /\ busy["B"] /\ state["B"] \in {"new", "init"} /\ ~got["B"]
        /\ Head(buf["B"]).what # "shake"
        /\ busy' = [busy EXCEPT !["B"] = FALSE]
        /\ UNCHANGED <<offer, buf, enc, dec, full, padLen, iaLen, got, sentShake, link>>
    BY DEF AfterConfirmEncrypt, At, Return, Fixed
  <1>2. buf["B"] # <<>>
    BY <1>1 DEF ModeInv, Settled
  <1>3. offer.crypt
    <2>1. SUFFICES ASSUME ~offer.crypt PROVE FALSE
      OBVIOUS
    <2>2. PICK b \in Seq(Cells) : b = buf["B"]
      BY <1>t, StreamOf DEF Ends
    <2>3. PICK w \in Seq(Cells) : w = wire["B"]
      BY <1>t, StreamOf DEF Ends
    <2>4. PICK n \in Nat : n = dec["B"]
      BY <1>t DEF MseTypeOK, Ends
    <2>5. PICK k \in Nat : k = enc["A"]
      BY <1>t DEF MseTypeOK, Ends
    <2>6. PICK sent \in BOOLEAN : sent = sentShake["A"]
      BY <1>t DEF MseTypeOK, Ends
    <2>7. got["B"] = FALSE
      BY <1>t, <1>1 DEF MseTypeOK, Ends
    <2>8. Talking(offer, b, w, n, k, sent, FALSE) /\ b # <<>>
      BY <1>0, <1>2, <2>1, <2>2, <2>3, <2>4, <2>5, <2>6, <2>7 DEF TowardB, Over
    <2>9. /\ sent /\ b[1].what = "shake" /\ b[1].key = 0 /\ 1 <= Len(b)
          /\ Talking(offer, Behind(b, 1), w, n, k, sent, TRUE)
      BY <2>8, TalkingShake
    <2> QED BY <1>1, <2>2, <2>9
  <1>4. state["A"] = "send_pub"
    BY <1>1, <1>2, <1>3, FirstForB
  <1>5. Stream("A") = <<>> /\ Lead(Stream("B"), Len(Stream("B")))
    BY <1>0, <1>1, <1>3, <1>4 DEF TowardA, TowardB
  <1>6. ~Over("A") /\ ~Over("B")
    BY <1>1, <1>3, <1>4 DEF Over
  <1>7. CASE Len(buf["B"]) < 2
    <2>1. state' = [state EXCEPT !["B"] = "init"] /\ wire' = wire
      BY <1>7 DEF AfterConfirmEncrypt, Become
    <2>2. state'["B"] = "init" /\ state'["A"] = "send_pub"
      BY <1>t, <1>4, <2>1 DEF MseTypeOK, Ends
    <2>3. ~Over("A")' /\ ~Over("B")' /\ Stream("A")' = <<>> /\ Stream("B")' = Stream("B")
      BY <1>1, <1>3, <1>5, <2>1, <2>2 DEF Over, Stream
    <2>4. Lead(Stream("B"), Len(Stream("B")))'
      BY <1>5, <2>3
    <2>5. TowardB' /\ TowardA'
      BY <2>2, <2>3, <2>4 DEF TowardA, TowardB, Late
    <2>6. InStep'
      BY <1>1, <1>3, <2>2 DEF InStep, Early
    <2>7. ShakesSent'
      BY <1>0, <1>1, <1>3, <1>4, <1>6, <2>2 DEF ShakesSent, Ends
    <2> QED BY <1>1, <2>5, <2>6, <2>7 DEF ShakeInv
  <1>8. CASE ~(Len(buf["B"]) < 2)
    <2>1. PICK n \in Pads : Put("B", KeyCells(n))
      BY <1>8 DEF AfterConfirmEncrypt, KeyCells
    <2>2. state' = [state EXCEPT !["B"] = "send_pub"]
      BY <1>8 DEF AfterConfirmEncrypt, Become
    <2>3. state'["B"] = "send_pub" /\ state'["A"] = "send_pub"
      BY <1>t, <1>4, <2>2 DEF MseTypeOK, Ends
    <2>4. KeyCells(n) \in Seq(Cells) /\ Lead(KeyCells(n), Len(KeyCells(n)))
      BY LeadKey
    <2>5. wire'["B"] = wire["B"] /\ wire'["A"] = wire["A"] \o KeyCells(n)
      BY <1>t, <2>1, <2>4, PutOf, OtherEnd DEF Ends
    <2>6. Stream("A")' = KeyCells(n)
      <3>1. Stream("A")' = Stream("A") \o KeyCells(n)
        BY <1>t, <1>1, <2>4, <2>5, PutStream DEF Ends
      <3>2. PICK K \in Seq(Cells) : K = KeyCells(n)
        BY <2>4
      <3>3. <<>> \o K = K
        OBVIOUS
      <3> QED BY <1>5, <3>1, <3>2, <3>3
    <2>7. ~Over("A")' /\ ~Over("B")' /\ Stream("B")' = Stream("B")
      BY <1>1, <1>3, <2>3, <2>5 DEF Over, Stream
    <2>8. Lead(Stream("B"), Len(Stream("B")))' /\ Lead(Stream("A"), Len(Stream("A")))'
      BY <1>5, <2>4, <2>6, <2>7
    <2>9. TowardB' /\ TowardA'
      BY <2>3, <2>7, <2>8 DEF TowardA, TowardB, Late
    <2>10. InStep'
      BY <1>1, <1>3, <2>3 DEF InStep, Early
    <2>11. ShakesSent'
      BY <1>0, <1>1, <1>3, <1>4, <1>6, <2>3 DEF ShakesSent, Ends
    <2> QED BY <1>1, <2>9, <2>10, <2>11 DEF ShakeInv
  <1> QED BY <1>7, <1>8

\* B finds HASH(req1) exactly where the request of A begins.
LEMMA AfterSendPubBShakes ==
  ASSUME MseAssumption, ModeInv, ShakeInv, AfterSendPubB
  PROVE  ShakeInv'
  <1>t. MseTypeOK
    BY DEF ModeInv
  <1>0. InStep /\ ShakesSent /\ TowardA /\ TowardB
    BY DEF ShakeInv
  <1>1. PICK x : x = Plain("req1")
    OBVIOUS
  <1>2. x.what = "req1" /\ x.key = 0 /\ x.what \notin Leading
    BY <1>1 DEF Leading, Plain, Value
  <1>3. /\ state["B"] = "send_pub" /\ offer.crypt /\ state["A"] \in {"send_pub", "got_pub"}
        /\ UNCHANGED <<wire, enc, dec, full, padLen, iaLen, got, sentShake, offer>>
    BY <1>0 DEF AfterSendPubB, At, Fixed, InStep, Late
  <1>4. IF Positions("B", x) # {}
        THEN /\ state' = [state EXCEPT !["B"] = "found_req1"]
             /\ Eat("B", FirstAt(Positions("B", x)) - 1)
             /\ UNCHANGED <<busy, link>>
        ELSE /\ IF TooLong("B") THEN Close("B", "protocol") ELSE link' = link
             /\ busy' = [busy EXCEPT !["B"] = FALSE]
             /\ UNCHANGED <<state, buf>>
    BY <1>1 DEF AfterSendPubB, Become, Return
  <1>5. PICK c \in Seq(Cells) : c = Stream("B")
    BY <1>t, StreamOf DEF Ends
  <1>6. CASE state["A"] = "got_pub"
    <2>1. PICK j \in 2 .. PadMax + 1 : Lead(c, j) /\ Requested(Ia, Dropped, enc["A"], Behind(c, j))
      BY <1>0, <1>3, <1>5, <1>6 DEF TowardB
    <2>2. PICK s \in Seq(Cells) : s = Behind(c, j)
      BY <2>1, BehindOf DEF Lead
    <2>3. /\ Len(s) \in Nat /\ 2 <= Len(s) /\ s[1].what = x.what /\ s[1].key = x.key
      BY <1>2, <2>1, <2>2, LenProperties DEF Requested
    <2>4. j \in Nat
      BY DEF MseAssumption
    <2>5. IF Positions("B", x) # {} THEN FirstAt(Positions("B", x)) - 1 = j ELSE ~TooLong("B")
      <3>1. Lead(Stream("B"), j) /\ s = Behind(Stream("B"), j)
        BY <1>5, <2>1, <2>2
      <3> QED BY <1>t, <1>2, <2>3, <2>4, <3>1, FoundBehind DEF Ends
    <2>6. CASE Positions("B", x) # {}
      <3>1. j \in 0 .. Len(buf["B"]) /\ Eat("B", j)
        BY <1>t, <1>4, <2>5, <2>6, PlaceOf DEF Ends
      <3>2. /\ Stream("B")' = Behind(Stream("B"), j) /\ buf'["A"] = buf["A"]
        BY <1>t, <1>3, <3>1, EatOf, OtherEnd DEF Ends
      <3>3. Stream("B")' = s
        BY <1>5, <2>2, <3>2
      <3>4. state'["B"] = "found_req1" /\ state'["A"] = state["A"] /\ busy' = busy /\ link' = link
        BY <1>t, <1>4, <2>6 DEF MseTypeOK, Ends
      <3>5. ~Over("A") /\ ~Over("B") /\ ~Over("B")' /\ ~Over("A")'
        BY <1>3, <3>4 DEF Over
      <3>6. TowardB'
        <4>1. Dropped' = Dropped /\ Ia' = Ia
          BY <1>3 DEF Dropped, Ia
        <4>2. Requested(Ia, Dropped, enc["A"], Stream("B"))'
          BY <1>3, <2>1, <2>2, <3>3, <4>1
        <4> QED BY <1>6, <3>4, <3>5, <4>2 DEF TowardB, Late
      <3>7. TowardA'
        BY <1>0, <1>3, <3>2, <3>4, TowardAFrame
      <3>8. InStep'
        BY <1>0, <1>3, <1>6, <3>4 DEF InStep, Late
      <3>9. ShakesSent'
        BY <1>0, <1>3, <3>4, <3>5 DEF ShakesSent, Ends
      <3> QED BY <3>4, <3>6, <3>7, <3>8, <3>9 DEF ShakeInv
    <2>7. CASE Positions("B", x) = {}
      <3>1. link' = link /\ UNCHANGED <<state, buf>>
        BY <1>t, <1>4, <2>5, <2>7
      <3> QED BY <1>3, <3>1, BusyShakes
    <2> QED BY <2>6, <2>7
  <1>7. CASE state["A"] = "send_pub"
    <2>1. Lead(Stream("B"), Len(Stream("B")))
      BY <1>0, <1>7 DEF TowardB
    <2>2. Positions("B", x) = {} /\ ~TooLong("B")
      BY <1>t, <1>2, <2>1, NothingBehind DEF Ends
    <2>3. link' = link /\ UNCHANGED <<state, buf>>
      BY <1>4, <2>2
    <2> QED BY <1>3, <2>3, BusyShakes
  <1> QED BY <1>3, <1>6, <1>7

\* What B decrypts of the request, wherever A is in its keystream.
LEMMA SecretCells ==
  ASSUME NEW b \in Seq(Cells), 5 <= Len(b), NEW d \in Nat,
         \A i \in 1 .. 3 : b[i + 2].key = d + i
  PROVE  /\ SubSeq(b, 3, 5)[1].key = d + 1
         /\ \A i \in 1 .. 3 : /\ Decrypt(SubSeq(b, 3, 5), d)[i].what = b[i + 2].what
                              /\ Decrypt(SubSeq(b, 3, 5), d)[i].v = b[i + 2].v
  <1>1. PICK l \in Nat : l = Len(b)
    BY LenProperties
  <1>2. \A i \in 3 .. 5 : b[i] \in Cells
    <2>1. ASSUME NEW i \in 3 .. 5 PROVE i \in 1 .. Len(b)
      BY <1>1
    <2> QED BY <2>1, ElementOfSeq
  <1>3. PICK s : s = SubSeq(b, 3, 5)
    OBVIOUS
  <1>4. /\ s \in Seq(Cells) /\ Len(s) = 3
        /\ \A i \in 1 .. 3 : s[i] = b[i + 2]
    <2>1. 3 \in Int /\ 5 \in Int
      OBVIOUS
    <2>2. /\ s \in Seq(Cells)
          /\ Len(s) = (IF 3 <= 5 THEN 5 - 3 + 1 ELSE 0)
          /\ \A i \in 1 .. (5 - 3 + 1) : s[i] = b[3 + i - 1]
      BY <1>2, <1>3, <2>1, SubSeqProperties
    <2>3. 5 - 3 + 1 = 3 /\ \A i \in 1 .. 3 : 3 + i - 1 = i + 2
      OBVIOUS
    <2> QED BY <2>2, <2>3
  <1>5. \A i \in 1 .. Len(s) : s[i].key = d + i
    BY <1>4
  <1>6. /\ Decrypt(s, d) \in Seq(Cells) /\ Len(Decrypt(s, d)) = Len(s)
        /\ \A i \in 1 .. Len(s) : /\ Decrypt(s, d)[i].what = s[i].what
                                  /\ Decrypt(s, d)[i].v = s[i].v
                                  /\ Decrypt(s, d)[i].key = 0
    BY <1>4, <1>5, Opens
  <1> QED BY <1>3, <1>4, <1>5, <1>6

LEMMA AfterFoundReq1Shakes ==
  ASSUME MseAssumption, ModeInv, ShakeInv, AfterFoundReq1
  PROVE  ShakeInv'
  <1>t. MseTypeOK
    BY DEF ModeInv
  <1>0. InStep /\ ShakesSent /\ TowardA /\ TowardB
    BY DEF ShakeInv
  <1>1. /\ state["B"] = "found_req1" /\ offer.crypt /\ state["A"] = "got_pub"
        /\ UNCHANGED <<wire, iaLen, got, sentShake, offer>>
    BY <1>0 DEF AfterFoundReq1, At, Fixed, InStep, Early, Late
  <1>2. CASE Len(buf["B"]) < 5
    <2>1. UNCHANGED <<state, buf, enc, dec, full, padLen, link>>
      BY <1>2 DEF AfterFoundReq1
    <2> QED BY <1>1, <2>1, BusyShakes
  <1>3. CASE ~(Len(buf["B"]) < 5)
    <2>1. PICK d \in Nat : d = Dropped
      BY <1>t, OfferOf
    <2>2. PICK b \in Seq(Cells) : b = buf["B"]
      BY <1>t, StreamOf DEF Ends
    <2>3. PICK c \in Seq(Cells) : c = Stream("B")
      BY <1>t, StreamOf DEF Ends
    <2>4. 5 <= Len(b) /\ \A i \in 1 .. Len(b) : c[i] = b[i]
      <3>1. Len(buf["B"]) \in Nat /\ \A i \in 1 .. Len(buf["B"]) : Stream("B")[i] = buf["B"][i]
        BY <1>t, StreamOf DEF Ends
      <3> QED BY <1>3, <2>2, <2>3, <3>1
    <2>5. Requested(Ia, d, enc["A"], c)
      BY <1>0, <1>1, <2>1, <2>3 DEF TowardB
    <2>6. /\ b[3].key = d + 1 /\ b[4].key = d + 2 /\ b[5].key = d + 3
          /\ b[3].what = "vc" /\ b[5].v <= PadMax
          /\ RequestTail(Ia, d, enc["A"], Behind(c, 5), b[5].v)
      <3>1. b[3] = c[3] /\ b[4] = c[4] /\ b[5] = c[5]
        BY <2>4, LenProperties
      <3> QED BY <2>5, <3>1 DEF Requested
    <2>7. PICK secret : secret = SubSeq(b, 3, 5)
      OBVIOUS
    <2>8. PICK start : start = IF secret[1].key = 1 THEN 0 ELSE Skip
      OBVIOUS
    <2>9. PICK head : head = Decrypt(secret, start)
      OBVIOUS
    <2>10. /\ secret[1].key = d + 1
           /\ \A i \in 1 .. 3 : /\ Decrypt(secret, d)[i].what = b[i + 2].what
                                /\ Decrypt(secret, d)[i].v = b[i + 2].v
      <3>1. \A i \in 1 .. 3 : b[i + 2].key = d + i
        <4>1. SUFFICES ASSUME NEW i \in 1 .. 3 PROVE b[i + 2].key = d + i
          OBVIOUS
        <4>2. \/ i = 1 /\ i + 2 = 3
              \/ i = 2 /\ i + 2 = 4
              \/ i = 3 /\ i + 2 = 5
          OBVIOUS
        <4> QED BY <2>6, <4>2
      <3> QED BY <2>4, <2>7, <3>1, SecretCells
    <2>11. start = d
      <3>1. Skip \in Nat
        BY DEF MseAssumption
      <3> QED BY <2>1, <2>8, <2>10, <3>1 DEF Dropped
    <2>12. head[1].what = "vc" /\ head[3].v = b[5].v /\ head[3].v <= PadMax
      <3>1. head[1].what = b[1 + 2].what /\ head[3].v = b[3 + 2].v
        BY <2>9, <2>10, <2>11
      <3>2. 1 + 2 = 3 /\ 3 + 2 = 5
        OBVIOUS
      <3> QED BY <2>6, <3>1, <3>2
    <2>13. PICK m \in Nat : m = b[5].v
      <3>1. b[5] \in Cells
        BY <2>4
      <3> QED BY <3>1 DEF Cells
    <2>14. ~(head[3].v > PadMax) /\ head[3].v = m
      <3>1. PadMax \in Nat
        BY DEF MseAssumption
      <3> QED BY <2>12, <2>13, <3>1
    <2>15. \/ /\ link' = [link EXCEPT !["B"] = "refused"]
              /\ UNCHANGED <<state, buf, enc, dec, full, padLen>>
           \/ /\ dec' = [dec EXCEPT !["B"] = d + 3]
              /\ enc' = [enc EXCEPT !["B"] = d]
              /\ padLen' = [padLen EXCEPT !["B"] = m]
              /\ Eat("B", 5)
              /\ state' = [state EXCEPT !["B"] = "wait_pad_c"]
              /\ UNCHANGED <<busy, link>>
      BY <1>3, <2>2, <2>7, <2>8, <2>9, <2>11, <2>12, <2>14 DEF AfterFoundReq1, Become, Return, Close
    <2>16. CASE /\ link' = [link EXCEPT !["B"] = "refused"]
                /\ UNCHANGED <<state, buf, enc, dec, full, padLen>>
      <3>1. \A e \in Ends : link'[e] # "protocol"
        BY <1>t, <2>16 DEF ShakeInv, MseTypeOK
      <3> QED BY <1>1, <2>16, <3>1, RefusedShakes
    <2>17. CASE /\ dec' = [dec EXCEPT !["B"] = d + 3]
                /\ enc' = [enc EXCEPT !["B"] = d]
                /\ padLen' = [padLen EXCEPT !["B"] = m]
                /\ Eat("B", 5)
                /\ state' = [state EXCEPT !["B"] = "wait_pad_c"]
                /\ UNCHANGED <<busy, link>>
      <3>1. /\ dec'["B"] = d + 3 /\ dec'["A"] = dec["A"]
            /\ enc'["B"] = d /\ enc'["A"] = enc["A"]
            /\ padLen'["B"] = m /\ padLen'["A"] = padLen["A"]
            /\ state'["B"] = "wait_pad_c" /\ state'["A"] = "got_pub"
        BY <1>t, <1>1, <2>17 DEF MseTypeOK, Ends
      <3>2. Stream("B")' = Behind(c, 5) /\ buf'["A"] = buf["A"]
        <4>1. 5 \in 0 .. Len(buf["B"])
          BY <2>2, <2>4, LenProperties
        <4> QED BY <1>t, <1>1, <2>3, <2>17, <4>1, EatOf, OtherEnd DEF Ends
      <3>3. /\ ~Over("A") /\ ~Over("B") /\ ~Over("A")' /\ ~Over("B")'
            /\ Dropped' = d /\ Ia' = Ia
        BY <1>1, <2>1, <3>1 DEF Over, Dropped, Ia
      <3>4. TowardB'
        <4>1. (/\ RequestTail(Ia, Dropped, enc["A"], Stream("B"), padLen["B"])
               /\ dec["B"] = Dropped + 3)'
          BY <2>6, <2>13, <3>1, <3>2, <3>3
        <4> QED BY <3>1, <3>3, <4>1 DEF TowardB
      <3>5. TowardA'
        BY <1>0, <1>1, <3>1, <3>2, <3>3, TowardAFrame DEF Late
      <3>6. InStep'
        BY <1>1, <3>1, <3>3 DEF InStep, Late
      <3>7. ShakesSent'
        BY <1>0, <1>1, <3>1, <3>3 DEF ShakesSent, Ends
      <3>8. \A e \in Ends : link'[e] # "protocol"
        BY <2>17 DEF ShakeInv
      <3> QED BY <3>4, <3>5, <3>6, <3>7, <3>8 DEF ShakeInv
    <2> QED BY <2>15, <2>16, <2>17
  <1> QED BY <1>2, <1>3

\* The answer is what A waits for.
LEMMA AnsweredOf ==
  ASSUME MseTypeOK, NEW n \in Nat, n <= PadMax, NEW d \in Nat
  PROVE  /\ Encrypt(SecretB(n), d) \in Seq(Cells) /\ Len(SecretB(n)) \in Nat
         /\ Answered(offer, d, d + Len(SecretB(n)), FALSE, Encrypt(SecretB(n), d))
  <1>2. PICK x : x = Encrypt(SecretB(n), d)
    OBVIOUS
  <1>3. /\ x \in Seq(Cells) /\ Len(x) = n + 3 /\ Len(SecretB(n)) = n + 3
        /\ x[1].what = "vc" /\ x[2].v = Selected /\ x[3].v = n
        /\ \A i \in 1 .. (n + 3) : x[i].key = d + i
    <2>1. Selected \in Nat
      BY DEF Selected
    <2>2. PICK h : h = <<Plain("vc"), Value("select", Selected), Value("len", n)>>
      OBVIOUS
    <2>3. /\ h \in Seq(Cells) /\ Len(h) = 3
          /\ h[1].what = "vc" /\ h[2].v = Selected /\ h[3].v = n
      BY <2>1, <2>2 DEF Plain, Value, Cells, Whats
    <2>4. h \in Seq(Cells)
      BY <2>3
    <2>5. PICK y : y = h \o Padding(n)
      OBVIOUS
    <2>6. y \in Seq(Cells) /\ Len(y) = n + 3 /\ (\A i \in 1 .. 3 : y[i] = h[i])
      BY <2>3, <2>4, <2>5, HeadOf
    <2>7. y \in Seq(Cells) /\ y = SecretB(n)
      BY <2>2, <2>5, <2>6 DEF SecretB
    <2>8. /\ Encrypt(y, d) \in Seq(Cells) /\ Len(Encrypt(y, d)) = Len(y)
          /\ \A i \in 1 .. Len(y) : /\ Encrypt(y, d)[i].what = y[i].what
                                    /\ Encrypt(y, d)[i].v = y[i].v
                                    /\ Encrypt(y, d)[i].key = d + i
      BY <2>7, EncryptOf
    <2>9. /\ x \in Seq(Cells) /\ Len(x) = n + 3
          /\ \A i \in 1 .. (n + 3) : x[i].what = y[i].what /\ x[i].v = y[i].v /\ x[i].key = d + i
      BY <1>2, <2>6, <2>7, <2>8
    <2>10. \A i \in 1 .. 3 : x[i].what = h[i].what /\ x[i].v = h[i].v
      BY <2>6, <2>9
    <2>11. x[1].what = "vc" /\ x[2].v = Selected /\ x[3].v = n
      <3>1. 1 \in 1 .. 3 /\ 2 \in 1 .. 3 /\ 3 \in 1 .. 3
        OBVIOUS
      <3> QED BY <2>3, <2>10, <3>1
    <2>12. Len(SecretB(n)) = n + 3
      BY <2>6, <2>7
    <2> QED BY <2>9, <2>11, <2>12
  <1>4. PICK c : c = Behind(x, 3)
    OBVIOUS
  <1>5. c \in Seq(Cells) /\ Len(c) = n
    <2>1. 3 \in 0 .. Len(x)
      BY <1>3
    <2>2. c \in Seq(Cells) /\ Len(c) = Len(x) - 3
      BY <1>3, <1>4, <2>1, BehindOf
    <2> QED BY <1>3, <2>2
  <1>6. AnswerTail(offer, d, d + Len(SecretB(n)), FALSE, c, n)
    <2>1. Session(c, n, FALSE, FALSE)
      BY <1>5 DEF Session
    <2>2. SealedFrom(offer, c, n, d + 3 + n)
      BY <1>5 DEF SealedFrom
    <2>3. d + Len(SecretB(n)) = d + 3 + Len(c)
      BY <1>3, <1>5
    <2>4. Len(c) >= n
      BY <1>5
    <2> QED BY <2>1, <2>2, <2>3, <2>4 DEF AnswerTail
  <1>7. x[1].key = d + 1 /\ x[2].key = d + 2 /\ x[3].key = d + 3 /\ Len(x) >= 3
    BY <1>3
  <1>8. x[2].v \in {1, 2}
    BY <1>3 DEF Selected
  <1>9. Answered(offer, d, d + Len(SecretB(n)), FALSE, x)
    BY <1>3, <1>4, <1>6, <1>7, <1>8 DEF Answered
  <1>10. Len(SecretB(n)) \in Nat /\ x \in Seq(Cells)
    BY <1>3
  <1> QED BY <1>2, <1>9, <1>10, Zenon

\* What is left of the request once the padding and the length are read.
LEMMA RequestRest ==
  ASSUME NEW c \in Seq(Cells), NEW ia \in Nat, NEW d \in Nat, NEW k \in Nat, NEW m \in Nat,
         ia = 0 \/ ia = 1, RequestTail(ia, d, k, c, m)
  PROVE  /\ m + 1 \in 0 .. Len(c) /\ Behind(c, m + 1) \in Seq(Cells)
         /\ Len(Behind(c, m + 1)) = ia /\ Len(c) = m + 1 + ia
         /\ c[m + 1].what = "ialen" /\ c[m + 1].v = ia /\ c[m + 1].key = d + 3 + (m + 1)
         /\ ia = 1 => /\ Behind(c, m + 1)[1].what = "shake"
                      /\ Behind(c, m + 1)[1].key = d + 3 + (m + 1) + 1
         /\ k = d + 3 + (m + 1) + Len(Behind(c, m + 1))
  <1>0. PICK r : r = Behind(c, m + 1)
    OBVIOUS
  <1>1. /\ Len(c) = m + 1 + ia
        /\ \A i \in 1 .. Len(c) : c[i].key = d + 3 + i
        /\ c[m + 1].what = "ialen" /\ c[m + 1].v = ia
        /\ ia = 1 => c[m + 2].what = "shake"
        /\ k = d + 3 + Len(c)
    BY DEF RequestTail
  <1>2. m + 1 \in Nat /\ m + 1 \in 0 .. Len(c) /\ m + 1 \in 1 .. Len(c)
    BY <1>1
  <1>3. PICK s \in Nat : s = m + 1
    OBVIOUS
  <1>4. /\ r \in Seq(Cells) /\ Len(r) = Len(c) - s
        /\ \A i \in 1 .. (Len(c) - s) : r[i] = c[s + i]
    BY <1>0, <1>2, <1>3, BehindOf
  <1>5. Len(r) = ia
    <2>1. PICK l \in Nat : l = Len(c)
      BY LenProperties
    <2>2. l = s + ia /\ Len(r) = l - s
      BY <1>1, <1>3, <1>4, <2>1
    <2>3. l - s = ia
      BY <2>2
    <2> QED BY <2>2, <2>3
  <1>6. c[m + 1].key = d + 3 + (m + 1)
    BY <1>1, <1>2
  <1>7. ia = 1 => r[1].what = "shake" /\ r[1].key = d + 3 + (m + 1) + 1
    <2>1. SUFFICES ASSUME ia = 1 PROVE r[1].what = "shake" /\ r[1].key = d + 3 + (m + 1) + 1
      OBVIOUS
    <2>2. Len(c) - s = 1 /\ s + 1 = m + 2 /\ m + 2 \in 1 .. Len(c)
      BY <1>1, <1>3, <2>1
    <2>3. r[1] = c[m + 2]
      <3>1. 1 \in 1 .. (Len(c) - s)
        BY <2>2
      <3>2. r[1] = c[s + 1]
        BY <1>4, <3>1
      <3> QED BY <2>2, <3>2
    <2>4. c[m + 2].key = d + 3 + (m + 2)
      BY <1>1, <2>2
    <2> QED BY <1>1, <2>1, <2>3, <2>4
  <1>9. k = d + 3 + (m + 1) + Len(r)
    BY <1>1, <1>5
  <1> QED BY <1>0, <1>1, <1>2, <1>4, <1>5, <1>6, <1>7, <1>9

LEMMA NotLonger ==
  ASSUME MseTypeOK, NEW e \in Ends
  PROVE  Len(buf[e]) <= Len(Stream(e))
  <1>1. /\ Len(Stream(e)) = Len(buf[e]) + Len(wire[e])
        /\ Len(buf[e]) \in Nat /\ Len(wire[e]) \in Nat
    BY StreamOf
  <1>2. PICK u \in Nat, v \in Nat : u = Len(buf[e]) /\ v = Len(wire[e])
    BY <1>1
  <1>3. u <= u + v
    OBVIOUS
  <1>4. Len(Stream(e)) = u + v
    BY <1>1, <1>2
  <1> QED BY <1>2, <1>3, <1>4

\* B knows how much padding to skip, reads whether the handshake of A comes
\* along, and answers.
LEMMA AfterWaitPadCShakes ==
  ASSUME MseAssumption, ModeInv, ShakeInv, AfterWaitPadC
  PROVE  ShakeInv'
  <1>t. MseTypeOK
    BY DEF ModeInv
  <1>0. InStep /\ ShakesSent /\ TowardA /\ TowardB
    BY DEF ShakeInv
  <1>1. /\ state["B"] = "wait_pad_c" /\ busy["B"] /\ offer.crypt /\ state["A"] = "got_pub"
        /\ UNCHANGED <<full, padLen, got, sentShake, offer>>
    BY <1>0 DEF AfterWaitPadC, At, Fixed, InStep, Early, Late
  <1>2. PICK m \in Nat : m = padLen["B"]
    BY <1>t DEF MseTypeOK, Ends, MseAssumption
  <1>3. CASE Len(buf["B"]) < m + 1
    <2>1. UNCHANGED <<state, buf, wire, enc, dec, iaLen, link>>
      BY <1>2, <1>3 DEF AfterWaitPadC
    <2> QED BY <1>1, <2>1, BusyShakes
  <1>4. CASE ~(Len(buf["B"]) < m + 1)
    <2>1. PICK d \in Nat : d = Dropped
      BY <1>t, OfferOf
    <2>2. PICK b \in Seq(Cells) : b = buf["B"]
      BY <1>t, StreamOf DEF Ends
    <2>3. PICK c \in Seq(Cells) : c = Stream("B")
      BY <1>t, StreamOf DEF Ends
    <2>4. PICK k \in Nat : k = enc["A"]
      BY <1>t DEF MseTypeOK, Ends
    <2>5. PICK ia \in Nat : ia = Ia /\ (ia = 0 \/ ia = 1) /\ (ia = 1 <=> offer.ia)
      BY <1>t, OfferOf
    <2>6. PICK w \in Seq(Cells) : w = wire["B"]
      BY <1>t, StreamOf DEF Ends
    <2>7. RequestTail(ia, d, k, c, m) /\ dec["B"] = d + 3 /\ enc["B"] = d
      BY <1>0, <1>1, <1>2, <2>1, <2>3, <2>4, <2>5 DEF TowardB, InStep
    <2>8. PICK size \in Nat : size = m + 1
      OBVIOUS
    <2>9. PICK n \in Nat : n = d + 3 + (m + 1)
      OBVIOUS
    <2>10. PICK r : r = Behind(c, m + 1)
      OBVIOUS
    <2>11. /\ m + 1 \in 0 .. Len(c) /\ r \in Seq(Cells) /\ Len(r) = ia /\ Len(c) = m + 1 + ia
           /\ c[m + 1].what = "ialen" /\ c[m + 1].v = ia /\ c[m + 1].key = d + 3 + (m + 1)
           /\ ia = 1 => r[1].what = "shake" /\ r[1].key = n + 1
           /\ SealedFrom(offer, r, ia, n + ia)
           /\ k = n + Len(r)
      <3>1. /\ m + 1 \in 0 .. Len(c) /\ r \in Seq(Cells) /\ Len(r) = ia /\ Len(c) = m + 1 + ia
            /\ c[m + 1].what = "ialen" /\ c[m + 1].v = ia /\ c[m + 1].key = d + 3 + (m + 1)
            /\ ia = 1 => r[1].what = "shake" /\ r[1].key = d + 3 + (m + 1) + 1
            /\ k = d + 3 + (m + 1) + Len(r)
        <4>1. (ia = 0 \/ ia = 1) /\ RequestTail(ia, d, k, c, m)
          BY <2>5, <2>7
        <4>2. /\ m + 1 \in 0 .. Len(c) /\ Behind(c, m + 1) \in Seq(Cells)
              /\ Len(Behind(c, m + 1)) = ia /\ Len(c) = m + 1 + ia
              /\ c[m + 1].what = "ialen" /\ c[m + 1].v = ia /\ c[m + 1].key = d + 3 + (m + 1)
              /\ ia = 1 => /\ Behind(c, m + 1)[1].what = "shake"
                           /\ Behind(c, m + 1)[1].key = d + 3 + (m + 1) + 1
              /\ k = d + 3 + (m + 1) + Len(Behind(c, m + 1))
          BY <4>1, RequestRest
        <4> QED BY <2>10, <4>2
      <3>2. SealedFrom(offer, r, ia, n + ia)
        BY <3>1, SMTT(20) DEF SealedFrom
      <3> QED BY <2>9, <3>1, <3>2
    <2>12. /\ size <= Len(b) /\ Len(b) \in Nat /\ size \in 1 .. size /\ size \in 0 .. Len(b)
           /\ \A i \in 1 .. Len(b) : c[i] = b[i]
      <3>1. Len(buf["B"]) \in Nat /\ \A i \in 1 .. Len(buf["B"]) : Stream("B")[i] = buf["B"][i]
        BY <1>t, StreamOf DEF Ends
      <3> QED BY <1>4, <2>2, <2>3, <2>8, <3>1
    <2>13. PICK tail : tail = Decrypt(Before(b, size), d + 3)
      OBVIOUS
    <2>14. tail[size].what = "ialen" /\ tail[size].v = ia
      <3>1. PICK p \in Nat : p = d + 3
        OBVIOUS
      <3>2. \A i \in 1 .. size :
              /\ Decrypt(Before(b, size), p)[i] \in Cells
              /\ IF b[i].key = p + i
                 THEN /\ Decrypt(Before(b, size), p)[i].what = b[i].what
                      /\ Decrypt(Before(b, size), p)[i].v = b[i].v
                      /\ Decrypt(Before(b, size), p)[i].key = 0
                 ELSE Decrypt(Before(b, size), p)[i] = Plain("junk")
        <4>1. size <= Len(b)
          BY <2>12
        <4> QED BY <4>1, HeadCells
      <3>3. b[size] = c[m + 1]
        <4>1. size \in 1 .. Len(b)
          BY <2>12
        <4>2. b[size] = c[size]
          BY <2>12, <4>1
        <4> QED BY <2>8, <4>2
      <3>4. b[size].key = p + size
        BY <2>8, <2>11, <3>1, <3>3
      <3> QED BY <2>11, <2>12, <2>13, <3>1, <3>2, <3>3, <3>4
    <2>15. /\ dec' = [dec EXCEPT !["B"] = @ + size] /\ Eat("B", size)
           /\ iaLen' = ia /\ state' = [state EXCEPT !["B"] = "wait_ia"]
           /\ UNCHANGED <<busy, link>>
           /\ \E q \in Pads : Answer(q)
      <3>1. tail = Decrypt(Before(buf["B"], padLen["B"] + 1), dec["B"]) /\ size = padLen["B"] + 1
        BY <1>2, <2>2, <2>7, <2>8, <2>13
      <3>2. ~(Len(buf["B"]) < padLen["B"] + 1)
        BY <1>2, <1>4
      <3> QED BY <2>14, <3>1, <3>2 DEF AfterWaitPadC, Become
    <2>16. PICK q \in Pads : Answer(q)
      BY <2>15
    <2>17. q \in Nat /\ q <= PadMax
      BY DEF MseAssumption
    <2>18. PICK x : x = Encrypt(SecretB(q), d)
      OBVIOUS
    <2>19. /\ x \in Seq(Cells) /\ Len(SecretB(q)) \in Nat
           /\ Answered(offer, d, d + Len(SecretB(q)), FALSE, x)
      BY <1>t, <2>17, <2>18, AnsweredOf
    <2>20. Put("B", x) /\ enc' = [enc EXCEPT !["B"] = d + Len(SecretB(q))]
      BY <2>7, <2>16, <2>18 DEF Answer, SecretB, Selected
    <2>21. wire'["B"] = wire["B"] /\ wire'["A"] = wire["A"] \o x
      BY <1>t, <2>19, <2>20, PutOf, OtherEnd DEF Ends
    <2>22. /\ dec'["B"] = n /\ dec'["A"] = dec["A"]
           /\ enc'["B"] = d + Len(SecretB(q)) /\ enc'["A"] = k
           /\ state'["B"] = "wait_ia" /\ state'["A"] = "got_pub"
      <3>1. dec'["B"] = dec["B"] + size /\ dec'["A"] = dec["A"]
        BY <1>t, <2>15 DEF MseTypeOK, Ends
      <3>2. dec["B"] + size = n
        BY <2>7, <2>8, <2>9
      <3> QED BY <1>t, <1>1, <2>4, <2>15, <2>20, <3>1, <3>2 DEF MseTypeOK, Ends
    <2>23. Stream("B")' = r /\ buf'["B"] = Behind(b, size) /\ buf'["A"] = buf["A"]
      <3>1. size \in 0 .. Len(buf["B"])
        BY <2>2, <2>12
      <3>2. /\ buf'["B"] = Behind(buf["B"], size) /\ buf'["A"] = buf["A"]
            /\ Stream("B")' = Behind(Stream("B"), size)
        BY <1>t, <2>15, <2>21, <3>1, EatOf, OtherEnd DEF Ends
      <3> QED BY <2>2, <2>3, <2>8, <2>10, <3>2
    <2>24. PICK a \in Seq(Cells) : a = Stream("A")
      BY <1>t, StreamOf DEF Ends
    <2>25. Stream("A")' = a \o x
      BY <1>t, <2>19, <2>21, <2>23, <2>24, PutStream DEF Ends
    <2>26. /\ ~Over("A") /\ ~Over("B") /\ ~Over("A")' /\ ~Over("B")'
           /\ Dropped' = d /\ Ia' = ia
      BY <1>1, <2>1, <2>5, <2>22 DEF Over, Dropped, Ia
    <2>27. sentShake["A"] = offer.ia /\ sentShake["B"] = FALSE
      <3>1. ~got["B"]
        BY <1>1 DEF ModeInv, Settled
      <3> QED BY <1>t, <1>0, <1>1, <3>1 DEF ShakesSent, MseTypeOK, Ends
    <2>28. ia = 0 => buf'["B"] = <<>>
      <3>1. SUFFICES ASSUME ia = 0 PROVE Behind(b, size) = <<>>
        BY <2>23
      <3>2. Len(b) <= Len(c)
        BY <1>t, <2>2, <2>3, NotLonger DEF Ends
      <3>3. Len(b) = size
        BY <2>8, <2>11, <2>12, <3>1, <3>2
      <3>4. Behind(b, size) \in Seq(Cells) /\ Len(Behind(b, size)) = Len(b) - size
        BY <2>12, BehindOf
      <3>5. Len(Behind(b, size)) = 0
        BY <2>12, <3>3, <3>4
      <3> QED BY <3>4, <3>5, EmptySeq
    <2>29. TowardB'
      <3>2. (/\ iaLen = Ia
             /\ Ia = 0 => busy["B"] /\ buf["B"] = <<>>)'
        BY <1>1, <2>15, <2>26, <2>28
      <3>3. Session(Stream("B"), 0, sentShake["A"], FALSE)'
        <4>1. Session(r, 0, sentShake["A"], FALSE)
          BY <2>5, <2>11, <2>27 DEF Session
        <4> QED BY <1>1, <2>23, <4>1
      <3>4. (offer.ia => Stream("B")[1].key = dec["B"] + 1)'
        BY <1>1, <2>5, <2>11, <2>22, <2>23
      <3>5. SealedFrom(offer, Stream("B"), Ia, dec["B"] + Ia)'
        BY <1>1, <2>11, <2>22, <2>23, <2>26
      <3>6. (Sealed(offer) => enc["A"] = dec["B"] + Len(Stream("B")))'
        BY <2>11, <2>22, <2>23
      <3> QED BY <2>22, <2>26, <3>2, <3>3, <3>4, <3>5, <3>6 DEF TowardB
    <2>30. TowardA'
      <3>1. Lead(a, Len(a))
        BY <1>0, <1>1, <2>24 DEF TowardA
      <3>2. PICK j \in 2 .. PadMax + 1 : j = Len(a)
        BY <3>1 DEF Lead
      <3>3. Lead(a \o x, j)
        BY <2>19, <3>1, <3>2, LeadJoin
      <3>4. Behind(a \o x, j) = x
        BY <2>19, <3>2, BehindJoin
      <3>5. (\E i \in 2 .. PadMax + 1 :
              /\ Lead(Stream("A"), i)
              /\ Answered(offer, Dropped, enc["B"], sentShake["B"], Behind(Stream("A"), i)))'
        BY <1>1, <2>19, <2>22, <2>25, <2>26, <2>27, <3>3, <3>4
      <3> QED BY <2>22, <2>26, <3>5 DEF TowardA
    <2>31. InStep'
      BY <1>1, <2>22 DEF InStep, Late
    <2>32. ShakesSent'
      BY <1>0, <1>1, <2>22, <2>26 DEF ShakesSent, Ends
    <2> QED BY <2>15, <2>29, <2>30, <2>31, <2>32 DEF ShakeInv
  <1> QED BY <1>3, <1>4

\* Only the handshake that came along was encrypted: the rest was plain.
LEMMA PlainBegins ==
  ASSUME NEW f, ~Sealed(f), NEW b \in Seq(Cells), NEW w \in Seq(Cells), NEW n \in Nat, NEW k \in Nat,
         NEW sent \in BOOLEAN,
         Session(b \o w, 0, sent, FALSE), 1 <= Len(b), b[1].key = n + 1,
         SealedFrom(f, b \o w, 1, n + 1)
  PROVE  Talking(f, Decrypt(Before(b, 1), n) \o Behind(b, 1), w, n + 1, k, sent, FALSE)
  <1>1. PICK l \in Nat : l = Len(b)
    BY LenProperties
  <1>2. PICK q \in Nat : q = Len(w)
    BY LenProperties
  <1>3. PICK h : h = Decrypt(Before(b, 1), n)
    OBVIOUS
  <1>4. h \in Seq(Cells) /\ Len(h) = 1 /\ h[1].what = b[1].what /\ h[1].key = 0
    <2>1. 1 \in Nat /\ 1 <= Len(b) /\ 1 \in 1 .. 1
      OBVIOUS
    <2>2. /\ Decrypt(Before(b, 1), n) \in Seq(Cells) /\ Len(Decrypt(Before(b, 1), n)) = 1
          /\ \A i \in 1 .. 1 :
               /\ Decrypt(Before(b, 1), n)[i] \in Cells
               /\ IF b[i].key = n + i
                  THEN /\ Decrypt(Before(b, 1), n)[i].what = b[i].what
                       /\ Decrypt(Before(b, 1), n)[i].v = b[i].v
                       /\ Decrypt(Before(b, 1), n)[i].key = 0
                  ELSE Decrypt(Before(b, 1), n)[i] = Plain("junk")
      BY <2>1, HeadCells
    <2> QED BY <1>3, <2>1, <2>2
  <1>5. PICK r : r = Behind(b, 1)
    OBVIOUS
  <1>6. r \in Seq(Cells) /\ Len(r) = l - 1 /\ \A i \in 1 .. (l - 1) : r[i] = b[1 + i]
    <2>1. 1 \in 0 .. Len(b)
      BY <1>1
    <2> QED BY <1>1, <1>5, <2>1, BehindOf
  <1>7. PICK x : x = h \o r
    OBVIOUS
  <1>8. x \in Seq(Cells) /\ Len(x) = l /\ x[1] = h[1] /\ \A i \in 1 .. (l - 1) : x[1 + i] = b[1 + i]
    <2>1. h \in Seq(Cells) /\ r \in Seq(Cells)
      BY <1>4, <1>6
    <2>2. /\ h \o r \in Seq(Cells) /\ Len(h \o r) = Len(h) + Len(r)
          /\ \A i \in 1 .. Len(h) : (h \o r)[i] = h[i]
          /\ \A i \in 1 .. Len(r) : (h \o r)[Len(h) + i] = r[i]
      BY <2>1, JoinOf
    <2> QED BY <1>1, <1>4, <1>6, <1>7, <2>2
  <1>9. PICK s : s = b \o w
    OBVIOUS
  <1>10. /\ s \in Seq(Cells) /\ Len(s) = l + q
         /\ (\A i \in 1 .. l : s[i] = b[i]) /\ \A i \in 1 .. q : s[l + i] = w[i]
    BY <1>1, <1>2, <1>9, JoinOf
  <1>11. \A i \in 2 .. (l + q) : s[i].key = 0
    <2>1. \A i \in 1 + 1 .. Len(s) : s[i].key = 0
      BY <1>9 DEF SealedFrom
    <2>2. 1 + 1 = 2
      OBVIOUS
    <2> QED BY <1>10, <2>1, <2>2
  <1>12. ASSUME NEW i \in 1 .. l PROVE x[i].what = b[i].what /\ x[i].key = 0
    <2>1. CASE i = 1
      BY <1>4, <1>8, <2>1
    <2>2. CASE i # 1
      <3>1. i - 1 \in 1 .. (l - 1) /\ 1 + (i - 1) = i /\ i \in 2 .. (l + q)
        BY <2>2
      <3>2. x[i] = b[i]
        BY <1>8, <3>1
      <3>3. b[i].key = 0
        BY <1>10, <1>11, <3>1
      <3> QED BY <3>2, <3>3
    <2> QED BY <2>1, <2>2
  <1>13. Session(x \o w, 0, sent, FALSE)
    <2>1. Alike(b, x)
      BY <1>1, <1>8, <1>12 DEF Alike
    <2>2. Alike(b \o w, x \o w)
      BY <1>8, <2>1, AlikeJoin
    <2>3. PICK z : z = x \o w
      OBVIOUS
    <2>4. PICK read \in BOOLEAN : read = FALSE
      OBVIOUS
    <2>5. Len(s) \in Nat /\ 0 \in Nat /\ Alike(s, z) /\ Session(s, 0, sent, read)
      <3>1. Len(s) \in Nat
        BY <1>10, LenProperties
      <3>2. Alike(s, z)
        BY <1>9, <2>2, <2>3
      <3>3. Session(s, 0, sent, read)
        BY <1>9, <2>4, Zenon
      <3> QED BY <3>1, <3>2, <3>3
    <2>6. Session(z, 0, sent, read)
      BY <2>5, SessionAlike
    <2> QED BY <2>3, <2>4, <2>6
  <1>14. SealedFrom(f, w, 0, n + 1)
    <2>1. ASSUME NEW i \in 0 + 1 .. Len(w) PROVE w[i].key = 0
      <3>1. i \in 1 .. q /\ l + i \in 2 .. (l + q)
        BY <1>1, <1>2
      <3> QED BY <1>10, <1>11, <3>1
    <2> QED BY <2>1 DEF SealedFrom
  <1>15. \A i \in 1 .. Len(x) : x[i].key = 0
    BY <1>8, <1>12
  <1> QED BY <1>3, <1>5, <1>7, <1>13, <1>14, <1>15 DEF Talking

\* All of it was encrypted.
LEMMA SealedWhole ==
  ASSUME NEW f, Sealed(f), NEW c \in Seq(Cells), NEW n \in Nat, 1 <= Len(c), c[1].key = n + 1,
         SealedFrom(f, c, 1, n + 1)
  PROVE  SealedFrom(f, c, 0, n + 0)
  <1>1. PICK l \in Nat : l = Len(c)
    BY LenProperties
  <1>2. \A i \in 2 .. l : c[i].key = n + i
    <2>1. \A i \in 1 + 1 .. l : c[i].key = n + 1 + i - 1
      BY <1>1 DEF SealedFrom
    <2>2. \A i \in 2 .. l : i \in 1 + 1 .. l /\ n + 1 + i - 1 = n + i
      OBVIOUS
    <2> QED BY <2>1, <2>2
  <1>3. ASSUME NEW i \in 0 + 1 .. l PROVE c[i].key = n + 0 + i - 0
    <2>1. CASE i = 1
      BY <2>1
    <2>2. CASE i # 1
      <3>1. i \in 2 .. l /\ n + 0 + i - 0 = n + i
        BY <2>2
      <3> QED BY <1>2, <3>1
    <2> QED BY <2>1, <2>2
  <1> QED BY <1>1, <1>3 DEF SealedFrom

\* B has the handshake that came along with the request, or none did.
LEMMA AfterWaitIAShakes ==
  ASSUME MseAssumption, ModeInv, ShakeInv, AfterWaitIA
  PROVE  ShakeInv'
  <1>t. MseTypeOK
    BY DEF ModeInv
  <1>0. InStep /\ ShakesSent /\ TowardA /\ TowardB
    BY DEF ShakeInv
  <1>1. /\ state["B"] = "wait_ia" /\ busy["B"] /\ offer.crypt
        /\ (full["B"] <=> Sealed(offer))
        /\ UNCHANGED <<wire, enc, full, padLen, iaLen, got, sentShake, link, offer>>
    BY <1>0 DEF AfterWaitIA, At, Fixed, InStep, ModeInv, ModeB, Sealed, Full, Late
  <1>2. PICK b \in Seq(Cells) : b = buf["B"]
    BY <1>t, StreamOf DEF Ends
  <1>3. PICK w \in Seq(Cells) : w = wire["B"]
    BY <1>t, StreamOf DEF Ends
  <1>4. PICK n \in Nat : n = dec["B"]
    BY <1>t DEF MseTypeOK, Ends
  <1>5. PICK k \in Nat : k = enc["A"]
    BY <1>t DEF MseTypeOK, Ends
  <1>6. PICK sent \in BOOLEAN : sent = sentShake["A"]
    BY <1>t DEF MseTypeOK, Ends
  <1>7. PICK ia \in Nat : ia = Ia /\ (ia = 0 \/ ia = 1) /\ (ia = 1 <=> offer.ia)
    BY <1>t, OfferOf
  <1>8. PICK c \in Seq(Cells) : c = b \o w
    BY JoinOf
  <1>9. /\ iaLen = ia /\ (ia = 0 => b = <<>>)
        /\ Session(c, 0, sent, FALSE)
        /\ (ia = 1 => c[1].key = n + 1)
        /\ SealedFrom(offer, c, ia, n + ia)
        /\ (Sealed(offer) => k = n + Len(c))
    BY <1>0, <1>1, <1>2, <1>3, <1>4, <1>5, <1>6, <1>7, <1>8 DEF TowardB, Stream
  <1>10. ~got["B"]
    BY <1>1 DEF ModeInv, Settled
  <1>11. CASE Return("B") /\ UNCHANGED <<state, buf, dec>> /\ Len(buf["B"]) < iaLen
    <2>1. ia # 0
      <3>1. Len(b) \in Nat
        BY LenProperties
      <3> QED BY <1>2, <1>9, <1>11, <3>1
    <2> QED BY <1>1, <1>7, <1>11, <2>1, BusyShakes
  <1>12. ASSUME Talking(offer, buf'["B"], w, dec'["B"], k, sent, FALSE),
                state'["B"] = "finish", state'["A"] = state["A"],
                buf'["A"] = buf["A"], dec'["A"] = dec["A"]
         PROVE  ShakeInv'
    <2>1. Over("B")' /\ ~Over("B") /\ Over("A")' = Over("A")
      BY <1>1, <1>12 DEF Over
    <2>2. InStep'
      BY <1>0, <1>1, <1>12 DEF InStep, Early, Late
    <2>3. got'["B"] = FALSE
      BY <1>t, <1>1, <1>10 DEF MseTypeOK, Ends
    <2>4. TowardB'
      <3>1. Talking(offer, buf["B"], wire["B"], dec["B"], enc["A"], sentShake["A"], got["B"])'
        BY <1>1, <1>3, <1>5, <1>6, <1>12, <2>3
      <3> QED BY <2>1, <2>2, <3>1, TowardOver
    <2>5. TowardA'
      <3>1. {state["B"], state'["B"]} \subseteq Late
        BY <1>1, <1>12 DEF Late
      <3> QED BY <1>0, <1>1, <1>12, <3>1, TowardAFrame
    <2>6. ShakesSent'
      BY <1>0, <1>1, <1>12, <2>1 DEF ShakesSent, Ends
    <2> QED BY <1>1, <2>2, <2>4, <2>5, <2>6 DEF ShakeInv
  <1>13. CASE iaLen = 0 /\ Become("B", "finish") /\ UNCHANGED <<buf, dec>>
    <2>1. /\ state'["B"] = "finish" /\ state'["A"] = state["A"]
          /\ buf'["B"] = b /\ dec'["B"] = n /\ buf'["A"] = buf["A"] /\ dec'["A"] = dec["A"]
      BY <1>t, <1>2, <1>4, <1>13 DEF MseTypeOK, Become, Ends
    <2>2. b = <<>> /\ ia = 0 /\ n + 0 = n
      BY <1>9, <1>13
    <2>3. c = w
      BY <1>8, <2>2
    <2>4. Talking(offer, b, w, n, k, sent, FALSE)
      <3>1. Session(b \o w, 0, sent, FALSE)
        BY <1>8, <1>9
      <3>2. \A i \in 1 .. Len(b) : b[i].key = 0
        BY <2>2
      <3>3. SealedFrom(offer, w, 0, n) /\ (Sealed(offer) => k = n + Len(w))
        BY <1>9, <2>2, <2>3
      <3> QED BY <3>1, <3>2, <3>3 DEF Talking
    <2> QED BY <1>12, <2>1, <2>4
  <1>14. ASSUME iaLen > 0, Len(buf["B"]) >= iaLen
         PROVE  /\ ia = 1 /\ 1 <= Len(b) /\ b[1].key = n + 1
                /\ 1 <= Len(c) /\ Session(b \o w, 0, sent, FALSE)
                /\ c[1].key = n + 1 /\ SealedFrom(offer, c, 1, n + 1)
    <2>1. ia = 1
      BY <1>7, <1>9, <1>14
    <2>2. 1 <= Len(b)
      BY <1>2, <1>9, <1>14, <2>1
    <2>3. PICK l \in Nat : l = Len(b)
      BY LenProperties
    <2>4. Len(c) = Len(b) + Len(w) /\ Len(w) \in Nat /\ \A i \in 1 .. Len(b) : c[i] = b[i]
      BY <1>8, JoinOf
    <2>5. c[1] = b[1] /\ 1 <= Len(c)
      BY <2>2, <2>3, <2>4
    <2> QED BY <1>8, <1>9, <2>1, <2>2, <2>5
  <1>15. CASE iaLen > 0 /\ Len(buf["B"]) >= iaLen /\ full["B"] /\ Finish("B", 0)
    <2>1. Sealed(offer)
      BY <1>1, <1>15
    <2>2. 0 \in Nat /\ 0 <= Len(buf["B"]) /\ 0 \in 0 .. Len(b)
      BY <1>2, LenProperties
    <2>3. /\ buf'["B"] = Decrypt(Behind(b, 0), n + 0) /\ buf'["A"] = buf["A"]
          /\ dec'["B"] = n + 0 + Len(Behind(b, 0)) /\ dec'["A"] = dec["A"]
          /\ state'["B"] = "finish" /\ state'["A"] = state["A"]
      BY <1>t, <1>2, <1>4, <1>15, <2>2, FinishOf, OtherEnd DEF Ends
    <2>4. SealedFrom(offer, b \o w, 0, n + 0)
      BY <1>8, <1>14, <1>15, <2>1, SealedWhole
    <2>5. Sealed(offer) => k = n + Len(b \o w)
      BY <1>8, <1>9
    <2>6. Session(b \o w, 0, sent, FALSE)
      BY <1>14, <1>15
    <2>7. Talking(offer,
                  IF Sealed(offer) THEN Decrypt(Behind(b, 0), n + 0) ELSE Behind(b, 0),
                  w, n + 0 + (IF Sealed(offer) THEN Len(Behind(b, 0)) ELSE 0), k, sent, FALSE)
      BY <2>2, <2>4, <2>5, <2>6, TalkingBegins
    <2> QED BY <1>12, <2>1, <2>3, <2>7
  <1>16. CASE /\ iaLen > 0 /\ Len(buf["B"]) >= iaLen /\ ~full["B"]
              /\ Become("B", "finish")
              /\ buf' = [buf EXCEPT !["B"] =
                      Decrypt(Before(buf["B"], iaLen), dec["B"]) \o Behind(@, iaLen)]
              /\ dec' = [dec EXCEPT !["B"] = @ + iaLen]
    <2>1. ~Sealed(offer) /\ ia = 1
      BY <1>1, <1>14, <1>16
    <2>2. PICK x : x = Decrypt(Before(b, 1), n) \o Behind(b, 1)
      OBVIOUS
    <2>3. buf' = [buf EXCEPT !["B"] = x] /\ dec' = [dec EXCEPT !["B"] = n + 1]
      BY <1>2, <1>4, <1>9, <1>16, <2>1, <2>2
    <2>4. /\ buf'["B"] = x /\ buf'["A"] = buf["A"] /\ dec'["B"] = n + 1 /\ dec'["A"] = dec["A"]
          /\ state'["B"] = "finish" /\ state'["A"] = state["A"]
      BY <1>t, <1>16, <2>3 DEF MseTypeOK, Become, Ends
    <2>5. Talking(offer, Decrypt(Before(b, 1), n) \o Behind(b, 1), w, n + 1, k, sent, FALSE)
      <3>1. /\ Session(b \o w, 0, sent, FALSE) /\ 1 <= Len(b) /\ b[1].key = n + 1
            /\ SealedFrom(offer, b \o w, 1, n + 1)
        BY <1>8, <1>14, <1>16
      <3> QED BY <2>1, <3>1, PlainBegins
    <2> QED BY <1>12, <2>2, <2>4, <2>5
  <1> QED BY <1>11, <1>13, <1>15, <1>16 DEF AfterWaitIA

-----------------------------------------------------------------------------
(* The invariant, from the first state on.                                   *)

LEMMA HandshakeInit ==
  ASSUME MseAssumption, MseInit
  PROVE  MseIInv
  <1>1. MseTypeOK
    <2>1. <<>> \in Seq(Cells)
      BY EmptySeq
    <2>2. 0 \in 0 .. PadMax /\ 0 \in 0 .. MaxMessages /\ 0 \in 0 .. MaxKeepAlives /\ 0 \in 0 .. 1
      BY DEF MseAssumption
    <2>3. nineteen \in BOOLEAN
      BY DEF MseInit, MseAssumption
    <2> QED BY <2>1, <2>2, <2>3 DEF MseInit, MseTypeOK, States
  <1>2. /\ state["A"] = "new" /\ state["B"] = "new" /\ busy["B"] = FALSE
        /\ buf["A"] = <<>> /\ buf["B"] = <<>> /\ wire["A"] = <<>> /\ wire["B"] = <<>>
        /\ \A e \in Ends : got[e] = FALSE /\ sentShake[e] = FALSE /\ link[e] = "open"
        /\ dec["A"] = 0 /\ dec["B"] = 0 /\ enc["A"] = 0 /\ enc["B"] = 0
    BY DEF MseInit, Ends
  <1>3. Stream("A") = <<>> /\ Stream("B") = <<>>
    <2>1. <<>> \o <<>> = <<>>
      BY EmptySeq
    <2> QED BY <1>2, <2>1 DEF Stream
  <1>4. Len(<<>>) = 0 /\ 1 .. 0 = {} /\ 0 + 1 .. 0 = {}
    OBVIOUS
  <1>5. ModeA /\ ModeB
    <2>1. RequestsWhole(<<>>, Dropped, offer.provide) /\ AtMostOne(<<>>) /\ NoAnswer(<<>>)
      BY <1>4 DEF RequestsWhole, AtMostOne, NoAnswer
    <2> QED BY <1>2, <1>3, <2>1 DEF ModeA, ModeB, Early, Late
  <1>6. Settled
    BY <1>2 DEF Settled, Ends
  <1>7. Talking(offer, <<>>, <<>>, 0, 0, FALSE, FALSE)
    <2>1. <<>> \o <<>> = <<>>
      BY EmptySeq
    <2>2. Session(<<>>, 0, FALSE, FALSE) /\ SealedFrom(offer, <<>>, 0, 0)
      BY <1>4 DEF Session, SealedFrom
    <2>3. \A i \in 1 .. Len(<<>>) : <<>>[i].key = 0
      BY <1>4
    <2>4. 0 = 0 + Len(<<>>)
      BY <1>4
    <2>5. Session(<<>> \o <<>>, 0, FALSE, FALSE)
      BY <2>1, <2>2
    <2> QED BY <2>2, <2>3, <2>4, <2>5 DEF Talking
  <1>8. TowardA /\ TowardB
    <2>1. got["A"] = FALSE /\ got["B"] = FALSE /\ sentShake["A"] = FALSE /\ sentShake["B"] = FALSE
      BY <1>2 DEF Ends
    <2>2. /\ Talking(offer, buf["A"], wire["A"], dec["A"], enc["B"], sentShake["B"], got["A"])
          /\ Talking(offer, buf["B"], wire["B"], dec["B"], enc["A"], sentShake["A"], got["B"])
      BY <1>2, <1>7, <2>1
    <2> QED BY <1>2, <1>3, <2>2 DEF TowardA, TowardB, Late
  <1>9. InStep /\ ShakesSent
    BY <1>2 DEF InStep, ShakesSent, Early, Late, Ends
  <1>10. \A e \in Ends : link[e] # "protocol"
    BY <1>2
  <1> QED BY <1>1, <1>5, <1>6, <1>8, <1>9, <1>10 DEF MseIInv, ModeInv, ShakeInv

LEMMA HandshakeStands ==
  ASSUME MseIInv, UNCHANGED mseVars
  PROVE  MseIInv'
  <1>1. /\ UNCHANGED <<offer, nineteen, wire, buf, busy, state, enc, dec, full, padLen>>
        /\ UNCHANGED <<iaLen, got, sentShake, link, messages, keepAlives>>
    BY DEF mseVars
  <1>2. MseTypeOK /\ ModeA /\ ModeB /\ Settled
    BY DEF MseIInv, ModeInv
  <1>3. MseTypeOK'
    BY <1>1, <1>2 DEF MseTypeOK
  <1>4. /\ Stream("A")' = Stream("A") /\ Stream("B")' = Stream("B")
        /\ Dropped' = Dropped /\ Full' = Full /\ Selected' = Selected
        /\ \A e \in Ends : Over(e)' = Over(e)
    BY <1>1 DEF Stream, Dropped, Full, Selected, Over
  <1> HIDE DEF Stream, Dropped, Full, Selected, Over
  <1>5. ModeA'
    BY <1>1, <1>2, <1>4 DEF ModeA
  <1>6. ModeB'
    BY <1>1, <1>2, <1>4 DEF ModeB
  <1>7. Settled'
    BY <1>1, <1>2 DEF Settled, Over
  <1>8. Undisturbed' = Undisturbed
    BY <1>1 DEF Undisturbed
  <1>9. ASSUME ShakeInv PROVE ShakeInv'
    BY <1>1, <1>9, BusyShakes
  <1> QED BY <1>3, <1>5, <1>6, <1>7, <1>8, <1>9 DEF MseIInv, ModeInv

\* Whatever A does as it works on its buffer.
LEMMA ProcessAStep ==
  ASSUME MseAssumption, ModeInv, ProcessA
  PROVE  ModeInv' /\ (ShakeInv /\ ~nineteen => ShakeInv')
  <1>1. CASE AfterSendPubA
    BY <1>1, AfterSendPubAModes, AfterSendPubAShakes
  <1>2. CASE AfterGotPub
    BY <1>2, AfterGotPubModes, AfterGotPubShakes
  <1>3. CASE AfterFoundVC
    BY <1>3, AfterFoundVCModes, AfterFoundVCShakes
  <1>4. CASE AfterWaitPadD
    BY <1>4, AfterWaitPadDModes, AfterWaitPadDShakes
  <1>5. CASE CheckHandshake("A")
    BY <1>5, CheckHandshakeModes, CheckHandshakeShakes DEF Ends
  <1>6. CASE Messages("A")
    BY <1>6, MessagesModes, MessagesShakes DEF Ends
  <1> QED BY <1>1, <1>2, <1>3, <1>4, <1>5, <1>6 DEF ProcessA, Process

\* Whatever B does.
LEMMA ProcessBStep ==
  ASSUME MseAssumption, ModeInv, ProcessB
  PROVE  ModeInv' /\ (ShakeInv => ShakeInv')
  <1>1. CASE CheckAcceptedShakeHand
    BY <1>1, CheckAcceptedShakeHandModes, CheckAcceptedShakeHandShakes
  <1>2. CASE AfterConfirmEncrypt
    BY <1>2, AfterConfirmEncryptModes, AfterConfirmEncryptShakes
  <1>3. CASE AfterSendPubB
    BY <1>3, AfterSendPubBModes, AfterSendPubBShakes
  <1>4. CASE AfterFoundReq1
    BY <1>4, AfterFoundReq1Modes, AfterFoundReq1Shakes
  <1>5. CASE AfterWaitPadC
    BY <1>5, AfterWaitPadCModes, AfterWaitPadCShakes
  <1>6. CASE AfterWaitIA
    BY <1>6, AfterWaitIAModes, AfterWaitIAShakes
  <1>7. CASE CheckHandshake("B")
    BY <1>7, CheckHandshakeModes, CheckHandshakeShakes DEF Ends
  <1>8. CASE Messages("B")
    BY <1>8, MessagesModes, MessagesShakes DEF Ends
  <1> QED BY <1>1, <1>2, <1>3, <1>4, <1>5, <1>6, <1>7, <1>8 DEF ProcessB, Process

\* Only the timer disturbs a handshake, and it is not undone.
LEMMA Undisturbs ==
  ASSUME MseNext
  PROVE  (\E e \in Ends : SendKeepAlive(e)) \/ Undisturbed' = Undisturbed
  <1>1. ASSUME UNCHANGED <<nineteen, keepAlives>> PROVE Undisturbed' = Undisturbed
    BY <1>1 DEF Undisturbed
  <1>2. CASE MoveToConnectedList \/ SendPublicKey \/ LateHandshake
    BY <1>1, <1>2 DEF MoveToConnectedList, SendPublicKey, LateHandshake, Fixed
  <1>3. CASE ProcessA
    BY <1>1, <1>3 DEF ProcessA, AfterSendPubA, AfterGotPub, AfterFoundVC, AfterWaitPadD,
                      Process, CheckHandshake, Messages, Fixed
  <1>4. CASE ProcessB
    BY <1>1, <1>4 DEF ProcessB, CheckAcceptedShakeHand, AfterConfirmEncrypt, AfterSendPubB,
                      AfterFoundReq1, AfterWaitPadC, AfterWaitIA,
                      Process, CheckHandshake, Messages, Fixed
  <1>5. CASE \E e \in Ends : DoRead(e) \/ PeerEnded(e) \/ Say(e)
    BY <1>1, <1>5 DEF DoRead, PeerEnded, Say, Fixed
  <1> QED BY <1>2, <1>3, <1>4, <1>5 DEF MseNext

LEMMA HandshakeStep ==
  ASSUME MseAssumption, MseIInv, [MseNext]_mseVars
  PROVE  MseIInv'
  <1>t. ModeInv
    BY DEF MseIInv
  <1>1. CASE UNCHANGED mseVars
    BY <1>1, HandshakeStands
  <1>2. CASE MseNext
    <2>1. CASE \E e \in Ends : SendKeepAlive(e)
      BY <1>t, <2>1, SendKeepAliveModes DEF MseIInv
    <2>2. CASE ~\E e \in Ends : SendKeepAlive(e)
      <3>1. Undisturbed' = Undisturbed
        BY <1>2, <2>2, Undisturbs
      <3>2. Undisturbed => ShakeInv /\ ~nineteen
        BY DEF MseIInv, Undisturbed
      <3>3. ModeInv' /\ (ShakeInv /\ ~nineteen => ShakeInv')
        <4>1. CASE MoveToConnectedList
          BY <1>t, <4>1, MoveToConnectedListModes, MoveToConnectedListShakes
        <4>2. CASE SendPublicKey
          BY <1>t, <4>2, SendPublicKeyModes, SendPublicKeyShakes
        <4>3. CASE LateHandshake
          BY <1>t, <4>3, LateHandshakeModes, LateHandshakeShakes
        <4>4. CASE ProcessA
          BY <1>t, <4>4, ProcessAStep
        <4>5. CASE ProcessB
          BY <1>t, <4>5, ProcessBStep
        <4>6. CASE \E e \in Ends : DoRead(e)
          BY <1>t, <4>6, DoReadModes, DoReadShakes
        <4>7. CASE \E e \in Ends : PeerEnded(e)
          BY <1>t, <4>7, PeerEndedModes, PeerEndedShakes
        <4>8. CASE \E e \in Ends : Say(e)
          BY <1>t, <4>8, SayModes, SayShakes
        <4> QED BY <1>2, <2>2, <4>1, <4>2, <4>3, <4>4, <4>5, <4>6, <4>7, <4>8 DEF MseNext
      <3> QED BY <3>1, <3>2, <3>3 DEF MseIInv
    <2> QED BY <2>1, <2>2
  <1> QED BY <1>1, <1>2

\* What the invariant says of an end that has finished.
LEMMA HandshakeHolds ==
  ASSUME MseIInv
  PROVE  HandshakeInv
  <1>t. MseTypeOK /\ ModeA /\ ModeB
    BY DEF MseIInv, ModeInv
  <1>1. ModesAgree
    BY <1>t DEF ModesAgree, ModeA, ModeB, Full, Late
  <1>2. NoBreach
    BY DEF NoBreach, MseIInv, ShakeInv
  <1>3. NoGarble
    <2>1. SUFFICES ASSUME Undisturbed, NEW e \in Ends, state[e] = "finish", NEW i \in DOMAIN buf[e]
                   PROVE  buf[e][i].key = 0 /\ buf[e][i].what # "junk"
      BY DEF NoGarble
    <2>2. PICK b \in Seq(Cells) : b = buf[e]
      BY <1>t, StreamOf
    <2>3. PICK w \in Seq(Cells) : w = wire[e]
      BY <1>t, StreamOf
    <2>4. PICK o \in Ends : o = Other(e) /\ Other(o) = e
      BY OtherEnd
    <2>5. Talking(offer, b, w, dec[e], enc[o], sentShake[o], got[e])
      BY <2>1, <2>2, <2>3, <2>4 DEF MseIInv, ShakeInv, TowardA, TowardB, Over, Ends, Other
    <2>6. i \in 1 .. Len(b)
      BY <2>1, <2>2, LenProperties
    <2>7. b[i].key = 0
      BY <2>5, <2>6 DEF Talking
    <2>8. PICK s : s = b \o w
      OBVIOUS
    <2>9. s[i] = b[i] /\ i \in 1 .. Len(s)
      <3>1. PICK l \in Nat, q \in Nat : l = Len(b) /\ q = Len(w)
        BY LenProperties
      <3>2. Len(s) = l + q /\ \A j \in 1 .. l : s[j] = b[j]
        BY <2>8, <3>1, JoinOf
      <3>3. i \in 1 .. l /\ i \in 1 .. l + q
        BY <2>6, <3>1
      <3> QED BY <3>2, <3>3
    <2>10. s[i].what \in {"shake", "msg"}
      <3>1. Session(s, 0, sentShake[o], got[e])
        BY <2>5, <2>8 DEF Talking
      <3>2. i = 0 + 1 \/ i \in 0 + 2 .. Len(s)
        BY <2>9
      <3> QED BY <2>9, <3>1, <3>2 DEF Session
    <2> QED BY <2>2, <2>7, <2>9, <2>10
  <1> QED BY <1>t, <1>1, <1>2, <1>3 DEF HandshakeInv

\* However the bytes of the handshake are cut, two ends of the program agree on
\* what is encrypted, read nothing but what the other wrote, and do not accuse
\* each other of a breach, unless the key or a keep-alive spoiled it.
THEOREM HandshakeSound == ASSUME MseAssumption PROVE MseSpec => []HandshakeInv
  <1>1. MseInit => MseIInv
    BY HandshakeInit
  <1>2. MseIInv /\ [MseNext]_mseVars => MseIInv'
    BY HandshakeStep
  <1>3. MseIInv => HandshakeInv
    BY HandshakeHolds
  <1> QED BY <1>1, <1>2, <1>3, PTL DEF MseSpec

=============================================================================
