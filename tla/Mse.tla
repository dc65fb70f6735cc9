-------------------------------- MODULE Mse ---------------------------------
(***************************************************************************)
(* The encrypted handshake (BTPeer.h:155-210, BTPeer.cpp:3216-4196) between*)
(* the end A that links, and the end B that accepts.  B is this program; A *)
(* is this program or a client that makes other offers.                    *)
(*                                                                         *)
(* The two byte streams are sequences of cells that the network delivers   *)
(* in pieces of any size.  A cell is what the ends tell apart: half a      *)
(* public key, a unit of padding, a hash, the VC, a field, a message.  Its *)
(* key is the place in the sender's RC4 keystream it was encrypted with,   *)
(* or 0.  What is decrypted at another place is junk.                      *)
(*                                                                         *)
(* A read is followed by ProcessData, which runs as far as the data goes:  *)
(* busy[e] is true until it returns, and each state it passes is a step.   *)
(* The timers that close a slow link are in PeerWire.                      *)
(***************************************************************************)
EXTENDS Integers, Sequences

CONSTANTS
    PadMax,         \* 512: the longest padding that is accepted
    Pads,           \* the lengths the ends choose from: rand() % 512
    Skip,           \* 1024: what some clients drop of each keystream
    Offers,         \* the initiators: crypt, drop, provide, ia
    Nineteens,      \* whether a public key may begin with the byte 19
    MaxMessages,    \* bound: messages an end sends after its handshake
    MaxKeepAlives   \* bound: keep-alives sent while the handshake goes on

MseAssumption ==
    /\ PadMax \in Nat /\ Pads \subseteq 0 .. PadMax - 1
    /\ Skip \in Nat
    /\ Offers \subseteq [crypt : BOOLEAN, drop : BOOLEAN, provide : 1 .. 3, ia : BOOLEAN]
    /\ Nineteens \subseteq BOOLEAN
    /\ MaxMessages \in Nat /\ MaxKeepAlives \in Nat

VARIABLES
    offer,      \* what kind of initiator A is
    nineteen,   \* whether B's public key begins with 19
    wire,       \* the cells on the way to each end
    buf,        \* m_recvBuffer
    busy,       \* the end is in ProcessData
    state,      \* m_MSE_State; "new" is m_bEncryption = false
    enc, dec,   \* how far each end is in its two keystreams
    full,       \* m_bFullEncryption
    padLen,     \* m_MSE_PADDLEN, m_MSE_PADCLEN
    iaLen,      \* m_MSE_IALEN, 0 or 1 cell
    got, sentShake,  \* m_bGotShakeFromPeer, m_bSendShakeToPeer
    link,       \* how the link stands at each end
    messages, keepAlives

mseVars == <<offer, nineteen, wire, buf, busy, state, enc, dec, full, padLen,
          iaLen, got, sentShake, link, messages, keepAlives>>

Ends == {"A", "B"}
Other(e) == IF e = "A" THEN "B" ELSE "A"
States == {"new", "init", "send_pub", "got_pub", "found_vc", "wait_pad_d",
           "found_req1", "wait_pad_c", "wait_ia", "finish"}
Whats == {"pub", "pub2", "pad", "req1", "req23", "vc", "provide", "select", "len",
          "ialen", "shake", "msg", "junk"}
Cells == [what : Whats, key : Nat, v : Nat]

MseTypeOK ==
    /\ offer \in Offers
    /\ nineteen \in BOOLEAN
    /\ wire \in [Ends -> Seq(Cells)]
    /\ buf \in [Ends -> Seq(Cells)]
    /\ busy \in [Ends -> BOOLEAN]
    /\ state \in [Ends -> States]
    /\ enc \in [Ends -> Nat]
    /\ dec \in [Ends -> Nat]
    /\ full \in [Ends -> BOOLEAN]
    /\ padLen \in [Ends -> 0 .. PadMax]
    /\ iaLen \in 0 .. 1
    /\ got \in [Ends -> BOOLEAN]
    /\ sentShake \in [Ends -> BOOLEAN]
    /\ link \in [Ends -> {"open", "refused", "protocol", "ended"}]
    /\ messages \in [Ends -> 0 .. MaxMessages]
    /\ keepAlives \in 0 .. MaxKeepAlives

----------------------------------------------------------------------------
\* What is before place n + 1, and from there on.
Before(cells, n) == SubSeq(cells, 1, n)
Behind(cells, n) == SubSeq(cells, n + 1, Len(cells))

Value(w, n) == [what |-> w, key |-> 0, v |-> n]
Plain(w) == Value(w, 0)
Padding(n) == [k \in 1 .. n |-> Plain("pad")]
PublicKey == <<Plain("pub"), Plain("pub2")>>

\* RC4Encryptor: the cells meet the keystream from place n on.
Encrypt(cells, n) == [k \in DOMAIN cells |-> [cells[k] EXCEPT !.key = n + k]]
Decrypt(cells, n) == [k \in DOMAIN cells |->
    IF cells[k].key = n + k THEN [cells[k] EXCEPT !.key = 0] ELSE Plain("junk")]

\* What the initiator has dropped of each keystream.
Dropped == IF offer.drop THEN Skip ELSE 0

Ciphering(e) == full[e] /\ state[e] = "finish"

Put(e, cells) == wire' = [wire EXCEPT ![Other(e)] = @ \o cells]

\* SendData encrypts once the handshake is over, and only in full mode.
SendData(e, cells) ==
    IF Ciphering(e)
    THEN Put(e, Encrypt(cells, enc[e]))
         /\ enc' = [enc EXCEPT ![e] = @ + Len(cells)]
    ELSE Put(e, cells) /\ enc' = enc

SendHandshake(e) ==
    /\ SendData(e, <<Plain("shake")>>)
    /\ sentShake' = [sentShake EXCEPT ![e] = TRUE]

Close(e, why) == link' = [link EXCEPT ![e] = why]
Return(e) == busy' = [busy EXCEPT ![e] = FALSE]
Become(e, s) == state' = [state EXCEPT ![e] = s]
Eat(e, n) == buf' = [buf EXCEPT ![e] = Behind(@, n)]

MseInit ==
    /\ offer \in Offers
    /\ nineteen \in Nineteens
    /\ wire = [e \in Ends |-> <<>>]
    /\ buf = [e \in Ends |-> <<>>]
    /\ busy = [e \in Ends |-> FALSE]
    /\ state = [e \in Ends |-> "new"]
    /\ enc = [e \in Ends |-> 0]
    /\ dec = [e \in Ends |-> 0]
    /\ full = [e \in Ends |-> FALSE]
    /\ padLen = [e \in Ends |-> 0]
    /\ iaLen = 0
    /\ got = [e \in Ends |-> FALSE]
    /\ sentShake = [e \in Ends |-> FALSE]
    /\ link = [e \in Ends |-> "open"]
    /\ messages = [e \in Ends |-> 0]
    /\ keepAlives = 0

\* What stays while an end works on its buffer.
Fixed == UNCHANGED <<offer, nineteen, messages, keepAlives>>
Talk == <<wire, enc, sentShake>>

----------------------------------------------------------------------------
(* MoveToConnectedList at A: a handshake, or the public key.               *)

MoveToConnectedList ==
    /\ state["A"] = "new"
    /\ ~sentShake["A"]
    /\ ~offer.crypt
    /\ SendHandshake("A")
    /\ UNCHANGED <<buf, busy, state, dec, full, padLen, iaLen, got, link>>
    /\ Fixed

SendPublicKey ==
    /\ state["A"] = "new"
    /\ offer.crypt
    /\ \E n \in Pads : Put("A", PublicKey \o Padding(n))
    /\ Become("A", "send_pub")
    /\ UNCHANGED <<buf, busy, enc, dec, full, padLen, iaLen, got, sentShake, link>>
    /\ Fixed

----------------------------------------------------------------------------
(* DoRead, of a part of what is there.                                     *)

DoRead(e) ==
    /\ link[e] = "open"
    /\ ~busy[e]
    /\ \E n \in 1 .. Len(wire[e]) :
          LET cells == Before(wire[e], n)
          IN  /\ wire' = [wire EXCEPT ![e] = Behind(@, n)]
              /\ buf' = [buf EXCEPT ![e] = @ \o
                    IF Ciphering(e) THEN Decrypt(cells, dec[e]) ELSE cells]
              /\ dec' = [dec EXCEPT ![e] = IF Ciphering(e) THEN @ + n ELSE @]
    /\ busy' = [busy EXCEPT ![e] = TRUE]
    /\ UNCHANGED <<state, enc, full, padLen, iaLen, got, sentShake, link>>
    /\ Fixed

\* recv returns 0: the other end has closed.
PeerEnded(e) ==
    /\ link[e] = "open"
    /\ ~busy[e]
    /\ wire[e] = <<>>
    /\ link[Other(e)] # "open"
    /\ Close(e, "ended")
    /\ UNCHANGED <<wire, buf, busy, state, enc, dec, full, padLen, iaLen, got,
                   sentShake>>
    /\ Fixed

\* ProcessData of A, or of B, in one of the states.
At(e, s) == busy[e] /\ link[e] = "open" /\ state[e] = s

----------------------------------------------------------------------------
(* DoDHSecretShake, the states of A.                                       *)

\* Answer of A to the public key of B:
\*   HASH(req1), HASH(req2) xor HASH(req3), ENCRYPT(VC, crypto_provide,
\*   len(PadC), PadC, len(IA)), ENCRYPT(IA)
Request(n) ==
    LET secret == <<Plain("vc"), Value("provide", offer.provide),
                    Value("len", n)>> \o Padding(n)
                  \o <<Value("ialen", IF offer.ia THEN 1 ELSE 0)>>
                  \o (IF offer.ia THEN <<Plain("shake")>> ELSE <<>>)
    IN  /\ Put("A", <<Plain("req1"), Plain("req23")>>
                    \o Encrypt(secret, Dropped))
        /\ enc' = [enc EXCEPT !["A"] = Dropped + Len(secret)]

\* The public key of B.  A key whose first byte is 19 is taken for a plain
\* handshake: the test of the name behind it is the wrong way round.
AfterSendPubA ==
    /\ At("A", "send_pub")
    /\ IF nineteen
       THEN /\ Close("A", "protocol")
            /\ UNCHANGED <<state, dec, wire, enc, sentShake>>
       ELSE IF Len(buf["A"]) < 2 THEN UNCHANGED <<state, dec, wire, enc, sentShake, link>>
       ELSE /\ \E n \in Pads : Request(n)
            /\ dec' = [dec EXCEPT !["A"] = Dropped]
            /\ sentShake' = [sentShake EXCEPT !["A"] = offer.ia]
            /\ Become("A", "got_pub")
            /\ link' = link
    /\ Return("A")
    /\ UNCHANGED <<buf, full, padLen, iaLen, got>>
    /\ Fixed

\* Where in the buffer of e, behind the public key, the cell c begins that
\* more data follows: the search stops one short of the end.
Positions(e, c) ==
    {i \in 3 .. Len(buf[e]) - 1 : buf[e][i].what = c.what /\ buf[e][i].key = c.key}

\* The first of them.
FirstAt(at) == CHOOSE i \in at : \A j \in at : i <= j

TooLong(e) == Len(buf[e]) >= 2 + PadMax + 1

\* A looks for the VC as B will have encrypted it.
AfterGotPub ==
    LET at == Positions("A", [what |-> "vc", key |-> Dropped + 1])
    IN  /\ At("A", "got_pub")
        /\ IF at # {}
           THEN /\ Become("A", "found_vc")
                /\ Eat("A", FirstAt(at) - 1)
                /\ UNCHANGED <<busy, link>>
           ELSE /\ IF TooLong("A") THEN Close("A", "protocol") ELSE link' = link
                /\ Return("A")
                /\ UNCHANGED <<state, buf>>
        /\ UNCHANGED <<wire, enc, dec, full, padLen, iaLen, got, sentShake>>
        /\ Fixed

\* ENCRYPT(VC, crypto_select, len(padD)).
AfterFoundVC ==
    LET head == Decrypt(Before(buf["A"], 3), dec["A"])
    IN  /\ At("A", "found_vc")
        /\ IF Len(buf["A"]) < 3
           THEN Return("A") /\ UNCHANGED <<state, buf, dec, full, padLen, link>>
           ELSE /\ dec' = [dec EXCEPT !["A"] = @ + 3]
                /\ Eat("A", 3)
                /\ Become("A", "wait_pad_d")
                /\ full' = [full EXCEPT !["A"] = head[2].v = 2]
                /\ IF head[2].v \notin 1 .. 3 \/ head[3].v > PadMax
                   THEN /\ Close("A", "protocol")
                        /\ Return("A")
                        /\ padLen' = padLen
                   ELSE /\ padLen' = [padLen EXCEPT !["A"] = head[3].v]
                        /\ UNCHANGED <<busy, link>>
        /\ UNCHANGED <<wire, enc, iaLen, got, sentShake>>
        /\ Fixed

\* The handshake of e is over with n cells of padding to skip and, in full
\* mode, the rest of the buffer to decrypt.
Finish(e, n) ==
    LET rest == Behind(buf[e], n)
    IN  /\ Become(e, "finish")
        /\ buf' = [buf EXCEPT ![e] =
                IF full[e] THEN Decrypt(rest, dec[e] + n) ELSE rest]
        /\ dec' = [dec EXCEPT ![e] = @ + n + (IF full[e] THEN Len(rest) ELSE 0)]
        /\ busy' = [busy EXCEPT ![e] = rest # <<>>]

AfterWaitPadD ==
    /\ At("A", "wait_pad_d")
    /\ IF Len(buf["A"]) < padLen["A"]
       THEN Return("A") /\ UNCHANGED <<state, buf, dec>>
       ELSE Finish("A", padLen["A"])
    /\ UNCHANGED <<wire, enc, full, padLen, iaLen, got, sentShake, link>>
    /\ Fixed

----------------------------------------------------------------------------
(* CheckAcceptedShakeHand, and the states of B.                            *)

\* The first bytes are a plain handshake: B answers with its own.
CheckAcceptedShakeHand ==
    /\ At("B", "new")
    /\ ~got["B"]
    /\ Head(buf["B"]).what = "shake"
    /\ got' = [got EXCEPT !["B"] = TRUE]
    /\ Eat("B", 1)
    /\ SendHandshake("B")
    /\ UNCHANGED <<busy, state, dec, full, padLen, iaLen, link>>
    /\ Fixed

\* They are not: m_bEncryption, and B answers a whole public key with its own.
AfterConfirmEncrypt ==
    /\ At("B", "new") \/ At("B", "init")
    /\ ~got["B"]
    /\ Head(buf["B"]).what # "shake"
    /\ IF Len(buf["B"]) < 2
       THEN Become("B", "init") /\ wire' = wire
       ELSE /\ Become("B", "send_pub")
            /\ \E n \in Pads : Put("B", PublicKey \o Padding(n))
    /\ Return("B")
    /\ UNCHANGED <<buf, enc, dec, full, padLen, iaLen, got, sentShake, link>>
    /\ Fixed

\* B looks for HASH(req1).
AfterSendPubB ==
    LET at == Positions("B", Plain("req1"))
    IN  /\ At("B", "send_pub")
        /\ IF at # {}
           THEN /\ Become("B", "found_req1")
                /\ Eat("B", FirstAt(at) - 1)
                /\ UNCHANGED <<busy, link>>
           ELSE /\ IF TooLong("B") THEN Close("B", "protocol") ELSE link' = link
                /\ Return("B")
                /\ UNCHANGED <<state, buf>>
        /\ UNCHANGED <<wire, enc, dec, full, padLen, iaLen, got, sentShake>>
        /\ Fixed

\* B knows the torrent, and where A is in its keystream: at the beginning,
\* or 1K further on.  The listener may have no room (GotEncryptHash).
AfterFoundReq1 ==
    LET secret == SubSeq(buf["B"], 3, 5)
        start == IF secret[1].key = 1 THEN 0 ELSE Skip
        head == Decrypt(secret, start)
    IN  /\ At("B", "found_req1")
        /\ IF Len(buf["B"]) < 5
           THEN Return("B") /\ UNCHANGED <<state, buf, enc, dec, full, padLen, link>>
           ELSE \/ /\ Close("B", "refused")
                   /\ Return("B")
                   /\ UNCHANGED <<state, buf, enc, dec, full, padLen>>
                \/ /\ head[1].what # "vc" \/ head[3].v > PadMax
                   /\ Close("B", "protocol")
                   /\ Return("B")
                   /\ UNCHANGED <<state, buf, enc, dec, full, padLen>>
                \/ /\ head[1].what = "vc" /\ head[3].v <= PadMax
                   /\ dec' = [dec EXCEPT !["B"] = start + 3]
                   /\ enc' = [enc EXCEPT !["B"] = start]
                   /\ full' = [full EXCEPT !["B"] = head[2].v \in {2, 3}]
                   /\ padLen' = [padLen EXCEPT !["B"] = head[3].v]
                   /\ Eat("B", 5)
                   /\ Become("B", "wait_pad_c")
                   /\ UNCHANGED <<busy, link>>
        /\ UNCHANGED <<wire, iaLen, got, sentShake>>
        /\ Fixed

\* Mutant: RC4 is selected, whatever was provided.
AnswerRC4(n) ==
    LET secret == <<Plain("vc"), Value("select", 2), Value("len", n)>> \o Padding(n)
    IN  /\ Put("B", Encrypt(secret, enc["B"]))
        /\ enc' = [enc EXCEPT !["B"] = @ + Len(secret)]

\* Answer of B: ENCRYPT(VC, crypto_select, len(padD), padD).
Answer(n) ==
    LET secret == <<Plain("vc"), Value("select", IF full["B"] THEN 2 ELSE 1),
                    Value("len", n)>> \o Padding(n)
    IN  /\ Put("B", Encrypt(secret, enc["B"]))
        /\ enc' = [enc EXCEPT !["B"] = @ + Len(secret)]

AfterWaitPadC ==
    LET size == padLen["B"] + 1
        tail == Decrypt(Before(buf["B"], size), dec["B"])
    IN  /\ At("B", "wait_pad_c")
        /\ IF Len(buf["B"]) < size
           THEN Return("B") /\ UNCHANGED <<state, buf, wire, enc, dec, iaLen, link>>
           ELSE /\ dec' = [dec EXCEPT !["B"] = @ + size]
                /\ Eat("B", size)
                /\ IF tail[size].what # "ialen"
                   THEN /\ Close("B", "protocol")
                        /\ Return("B")
                        /\ UNCHANGED <<state, wire, enc, iaLen>>
                   ELSE /\ iaLen' = tail[size].v
                        /\ \E k \in Pads : Answer(k)
                        /\ Become("B", "wait_ia")
                        /\ UNCHANGED <<busy, link>>
        /\ UNCHANGED <<full, padLen, got, sentShake>>
        /\ Fixed

\* The handshake of A, if it came along.  Without it nothing that is in the
\* buffer is decrypted; in plain mode only the handshake is.
AfterWaitIA ==
    LET ia == Decrypt(Before(buf["B"], iaLen), dec["B"])
    IN  /\ At("B", "wait_ia")
        /\ \/ /\ iaLen = 0
              /\ Become("B", "finish")
              /\ Return("B")
              /\ UNCHANGED <<buf, dec>>
           \/ /\ Len(buf["B"]) < iaLen
              /\ Return("B")
              /\ UNCHANGED <<state, buf, dec>>
           \/ /\ iaLen > 0 /\ Len(buf["B"]) >= iaLen
              /\ full["B"]
              /\ Finish("B", 0)
           \/ /\ iaLen > 0 /\ Len(buf["B"]) >= iaLen
              /\ ~full["B"]
              /\ Become("B", "finish")
              /\ buf' = [buf EXCEPT !["B"] = ia \o Behind(@, iaLen)]
              /\ dec' = [dec EXCEPT !["B"] = @ + iaLen]
              /\ busy' = busy
        /\ UNCHANGED <<wire, enc, full, padLen, iaLen, got, sentShake, link>>
        /\ Fixed

----------------------------------------------------------------------------
(* The rest of ProcessData.                                                *)

Ready(e) == busy[e] /\ link[e] = "open"
            /\ (state[e] = "finish" \/ (e = "A" /\ ~offer.crypt) \/ got[e])

\* Mutant: the test of m_bSendShakeToPeer is the wrong way round.
ReplyTwice(e) == IF sentShake[e] THEN SendHandshake(e) ELSE UNCHANGED Talk

\* CheckHandshake.
Reply(e) == IF sentShake[e] THEN UNCHANGED Talk ELSE SendHandshake(e)

CheckHandshake(e) ==
    /\ Ready(e)
    /\ ~got[e]
    /\ buf[e] # <<>>
    /\ Eat(e, 1)
    /\ IF Head(buf[e]).what = "shake"
       THEN /\ got' = [got EXCEPT ![e] = TRUE]
            /\ Reply(e)
            /\ UNCHANGED <<busy, link>>
       ELSE Close(e, "protocol") /\ Return(e) /\ UNCHANGED <<Talk, got>>
    /\ UNCHANGED <<state, dec, full, padLen, iaLen>>
    /\ Fixed

\* The messages behind it, and the end of the buffer.
Messages(e) ==
    /\ Ready(e)
    /\ got[e] \/ buf[e] = <<>>
    /\ IF \A k \in DOMAIN buf[e] : buf[e][k].what = "msg" /\ buf[e][k].key = 0
       THEN link' = link ELSE Close(e, "protocol")
    /\ buf' = [buf EXCEPT ![e] = <<>>]
    /\ Return(e)
    /\ UNCHANGED <<wire, state, enc, dec, full, padLen, iaLen, got, sentShake>>
    /\ Fixed

\* An initiator whose handshake did not go along sends it now.
LateHandshake ==
    /\ link["A"] = "open" /\ ~busy["A"]
    /\ state["A"] = "finish" /\ ~sentShake["A"]
    /\ SendHandshake("A")
    /\ UNCHANGED <<buf, busy, state, dec, full, padLen, iaLen, got, link>>
    /\ Fixed

\* After the handshakes either end says something.
Say(e) ==
    /\ link[e] = "open" /\ ~busy[e]
    /\ got[e]
    /\ messages[e] < MaxMessages
    /\ messages' = [messages EXCEPT ![e] = @ + 1]
    /\ SendData(e, <<Plain("msg")>>)
    /\ UNCHANGED <<offer, nineteen, buf, busy, state, dec, full, padLen, iaLen,
                   got, sentShake, link, keepAlives>>

\* The first minute is over: m_LastMyActiveTick was never set, whatever it
\* holds may be too long ago, and SendKeepAlive writes into the handshake.
SendKeepAlive(e) ==
    /\ link[e] = "open" /\ ~busy[e]
    /\ state[e] # "new" /\ ~got[e]
    /\ keepAlives < MaxKeepAlives
    /\ keepAlives' = keepAlives + 1
    /\ SendData(e, <<Plain("msg")>>)
    /\ UNCHANGED <<offer, nineteen, buf, busy, state, dec, full, padLen, iaLen,
                   got, sentShake, link, messages>>

----------------------------------------------------------------------------
Process(e) == CheckHandshake(e) \/ Messages(e)

ProcessA ==
    AfterSendPubA \/ AfterGotPub \/ AfterFoundVC \/ AfterWaitPadD \/ Process("A")

ProcessB ==
    \/ CheckAcceptedShakeHand \/ AfterConfirmEncrypt
    \/ AfterSendPubB \/ AfterFoundReq1 \/ AfterWaitPadC \/ AfterWaitIA
    \/ Process("B")

MseNext ==
    \/ MoveToConnectedList
    \/ SendPublicKey
    \/ ProcessA
    \/ ProcessB
    \/ LateHandshake
    \/ \E e \in Ends : DoRead(e) \/ PeerEnded(e) \/ Say(e) \/ SendKeepAlive(e)

MseSpec == MseInit /\ [][MseNext]_mseVars

\* Both threads run, and the network delivers.
MseFairness ==
    /\ WF_mseVars(MoveToConnectedList) /\ WF_mseVars(SendPublicKey)
    /\ WF_mseVars(ProcessA) /\ WF_mseVars(ProcessB) /\ WF_mseVars(LateHandshake)
    /\ \A e \in Ends : WF_mseVars(DoRead(e)) /\ WF_mseVars(PeerEnded(e))

MseFairSpec == MseSpec /\ MseFairness

----------------------------------------------------------------------------
\* Two things of B and of the timer spoil a handshake; the rest must not.
Undisturbed == ~nineteen /\ keepAlives = 0

\* However the streams are cut into reads, an end that has finished reads
\* nothing but plain cells: everything was decrypted once, and at the place
\* of the keystream at which the other end encrypted it.  A keep-alive sent
\* into the handshake (BTPeer.cpp:575) spoils that.
NoGarble ==
    Undisturbed => \A e \in Ends : state[e] = "finish" =>
        \A k \in DOMAIN buf[e] : buf[e][k].key = 0 /\ buf[e][k].what # "junk"

\* Ends that have both finished agree on whether all that follows is encrypted
\* (crypto_select), and it is if A offers RC4 at all; whatever else goes wrong.
ModesAgree ==
    state["A"] = "finish" /\ state["B"] = "finish" =>
        /\ full["A"] = full["B"]
        /\ full["A"] = (offer.provide # 1)

\* Two ends that follow the protocol do not close the link for a breach of it,
\* unless the key begins with 19 or a keep-alive came in between.
NoBreach == Undisturbed => \A e \in Ends : link[e] # "protocol"

\* A handshake between two ends of the program, on any cutting of its bytes
\* into packets (BTPeer.cpp:3200-4260).
HandshakeInv == MseTypeOK /\ NoGarble /\ ModesAgree /\ NoBreach

\* The handshake never stalls: both ends get the handshake of the other, or
\* one of them closes the link.
ShakesDone == []<>((\A e \in Ends : got[e]) \/ \E e \in Ends : link[e] # "open")
=============================================================================
