-------------------------- MODULE PeerLinks_proofs --------------------------
(* A session has at most one link it launched to an address, and an        *)
(* address has at most four links in all (or SESSIONNUM, if that is more). *)
(*                                                                         *)
(* The argument: GetPeerInfoToLink hands out an address only while no bit  *)
(* of its m_LinkingRecord is set, so an attempt owns the record of its     *)
(* address until it is given back (HandOk, ConnectingOk).  Most steps      *)
(* leave everything the invariant looks at alone; Still says so, and the   *)
(* twelve steps that do not have a lemma each.                             *)
EXTENDS PeerLinks, FiniteSetTheorems, TLAPS

\* The number of sessions is a number.
LEMMA SessionNumType == SessionNum \in Nat /\ MostLinks \in Nat /\ MostLinks >= 4 /\ MostLinks >= SessionNum
<1>1. SessionNum \in Nat
  BY SessionsAssumption, FS_CardinalityType DEF SessionNum
<1> QED
  BY <1>1 DEF MostLinks

\* The places in the list of sessions.
LEMMA Positions ==
  /\ 1 \in 1 .. Len(SessionList)
  /\ \A n \in 1 .. Len(SessionList) : n < Len(SessionList) => n + 1 \in 1 .. Len(SessionList)
BY SessionListAssumption

\* The invariant holds at first.
LEMMA InitInv == Init => LinkInv
<1> SUFFICES ASSUME Init PROVE LinkInv
  OBVIOUS
<1>1. TypeOK
  <2>1. DetailTypes
    BY DEF Init, DetailTypes
  <2>2. CounterTypes
    BY DEF Init, CounterTypes
  <2>3. PeerTypes
    BY DEF Init, PeerTypes
  <2>4. ThreadTypes
    <3>1. finish \in [Sessions -> BOOLEAN]
      BY PhasesAssumption DEF Init
    <3> QED
      BY <3>1 DEF Init, ThreadTypes
  <2>5. ListenerTypes
    BY Positions DEF Init, ListenerTypes
  <2> QED
    BY <2>1, <2>2, <2>3, <2>4, <2>5 DEF TypeOK
<1>2. Apart
  BY DEF Init, Apart
<1>3. HandOk /\ ConnectingOk /\ ConnectedOk
  BY DEF Init, HandOk, ConnectingOk, ConnectedOk
<1>4. AddressBound
  BY SessionNumType DEF Init, AddressBound
<1> QED
  BY <1>1, <1>2, <1>3, <1>4 DEF LinkInv

-----------------------------------------------------------------------------
(* Types.                                                                  *)

\* The peer in the middle of a move is one of those that were connecting.
LEMMA MovingTypes ==
  ASSUME LinkInv, NEW s \in Sessions, pc[s] \in {"push", "report"}
  PROVE /\ moving[s] \in connecting[s]
        /\ moving[s] \in Links
        /\ addr[moving[s]] \in Addrs
BY DEF LinkInv, Apart, TypeOK, PeerTypes

\* What CPeerCenter does keeps its records and its counters well typed.
CenterStep(s, a) ==
    \/ GetPeerInfoToLink(s, a) /\ UNCHANGED <<known, good, later, banned, linked, out, in, nConnection, sessConnection>>
    \/ GiveUpLink(s, a)
    \/ LinkReportOk(s, a)
    \/ LinkReportFail(s, a)
    \/ LinkOkButClose(s, a)
    \/ CloseReport(s, a, TRUE)
    \/ CloseReport(s, a, FALSE)
    \/ TryAcceptPeerLink(s, a)

\* Each operation of CPeerCenter keeps them so.
LEMMA CenterTypes ==
  ASSUME DetailTypes, CounterTypes, NEW s \in Sessions, NEW a \in Addrs, CenterStep(s, a),
         lost' = lost
  PROVE DetailTypes' /\ CounterTypes'
<1> USE DEF DetailTypes, CounterTypes
<1>1. CASE GetPeerInfoToLink(s, a) /\ UNCHANGED <<known, good, later, banned, linked, out, in, nConnection, sessConnection>>
  BY <1>1 DEF GetPeerInfoToLink
<1>2. CASE GiveUpLink(s, a)
  BY <1>2 DEF GiveUpLink, NotConnecting
<1>3. CASE LinkReportOk(s, a)
  BY <1>3 DEF LinkReportOk, NotConnecting
<1>4. CASE LinkReportFail(s, a)
  BY <1>4 DEF LinkReportFail, NotConnecting
<1>5. CASE LinkOkButClose(s, a)
  BY <1>5 DEF LinkOkButClose, NotConnecting
<1>6. CASE CloseReport(s, a, TRUE)
  BY <1>6 DEF CloseReport, Penalties
<1>7. CASE CloseReport(s, a, FALSE)
  BY <1>7 DEF CloseReport, Penalties
<1>8. CASE TryAcceptPeerLink(s, a)
  BY <1>8 DEF TryAcceptPeerLink
<1> QED
  BY <1>1, <1>2, <1>3, <1>4, <1>5, <1>6, <1>7, <1>8, CenterStep(s, a) DEF CenterStep

\* A list is finite, so its length is a number.
LEMMA Lengths ==
  ASSUME PeerTypes, NEW s \in Sessions
  PROVE Cardinality(connected[s]) \in Nat
BY LinksAssumption, FS_Subset, FS_CardinalityType DEF PeerTypes

\* All the steps of a session thread keep the types.
LEMMA SessionTypes ==
  ASSUME LinkInv, NEW s \in Sessions, SessionStep(s)
  PROVE TypeOK'
<1>0. DetailTypes /\ CounterTypes /\ PeerTypes /\ ThreadTypes /\ ListenerTypes
  BY DEF LinkInv, TypeOK
<1> USE DEF TypeOK, details, counters, lists, peers, loops, listener, Goto
<1>1. CASE Round(s)
  BY <1>0, <1>1 DEF Round, DetailTypes, CounterTypes, PeerTypes, ThreadTypes, ListenerTypes
<1>2. CASE MoveNone(s)
  BY <1>0, <1>2 DEF MoveNone, DetailTypes, CounterTypes, PeerTypes, ThreadTypes, ListenerTypes
<1>3. ASSUME NEW l \in Links, Move(s, l) PROVE TypeOK'
  BY <1>0, <1>3 DEF Move, DetailTypes, CounterTypes, PeerTypes, ThreadTypes, ListenerTypes
<1>4. CASE Push(s)
  <2>1. moving[s] \in Links
    BY <1>4, MovingTypes DEF Push
  <2> QED
    BY <2>1, <1>0, <1>4 DEF Push, DetailTypes, CounterTypes, PeerTypes, ThreadTypes, ListenerTypes
<1>5. CASE Report(s)
  <2>1. DetailTypes' /\ CounterTypes'
    BY <1>0, <1>5, CenterTypes, MovingTypes DEF Report, CenterStep
  <2>2. PeerTypes' /\ ThreadTypes' /\ ListenerTypes'
    BY <1>0, <1>5 DEF Report, PeerTypes, ThreadTypes, ListenerTypes
  <2> QED
    BY <2>1, <2>2
<1>6. CASE MoveFull(s)
  BY <1>0, <1>6 DEF MoveFull, DetailTypes, CounterTypes, PeerTypes, ThreadTypes, ListenerTypes
<1>7. ASSUME NEW l \in Links, Reap(s, l) PROVE TypeOK'
  <2>1. DetailTypes' /\ CounterTypes'
    <3>1. addr[l] \in Addrs
      BY <1>7 DEF Reap, LinkInv, Apart
    <3> QED
      BY <3>1, <1>0, <1>7, CenterTypes DEF Reap, CenterStep
  <2>2. PeerTypes' /\ ThreadTypes' /\ ListenerTypes'
    BY <1>0, <1>7 DEF Reap, Delete, PeerTypes, ThreadTypes, ListenerTypes
  <2> QED
    BY <2>1, <2>2
<1>8. CASE EndReap(s)
  <2>1. DetailTypes' /\ CounterTypes' /\ PeerTypes' /\ ListenerTypes'
    BY <1>0, <1>8 DEF EndReap, DetailTypes, CounterTypes, PeerTypes, ListenerTypes
  <2>2. ThreadTypes'
    BY <1>0, <1>8, Lengths, LimitsAssumption DEF EndReap, ThreadTypes
  <2> QED
    BY <2>1, <2>2
<1>9. ASSUME NEW l \in Links, Sweep(s, l) PROVE TypeOK'
  <2>1. DetailTypes' /\ CounterTypes'
    <3>1. addr[l] \in Addrs /\ mine[l] \in BOOLEAN
      BY <1>0, <1>9 DEF Sweep, LinkInv, Apart, PeerTypes
    <3> QED
      BY <3>1, <1>0, <1>9, CenterTypes DEF Sweep, CenterStep
  <2>2. PeerTypes' /\ ThreadTypes' /\ ListenerTypes'
    BY <1>0, <1>9 DEF Sweep, Delete, PeerTypes, ThreadTypes, ListenerTypes
  <2> QED
    BY <2>1, <2>2
<1>10. CASE EndSweep(s)
  <2>1. DetailTypes' /\ CounterTypes' /\ PeerTypes' /\ ListenerTypes'
    BY <1>0, <1>10 DEF EndSweep, DetailTypes, CounterTypes, PeerTypes, ListenerTypes
  <2>2. ThreadTypes'
    BY <1>0, <1>10, Lengths, LimitsAssumption DEF EndSweep, ThreadTypes
  <2> QED
    BY <2>1, <2>2
<1>11. CASE Expire(s)
  BY <1>0, <1>11 DEF Expire, DetailTypes, CounterTypes, PeerTypes, ThreadTypes, ListenerTypes
<1>12. ASSUME NEW a \in Addrs, Pick(s, a) PROVE TypeOK'
  <2>1. DetailTypes' /\ CounterTypes'
    BY <1>0, <1>12, CenterTypes DEF Pick, CenterStep
  <2>2. PeerTypes' /\ ThreadTypes' /\ ListenerTypes'
    BY <1>0, <1>12 DEF Pick, PeerTypes, ThreadTypes, ListenerTypes
  <2> QED
    BY <2>1, <2>2
<1>13. CASE PickNone(s)
  <2>1. DetailTypes' /\ CounterTypes' /\ PeerTypes' /\ ListenerTypes'
    BY <1>0, <1>13 DEF PickNone, DetailTypes, CounterTypes, PeerTypes, ListenerTypes
  <2>2. ThreadTypes'
    <3>1. CASE EndLaunch(s)
      BY <3>1, <1>0, <1>13 DEF PickNone, EndLaunch, ThreadTypes
    <3>2. CASE UNCHANGED <<up, tries>> /\ (UNCHANGED quota \/ quota' = [quota EXCEPT ![s] = @ - 1])
                /\ \E x \in {"good", "any"} : pc' = [pc EXCEPT ![s] = x]
      BY <3>2, <1>0, <1>13 DEF PickNone, ThreadTypes
    <3> QED
      BY <3>1, <3>2, <1>13 DEF PickNone
  <2> QED
    BY <2>1, <2>2
<1>14. CASE TakeTooMany(s)
  <2>1. DetailTypes' /\ CounterTypes'
    <3>1. hand[s] \in Addrs
      BY <1>0, <1>14 DEF TakeTooMany, ThreadTypes
    <3> QED
      BY <3>1, <1>0, <1>14, CenterTypes DEF TakeTooMany, CenterStep
  <2>2. PeerTypes' /\ ThreadTypes' /\ ListenerTypes'
    BY <1>0, <1>14 DEF TakeTooMany, PutDown, EndLaunch, PeerTypes, ThreadTypes, ListenerTypes
  <2> QED
    BY <2>1, <2>2
<1>15. ASSUME NEW l \in Links, TakeLink(s, l) PROVE TypeOK'
  <2>1. DetailTypes' /\ CounterTypes' /\ ListenerTypes'
    BY <1>0, <1>15 DEF TakeLink, DetailTypes, CounterTypes, ListenerTypes
  <2>2. PeerTypes' /\ ThreadTypes'
    BY <1>0, <1>15 DEF TakeLink, Create, PutDown, PeerTypes, ThreadTypes
  <2> QED
    BY <2>1, <2>2
<1>16. CASE TakeFail(s)
  <2>1. DetailTypes' /\ CounterTypes'
    <3>1. hand[s] \in Addrs
      BY <1>0, <1>16 DEF TakeFail, ThreadTypes
    <3>2. CASE up[s]
      BY <3>2, <1>0, <1>16 DEF TakeFail, DetailTypes, CounterTypes
    <3>3. CASE ~up[s]
      BY <3>1, <3>3, <1>0, <1>16, CenterTypes DEF TakeFail, CenterStep
    <3> QED
      BY <3>2, <3>3
  <2>2. PeerTypes' /\ ThreadTypes' /\ ListenerTypes'
    BY <1>0, <1>16 DEF TakeFail, PutDown, PeerTypes, ThreadTypes, ListenerTypes
  <2> QED
    BY <2>1, <2>2
<1> QED
  BY <1>1, <1>2, <1>3, <1>4, <1>5, <1>6, <1>7, <1>8, <1>9, <1>10, <1>11, <1>12, <1>13,
     <1>14, <1>15, <1>16 DEF SessionStep

\* The steps of the sockets, of the listener and from outside keep the types.
LEMMA OtherTypes ==
  ASSUME LinkInv,
         \/ \E s \in Sessions : SocketStep(s)
         \/ ListenerStep
         \/ OutsideStep
         \/ UNCHANGED vars
  PROVE TypeOK'
<1>0. DetailTypes /\ CounterTypes /\ PeerTypes /\ ThreadTypes /\ ListenerTypes
  BY DEF LinkInv, TypeOK
<1> USE DEF TypeOK, details, counters, lists, peers, loops, listener
<1>1. ASSUME NEW s \in Sessions, NEW l \in Links, Outcome(s, l) \/ PeerCloses(s, l) PROVE TypeOK'
  <2>1. PeerTypes'
    BY <1>0, <1>1 DEF Outcome, PeerCloses, PeerTypes
  <2>2. DetailTypes' /\ CounterTypes' /\ ThreadTypes' /\ ListenerTypes'
    BY <1>0, <1>1 DEF Outcome, PeerCloses, DetailTypes, CounterTypes, ThreadTypes, ListenerTypes
  <2> QED
    BY <2>1, <2>2
<1>2. ASSUME NEW l \in Links, NEW a \in Addrs, GotHash(l, a) PROVE TypeOK'
  <2>1. DetailTypes' /\ CounterTypes' /\ ThreadTypes'
    BY <1>0, <1>2 DEF GotHash, DetailTypes, CounterTypes, ThreadTypes
  <2>2. PeerTypes'
    BY <1>0, <1>2 DEF GotHash, Create, PeerTypes
  <2>3. ListenerTypes'
    BY <1>0, <1>2 DEF GotHash, ListenerTypes
  <2> QED
    BY <2>1, <2>2, <2>3
<1>3. CASE TransferBegin
  BY <1>0, <1>3 DEF TransferBegin, DetailTypes, CounterTypes, PeerTypes, ThreadTypes, ListenerTypes
<1>4. CASE TransferOk
  <2>1. offer \in Links /\ addr[offer] \in Addrs /\ Asked \in Sessions
    BY <1>0, <1>4, SessionListAssumption DEF TransferOk, LinkInv, Apart, ListenerTypes, Asked
  <2>2. DetailTypes' /\ CounterTypes'
    BY <2>1, <1>0, <1>4, CenterTypes DEF TransferOk, CenterStep
  <2>3. PeerTypes' /\ ThreadTypes' /\ ListenerTypes'
    BY Positions, <2>1, <1>0, <1>4 DEF TransferOk, PeerTypes, ThreadTypes, ListenerTypes
  <2> QED
    BY <2>2, <2>3
<1>5. CASE TransferRefused
  <2>1. DetailTypes' /\ CounterTypes' /\ ThreadTypes'
    BY <1>0, <1>5 DEF TransferRefused, DetailTypes, CounterTypes, ThreadTypes
  <2>2. PeerTypes'
    BY <1>0, <1>5 DEF TransferRefused, Delete, PeerTypes
  <2>3. ListenerTypes'
    BY Positions, <1>0, <1>5 DEF TransferRefused, ListenerTypes
  <2> QED
    BY <2>1, <2>2, <2>3
<1>6. ASSUME NEW a \in Addrs, AddAvialablePeerInfo(a) \/ NextTryOver(a) \/ BanOver(a) PROVE TypeOK'
  <2>1. DetailTypes'
    BY <1>0, <1>6 DEF AddAvialablePeerInfo, NextTryOver, BanOver, DetailTypes
  <2>2. CounterTypes' /\ PeerTypes' /\ ThreadTypes' /\ ListenerTypes'
    BY <1>0, <1>6 DEF AddAvialablePeerInfo, NextTryOver, BanOver,
       CounterTypes, PeerTypes, ThreadTypes, ListenerTypes
  <2> QED
    BY <2>1, <2>2
<1>7. CASE CenterFinish
  BY <1>0, <1>7 DEF CenterFinish, DetailTypes, CounterTypes, PeerTypes, ThreadTypes, ListenerTypes
<1>8. ASSUME NEW s \in Sessions, NEW f \in Phases, SetFinish(s, f) PROVE TypeOK'
  BY <1>0, <1>8, PhasesAssumption
     DEF SetFinish, DetailTypes, CounterTypes, PeerTypes, ThreadTypes, ListenerTypes
<1>9. CASE UNCHANGED vars
  BY <1>0, <1>9 DEF vars, DetailTypes, CounterTypes, PeerTypes, ThreadTypes, ListenerTypes
<1> QED
  BY <1>1, <1>2, <1>3, <1>4, <1>5, <1>6, <1>7, <1>8, <1>9
     DEF SocketStep, ListenerStep, TransferStep, OutsideStep

-----------------------------------------------------------------------------
(* Where the peers are, and what is recorded of them.                      *)

Booked == Apart /\ HandOk /\ ConnectingOk /\ ConnectedOk /\ AddressBound

\* Steps that move no peer and touch no record the invariant looks at.
Still ==
    /\ UNCHANGED <<linking, linked, out, in, lists, addr, mine, hand, offer>>
    /\ holds' => offer # NoLink
    /\ \A s \in Sessions :
         \/ pc'[s] = pc[s] /\ moving'[s] = moving[s]
         \/ hand[s] = NoAddr /\ {pc[s], pc'[s]} \cap {"push", "report"} = {}
    /\ \A l \in Links : state[l] # "none" => state'[l] # "none"

\* Where the peers are does not change while no list, and no hand of the
\* listener, does, and no thread enters or leaves the middle of a move.
LEMMA ApartStill ==
  ASSUME LinkInv,
         UNCHANGED <<connecting, connected, addr, mine, offer>>,
         holds' => offer # NoLink,
         \A s \in Sessions :
            \/ pc'[s] = pc[s] /\ moving'[s] = moving[s]
            \/ {pc[s], pc'[s]} \cap {"push", "report"} = {},
         \A l \in Links : state[l] # "none" => state'[l] # "none"
  PROVE  Apart'
<1> USE DEF LinkInv
<1> DEFINE Listed(s) == connecting[s] \cup connected[s]
<1>0. /\ UNCHANGED <<connecting, connected, addr, mine, offer>>
      /\ \A s \in Sessions : Listed(s) \subseteq Links
      /\ offer \in Links \cup {NoLink}
  BY DEF TypeOK, PeerTypes, ListenerTypes
<1>1. ASSUME NEW s \in Sessions, NEW l \in connecting[s] \cup connected[s]
      PROVE  /\ state'[l] # "none" /\ addr'[l] \in Addrs /\ offer' # l
             /\ \A t \in Sessions : t # s => l \notin connecting'[t] \cup connected'[t]
  BY <1>0, <1>1 DEF Apart
<1>2. ASSUME NEW s \in Sessions
      PROVE  /\ \A l \in connecting[s] \cap connected[s] :
                   pc'[s] = "report" /\ moving'[s] = l
             /\ pc'[s] \in {"push", "report"} => moving'[s] \in connecting[s]
             /\ pc'[s] = "report" => moving'[s] \in connected[s]
  <2>1. CASE pc'[s] = pc[s] /\ moving'[s] = moving[s]
    BY <2>1 DEF Apart
  <2>2. CASE {pc[s], pc'[s]} \cap {"push", "report"} = {}
    BY <2>2 DEF Apart
  <2> QED
    BY <2>1, <2>2
<1>3. /\ holds' => offer' # NoLink
      /\ offer' # NoLink => /\ state'[offer'] # "none"
                            /\ addr'[offer'] \in Addrs /\ ~mine'[offer']
  BY <1>0 DEF Apart
<1> QED
  BY <1>0, <1>1, <1>2, <1>3 DEF Apart

\* So such a step keeps the whole invariant.
LEMMA StillKeeps == ASSUME LinkInv, Still PROVE Booked'
<1> USE DEF LinkInv, Still, lists
<1>1. Apart'
  BY ApartStill DEF Still
<1>2. HandOk' /\ ConnectingOk'
  BY DEF HandOk, ConnectingOk
<1>3. ConnectedOk'
  BY DEF ConnectedOk
<1>4. AddressBound'
  BY DEF AddressBound
<1> QED
  BY <1>1, <1>2, <1>3, <1>4 DEF Booked

\* The steps that do move a peer or touch its record, one after the other.
\* Each lemma first says what the step does to the records and the lists.

\* The types of what those steps look at.
LEMMA CoreTypes ==
  ASSUME LinkInv
  PROVE /\ linking \in [Addrs -> SUBSET Sessions] /\ linked \in [Addrs -> SUBSET Sessions]
        /\ out \in [Addrs -> Int] /\ in \in [Addrs -> Int]
        /\ connecting \in [Sessions -> SUBSET Links] /\ connected \in [Sessions -> SUBSET Links]
        /\ addr \in [Links -> Addrs \cup {NoAddr}] /\ mine \in [Links -> BOOLEAN]
        /\ state \in [Links -> {"none", "linking", "open", "failed", "closed"}]
        /\ pc \in [Sessions -> {"idle", "move", "push", "report", "reap",
                                "good", "any", "expire", "sweep"}]
        /\ hand \in [Sessions -> Addrs \cup {NoAddr}]
        /\ moving \in [Sessions -> Links \cup {NoLink}]
BY DEF LinkInv, TypeOK, DetailTypes, PeerTypes, ThreadTypes

\* The parts of the invariant.
LEMMA Parts == LinkInv => Apart /\ HandOk /\ ConnectingOk /\ ConnectedOk /\ AddressBound
BY DEF LinkInv

\* An attempt that is given back leaves its address to anybody.
LEMMA GiveBack ==
  ASSUME LinkInv, NEW s \in Sessions, NEW a \in Addrs, linking[a] = {s}, NotConnecting(s, a)
  PROVE /\ linking'[a] = {}
        /\ \A b \in Addrs : b # a => linking'[b] = linking[b]
BY CoreTypes DEF NotConnecting

\* The attempt of s to link to a ends; no link is closed, and it may have
\* become a link.
Ends(s, a) ==
    /\ linking[a] = {s}
    /\ linking'[a] = {}
    /\ \A b \in Addrs : b # a => linking'[b] = linking[b] /\ linked'[b] = linked[b]
    /\ linked'[a] \in {linked[a], linked[a] \cup {s}}
    /\ \A b \in Addrs : b # a => out'[b] = out[b]
    /\ out'[a] \in {out[a], out[a] + 1}
    /\ in' = in

\* An attempt that ends leaves its address within its bound.
LEMMA EndsBound ==
  ASSUME LinkInv, NEW s \in Sessions, NEW a \in Addrs, Ends(s, a)
  PROVE AddressBound'
<1> SUFFICES ASSUME NEW b \in Addrs
             PROVE out'[b] + in'[b] + (IF linking'[b] = {} THEN 0 ELSE 1) <= MostLinks
  BY DEF AddressBound
<1>1. out[b] + in[b] + (IF linking[b] = {} THEN 0 ELSE 1) <= MostLinks
  BY Parts DEF AddressBound
<1>2. out[b] \in Int /\ in[b] \in Int
  BY CoreTypes
<1>3. CASE b = a
  <2>1. linking[b] # {} /\ linking'[b] = {} /\ out'[b] \in {out[b], out[b] + 1} /\ in'[b] = in[b]
    BY <1>3 DEF Ends
  <2> QED
    BY <1>1, <1>2, <2>1, SessionNumType
<1>4. CASE b # a
  BY <1>1, <1>4 DEF Ends
<1> QED
  BY <1>3, <1>4

\* The other attempts keep their record: none of them is for a.
LEMMA EndsOthers ==
  ASSUME LinkInv, NEW s \in Sessions, NEW a \in Addrs, Ends(s, a)
  PROVE /\ \A t \in Sessions : hand[t] \notin {a, NoAddr} =>
             linking'[hand[t]] = {t} /\ t \notin linked'[hand[t]]
        /\ \A t \in Sessions : t # s => hand[t] # a
        /\ \A t \in Sessions : \A l \in connecting[t] : addr[l] # a =>
             linking'[addr[l]] = {t} /\ t \notin linked'[addr[l]]
        /\ \A t \in Sessions : \A l \in connecting[t] : t # s => addr[l] # a
        /\ \A b \in Addrs : linked[b] \subseteq linked'[b]
<1>1. \A t \in Sessions : hand[t] # NoAddr =>
        hand[t] \in Addrs /\ linking[hand[t]] = {t} /\ t \notin linked[hand[t]]
  BY CoreTypes, Parts DEF HandOk
<1>2. \A t \in Sessions : \A l \in connecting[t] :
        addr[l] \in Addrs /\ linking[addr[l]] = {t} /\ t \notin linked[addr[l]]
  BY Parts DEF ConnectingOk, Apart
<1>3. \A t \in Sessions : linking[a] = {t} => t = s
  BY DEF Ends
<1>4. /\ \A t \in Sessions : hand[t] \notin {a, NoAddr} =>
             linking'[hand[t]] = {t} /\ t \notin linked'[hand[t]]
      /\ \A t \in Sessions : t # s => hand[t] # a
  BY <1>1, <1>3, NoAddrAssumption DEF Ends
<1>5. /\ \A t \in Sessions : \A l \in connecting[t] : addr[l] # a =>
             linking'[addr[l]] = {t} /\ t \notin linked'[addr[l]]
      /\ \A t \in Sessions : \A l \in connecting[t] : t # s => addr[l] # a
  BY <1>2, <1>3 DEF Ends
<1>6. \A b \in Addrs : linked[b] \subseteq linked'[b]
  BY DEF Ends
<1> QED
  BY <1>4, <1>5, <1>6

\* A failed attempt is given back.
LEMMA ReapKeeps ==
  ASSUME LinkInv, NEW s \in Sessions, NEW l \in Links, Reap(s, l)
  PROVE Booked'
<1>1. /\ pc[s] = "reap" /\ l \in connecting[s] /\ l \notin connected[s]
      /\ addr[l] \in Addrs /\ linking[addr[l]] = {s} /\ hand[s] # addr[l] /\ offer # l
      /\ \A t \in Sessions : t # s => l \notin connecting[t] \cup connected[t]
      /\ \A m \in connecting[s] : m # l => addr[m] # addr[l]
  <2>1. l \in connecting[s] /\ pc[s] = "reap"
    BY DEF Reap
  <2> QED
    BY <2>1, Parts DEF Apart, ConnectingOk
<1>2. /\ connecting' = [connecting EXCEPT ![s] = @ \ {l}]
      /\ UNCHANGED <<connected, pc, hand, moving, offer, holds>>
      /\ addr' = [addr EXCEPT ![l] = NoAddr]
      /\ mine' = [mine EXCEPT ![l] = FALSE]
      /\ state' = [state EXCEPT ![l] = "none"]
  BY DEF Reap, Delete, loops, listener
<1>3. Ends(s, addr[l]) /\ linked' = linked
  <2>1. NotConnecting(s, addr[l]) /\ UNCHANGED <<linked, out, in>>
    BY DEF Reap, LinkReportFail, LinkOkButClose
  <2> QED
    BY <2>1, <1>1, GiveBack DEF Ends
<1>4. \A m \in Links : m # l => addr'[m] = addr[m] /\ mine'[m] = mine[m] /\ state'[m] = state[m]
  BY <1>2, CoreTypes
<1>5. /\ \A t \in Sessions : connecting'[t] \subseteq connecting[t]
      /\ \A t \in Sessions : t # s => connecting'[t] = connecting[t]
      /\ \A t \in Sessions : connecting'[t] \subseteq Links /\ connected[t] \subseteq Links
      /\ connecting'[s] = connecting[s] \ {l}
      /\ \A t \in Sessions : l \notin connecting'[t] \cup connected[t]
  BY <1>1, <1>2, CoreTypes
<1>6. Apart'
  BY <1>1, <1>2, <1>4, <1>5, Parts DEF Apart, LinkInv, TypeOK, ListenerTypes
<1>7. HandOk'
  BY <1>1, <1>2, <1>3, EndsOthers, Parts DEF HandOk
<1>8. ConnectingOk'
  <2> SUFFICES ASSUME NEW t \in Sessions, NEW m \in connecting'[t]
               PROVE /\ mine'[m] /\ linking'[addr'[m]] = {t} /\ t \notin linked'[addr'[m]]
                     /\ hand'[t] # addr'[m]
                     /\ \A n \in connecting'[t] : addr'[m] = addr'[n] => m = n
    BY DEF ConnectingOk
  <2>1. m \in connecting[t] /\ m # l /\ m \in Links /\ addr'[m] = addr[m] /\ mine'[m] = mine[m]
    BY <1>4, <1>5
  <2>2. addr[m] # addr[l]
    BY <1>1, <1>3, <2>1, EndsOthers
  <2>3. linking'[addr[m]] = {t} /\ t \notin linked'[addr[m]]
    BY <1>1, <1>3, <2>1, <2>2, EndsOthers
  <2> QED
    BY <1>2, <1>4, <1>5, <2>1, <2>3, Parts DEF ConnectingOk
<1>9. ConnectedOk'
  BY <1>2, <1>3, <1>4, <1>5, Parts DEF ConnectedOk
<1> QED
  BY <1>1, <1>3, <1>6, <1>7, <1>8, <1>9, EndsBound DEF Booked

\* CheckConnectedConnecting pushes the peer into the list of connected peers.
LEMMA PushKeeps ==
  ASSUME LinkInv, NEW s \in Sessions, Push(s)
  PROVE Booked'
<1> USE DEF LinkInv, TypeOK, DetailTypes, PeerTypes, ThreadTypes, ListenerTypes, lists, peers, details, counters, loops, listener, Goto
<1>0. Apart /\ HandOk /\ ConnectingOk /\ ConnectedOk /\ AddressBound
  OBVIOUS
<1>1. Apart'
  BY <1>0, NoLinkAssumption, NoAddrAssumption DEF Push, Apart
<1>2. HandOk'
  BY <1>0, NoAddrAssumption DEF Push, HandOk, ConnectingOk, Apart
<1>3. ConnectingOk'
  BY <1>0, NoAddrAssumption DEF Push, ConnectingOk, HandOk, Apart
<1>4. ConnectedOk'
  BY <1>0 DEF Push, ConnectedOk, ConnectingOk, Apart
<1>5. AddressBound'
  BY <1>0 DEF Push, AddressBound
<1> QED
  BY <1>1, <1>2, <1>3, <1>4, <1>5 DEF Booked

\* An address becomes an attempt.
LEMMA TakeLinkKeeps ==
  ASSUME LinkInv, NEW s \in Sessions, NEW l \in Links, TakeLink(s, l)
  PROVE Booked'
<1> USE DEF LinkInv, TypeOK, DetailTypes, PeerTypes, ThreadTypes, ListenerTypes, lists, peers, details, counters, loops, listener, Goto
<1>0. Apart /\ HandOk /\ ConnectingOk /\ ConnectedOk /\ AddressBound
  OBVIOUS
<1>1. Apart'
  BY <1>0, NoLinkAssumption, NoAddrAssumption DEF TakeLink, Create, PutDown, Apart
<1>2. HandOk'
  BY <1>0, NoAddrAssumption DEF TakeLink, Create, PutDown, HandOk, ConnectingOk, Apart
<1>3. ConnectingOk'
  BY <1>0, NoAddrAssumption DEF TakeLink, Create, PutDown, ConnectingOk, HandOk, Apart
<1>4. ConnectedOk'
  BY <1>0 DEF TakeLink, Create, PutDown, ConnectedOk, ConnectingOk, Apart
<1>5. AddressBound'
  BY <1>0 DEF TakeLink, Create, PutDown, AddressBound
<1> QED
  BY <1>1, <1>2, <1>3, <1>4, <1>5 DEF Booked

\* A new peer comes into the hands of the listener.
LEMMA GotHashKeeps ==
  ASSUME LinkInv, NEW l \in Links, NEW a \in Addrs, GotHash(l, a)
  PROVE Booked'
<1> USE DEF LinkInv, TypeOK, DetailTypes, PeerTypes, ThreadTypes, ListenerTypes, lists, peers, details, counters, loops, listener, Goto
<1>0. Apart /\ HandOk /\ ConnectingOk /\ ConnectedOk /\ AddressBound
  OBVIOUS
<1>1. Apart'
  BY <1>0, NoLinkAssumption, NoAddrAssumption DEF GotHash, Create, Apart
<1>2. HandOk'
  BY <1>0, NoAddrAssumption DEF GotHash, Create, HandOk, ConnectingOk, Apart
<1>3. ConnectingOk'
  BY <1>0, NoAddrAssumption DEF GotHash, Create, ConnectingOk, HandOk, Apart
<1>4. ConnectedOk'
  BY <1>0 DEF GotHash, Create, ConnectedOk, ConnectingOk, Apart
<1>5. AddressBound'
  BY <1>0 DEF GotHash, Create, AddressBound
<1> QED
  BY <1>1, <1>2, <1>3, <1>4, <1>5 DEF Booked

\* The listener drops its peer, or asks the next session.
LEMMA TransferRefusedKeeps ==
  ASSUME LinkInv, TransferRefused
  PROVE Booked'
<1> USE DEF LinkInv, TypeOK, DetailTypes, PeerTypes, ThreadTypes, ListenerTypes, lists, peers, details, counters, loops, listener, Goto
<1>0. Apart /\ HandOk /\ ConnectingOk /\ ConnectedOk /\ AddressBound
  OBVIOUS
<1>1. Apart'
  BY <1>0, NoLinkAssumption, NoAddrAssumption DEF TransferRefused, Delete, Apart
<1>2. HandOk'
  BY <1>0, NoAddrAssumption DEF TransferRefused, Delete, HandOk, ConnectingOk, Apart
<1>3. ConnectingOk'
  BY <1>0, NoAddrAssumption DEF TransferRefused, Delete, ConnectingOk, HandOk, Apart
<1>4. ConnectedOk'
  BY <1>0 DEF TransferRefused, Delete, ConnectedOk, ConnectingOk, Apart
<1>5. AddressBound'
  BY <1>0 DEF TransferRefused, Delete, AddressBound
<1> QED
  BY <1>1, <1>2, <1>3, <1>4, <1>5 DEF Booked

\* CheckConnectedConnecting picks a peer to move.
LEMMA MoveKeeps ==
  ASSUME LinkInv, NEW s \in Sessions, NEW l \in Links, Move(s, l)
  PROVE Booked'
<1>1. /\ UNCHANGED <<linking, linked, out, in, connecting, connected, addr, mine, state, hand, offer, holds>>
      /\ pc[s] = "move" /\ l \in connecting[s]
      /\ pc' = [pc EXCEPT ![s] = "push"] /\ moving' = [moving EXCEPT ![s] = l]
  BY DEF Move, Ready, Goto, details, counters, lists, peers, listener
<1>2. /\ \A t \in Sessions : t # s => pc'[t] = pc[t] /\ moving'[t] = moving[t]
      /\ pc'[s] = "push" /\ moving'[s] = l
  BY <1>1, CoreTypes
<1>3. hand[s] = NoAddr
  BY <1>1, Parts DEF HandOk
<1>4. Apart'
  BY <1>1, <1>2, Parts DEF Apart
<1>5. HandOk' /\ ConnectingOk'
  BY <1>1, <1>2, <1>3, Parts DEF HandOk, ConnectingOk
<1>6. ConnectedOk'
  BY <1>1, <1>2, Parts DEF ConnectedOk
<1>7. AddressBound'
  BY <1>1, Parts DEF AddressBound
<1> QED
  BY <1>4, <1>5, <1>6, <1>7 DEF Booked

\* The attempt is reported, and becomes a link.
LEMMA ReportKeeps ==
  ASSUME LinkInv, NEW s \in Sessions, Report(s)
  PROVE Booked'
<1> DEFINE l == moving[s]
<1>1. /\ pc[s] = "report" /\ l \in Links /\ l \in connecting[s] /\ l \in connected[s]
      /\ addr[l] \in Addrs /\ linking[addr[l]] = {s} /\ hand[s] = NoAddr /\ mine[l]
      /\ s \notin linked[addr[l]]
      /\ \A m \in connecting[s] : m # l => addr[m] # addr[l]
  <2>1. pc[s] = "report"
    BY DEF Report
  <2> QED
    BY <2>1, MovingTypes, Parts DEF Apart, ConnectingOk, HandOk
<1>2. /\ connecting' = [connecting EXCEPT ![s] = @ \ {l}]
      /\ UNCHANGED <<connected, addr, mine, state, hand, offer, holds>>
      /\ pc' = [pc EXCEPT ![s] = "move"] /\ moving' = [moving EXCEPT ![s] = NoLink]
  BY DEF Report, peers, listener, Goto
<1>3. Ends(s, addr[l]) /\ s \in linked'[addr[l]]
  <2>1. /\ NotConnecting(s, addr[l]) /\ in' = in
        /\ linked' = [linked EXCEPT ![addr[l]] = @ \cup {s}]
        /\ out' = [out EXCEPT ![addr[l]] = @ + 1]
    BY DEF Report, LinkReportOk
  <2>2. linked'[addr[l]] = linked[addr[l]] \cup {s} /\ out'[addr[l]] = out[addr[l]] + 1
    BY <2>1, <1>1, CoreTypes
  <2>3. \A b \in Addrs : b # addr[l] => linked'[b] = linked[b] /\ out'[b] = out[b]
    BY <2>1, CoreTypes
  <2> QED
    BY <2>1, <2>2, <2>3, <1>1, GiveBack DEF Ends
<1>4. /\ \A t \in Sessions : connecting'[t] \subseteq connecting[t]
      /\ \A t \in Sessions : t # s => connecting'[t] = connecting[t] /\ pc'[t] = pc[t] /\ moving'[t] = moving[t]
      /\ connecting'[s] = connecting[s] \ {l}
      /\ pc'[s] = "move"
  BY <1>2, CoreTypes
<1> HIDE DEF l
<1>5. Apart'
  BY <1>1, <1>2, <1>4, Parts DEF Apart, l
<1>6. HandOk'
  BY <1>1, <1>2, <1>3, <1>4, EndsOthers, Parts, NoAddrAssumption DEF HandOk
<1>7. ConnectingOk'
  <2> SUFFICES ASSUME NEW t \in Sessions, NEW m \in connecting'[t]
               PROVE /\ mine'[m] /\ linking'[addr'[m]] = {t} /\ t \notin linked'[addr'[m]]
                     /\ hand'[t] # addr'[m]
                     /\ \A n \in connecting'[t] : addr'[m] = addr'[n] => m = n
    BY DEF ConnectingOk
  <2>1. m \in connecting[t] /\ (t = s => m # l)
    BY <1>4
  <2>2. addr[m] # addr[l]
    BY <1>1, <1>3, <2>1, EndsOthers
  <2>3. linking'[addr[m]] = {t} /\ t \notin linked'[addr[m]]
    BY <1>1, <1>3, <2>1, <2>2, EndsOthers
  <2> QED
    BY <1>2, <1>4, <2>1, <2>3, Parts DEF ConnectingOk
<1>8. ConnectedOk'
  <2> SUFFICES ASSUME NEW t \in Sessions, NEW m \in connected[t], mine[m]
               PROVE /\ t \in linked'[addr[m]] \/ (pc'[t] = "report" /\ moving'[t] = m)
                     /\ \A n \in connected[t] : mine[n] /\ addr[m] = addr[n] => m = n
    BY <1>2 DEF ConnectedOk
  <2>1. /\ t \in linked[addr[m]] \/ (pc[t] = "report" /\ moving[t] = m)
        /\ \A n \in connected[t] : mine[n] /\ addr[m] = addr[n] => m = n
    BY Parts DEF ConnectedOk
  <2>2. linked[addr[m]] \subseteq linked'[addr[m]]
    BY <1>1, <1>3, EndsOthers, Parts DEF Apart
  <2>3. CASE t = s /\ m = l
    BY <2>1, <2>3, <1>3
  <2>4. CASE ~(t = s /\ m = l)
    BY <2>1, <2>2, <2>4, <1>4 DEF l
  <2> QED
    BY <2>3, <2>4
<1> QED
  BY <1>1, <1>3, <1>5, <1>6, <1>7, <1>8, EndsBound DEF Booked

\* A closed peer is reported and deleted.
LEMMA SweepKeeps ==
  ASSUME LinkInv, NEW s \in Sessions, NEW l \in Links, Sweep(s, l)
  PROVE Booked'
<1>1. /\ pc[s] = "sweep" /\ l \in connected[s] /\ l \notin connecting[s]
      /\ addr[l] \in Addrs /\ mine[l] \in BOOLEAN /\ hand[s] = NoAddr /\ offer # l
      /\ \A t \in Sessions : t # s => l \notin connecting[t] \cup connected[t]
  <2>1. l \in connected[s] /\ pc[s] = "sweep"
    BY DEF Sweep
  <2> QED
    BY <2>1, Parts, CoreTypes DEF Apart, HandOk
<1>2. /\ connected' = [connected EXCEPT ![s] = @ \ {l}]
      /\ UNCHANGED <<connecting, linking, pc, hand, moving, offer, holds>>
      /\ addr' = [addr EXCEPT ![l] = NoAddr]
      /\ mine' = [mine EXCEPT ![l] = FALSE]
      /\ state' = [state EXCEPT ![l] = "none"]
  BY DEF Sweep, CloseReport, Delete, loops, listener
<1>3. /\ linked' = IF mine[l] THEN [linked EXCEPT ![addr[l]] = @ \ {s}] ELSE linked
      /\ out' = IF mine[l] THEN [out EXCEPT ![addr[l]] = @ - 1] ELSE out
      /\ in' = IF mine[l] THEN in ELSE [in EXCEPT ![addr[l]] = @ - 1]
  BY DEF Sweep, CloseReport
<1>4. \A m \in Links : m # l => addr'[m] = addr[m] /\ mine'[m] = mine[m] /\ state'[m] = state[m]
  BY <1>2, CoreTypes
<1>5. /\ \A t \in Sessions : connected'[t] \subseteq connected[t]
      /\ \A t \in Sessions : t # s => connected'[t] = connected[t]
      /\ \A t \in Sessions : connecting[t] \subseteq Links /\ connected'[t] \subseteq Links
      /\ connected'[s] = connected[s] \ {l}
      /\ \A t \in Sessions : l \notin connecting[t] \cup connected'[t]
  BY <1>1, <1>2, CoreTypes
<1>6. /\ \A b \in Addrs : linked'[b] \subseteq linked[b]
      /\ \A t \in Sessions : \A b \in Addrs : t # s \/ b # addr[l] \/ ~mine[l] =>
           (t \in linked'[b] <=> t \in linked[b])
  BY <1>1, <1>3, CoreTypes
<1>7. Apart'
  BY <1>1, <1>2, <1>4, <1>5, Parts DEF Apart, LinkInv, TypeOK, ListenerTypes
<1>8. HandOk'
  BY <1>2, <1>6, Parts, CoreTypes DEF HandOk
<1>9. ConnectingOk'
  <2> SUFFICES ASSUME NEW t \in Sessions, NEW m \in connecting[t]
               PROVE /\ mine'[m] /\ linking'[addr'[m]] = {t} /\ t \notin linked'[addr'[m]]
                     /\ hand'[t] # addr'[m]
                     /\ \A n \in connecting[t] : addr'[m] = addr'[n] => m = n
    BY <1>2 DEF ConnectingOk
  <2>1. \A n \in connecting[t] : addr'[n] = addr[n] /\ mine'[n] = mine[n]
    BY <1>4, <1>5
  <2>2. addr[m] \in Addrs
    BY Parts DEF Apart
  <2>3. /\ mine[m] /\ linking[addr[m]] = {t} /\ t \notin linked[addr[m]] /\ hand[t] # addr[m]
        /\ \A n \in connecting[t] : addr[m] = addr[n] => m = n
    BY Parts DEF ConnectingOk
  <2>4. t \notin linked'[addr[m]]
    BY <1>6, <2>2, <2>3
  <2>5. addr'[m] = addr[m] /\ mine'[m] = mine[m] /\ linking' = linking /\ hand' = hand
    BY <1>2, <2>1
  <2>6. \A n \in connecting[t] : addr'[m] = addr'[n] => m = n
    BY <2>1, <2>3, <2>5
  <2> QED
    BY <2>3, <2>4, <2>5, <2>6
<1>10. ConnectedOk'
  <2> SUFFICES ASSUME NEW t \in Sessions, NEW m \in connected'[t], mine'[m]
               PROVE /\ t \in linked'[addr'[m]] \/ (pc[t] = "report" /\ moving[t] = m)
                     /\ \A n \in connected'[t] : mine'[n] /\ addr'[m] = addr'[n] => m = n
    BY <1>2 DEF ConnectedOk
  <2>1. \A n \in connected'[t] : addr'[n] = addr[n] /\ mine'[n] = mine[n] /\ n \in connected[t] /\ n # l
    BY <1>4, <1>5
  <2>2. /\ t \in linked[addr[m]] \/ (pc[t] = "report" /\ moving[t] = m)
        /\ \A n \in connected[t] : mine[n] /\ addr[m] = addr[n] => m = n
    BY <2>1, Parts DEF ConnectedOk
  <2>3. addr[m] \in Addrs
    BY <2>1, Parts DEF Apart
  <2>4. t # s \/ addr[m] # addr[l] \/ ~mine[l]
    BY <1>1, <2>1, <2>2
  <2> QED
    BY <1>6, <2>1, <2>2, <2>3, <2>4
<1>11. AddressBound'
  <2> SUFFICES ASSUME NEW b \in Addrs
               PROVE out'[b] + in'[b] + (IF linking[b] = {} THEN 0 ELSE 1) <= MostLinks
    BY <1>2 DEF AddressBound
  <2>1. out[b] + in[b] + (IF linking[b] = {} THEN 0 ELSE 1) <= MostLinks
    BY Parts DEF AddressBound
  <2>2. out[b] \in Int /\ in[b] \in Int
    BY CoreTypes
  <2>3. \/ out'[b] = out[b] /\ in'[b] = in[b]
        \/ out'[b] = out[b] - 1 /\ in'[b] = in[b]
        \/ out'[b] = out[b] /\ in'[b] = in[b] - 1
    BY <1>1, <1>3, CoreTypes
  <2> QED
    BY <2>1, <2>2, <2>3, SessionNumType
<1> QED
  BY <1>7, <1>8, <1>9, <1>10, <1>11 DEF Booked

\* An address is taken: no session was linking to it.
LEMMA PickKeeps ==
  ASSUME LinkInv, NEW s \in Sessions, NEW a \in Addrs, Pick(s, a)
  PROVE Booked'
<1>1. /\ linking[a] = {} /\ s \notin linked[a] /\ out[a] + in[a] < SessionNum
      /\ hand[s] = NoAddr /\ pc[s] \in {"good", "any"}
  BY DEF Pick, MayPick, Linkable, AvialableForLink
<1>2. /\ UNCHANGED <<linked, out, in, connecting, connected, addr, mine, state, pc, moving, offer, holds>>
      /\ linking' = [linking EXCEPT ![a] = @ \cup {s}]
      /\ hand' = [hand EXCEPT ![s] = a]
  BY DEF Pick, GetPeerInfoToLink, lists, peers, listener
<1>3. /\ linking'[a] = {s} /\ hand'[s] = a
      /\ \A b \in Addrs : b # a => linking'[b] = linking[b]
      /\ \A t \in Sessions : t # s => hand'[t] = hand[t]
  BY <1>1, <1>2, CoreTypes
<1>4. \A t \in Sessions : hand[t] # a /\ \A l \in connecting[t] : addr[l] # a /\ addr[l] \in Addrs
  <2>1. \A t \in Sessions : linking[a] # {t}
    BY <1>1
  <2> QED
    BY <2>1, Parts, NoAddrAssumption DEF HandOk, ConnectingOk, Apart
<1>5. Apart'
  BY <1>2, ApartStill, Parts DEF Apart
<1>6. HandOk'
  BY <1>1, <1>2, <1>3, <1>4, Parts, CoreTypes DEF HandOk
<1>7. ConnectingOk'
  BY <1>2, <1>3, <1>4, Parts DEF ConnectingOk
<1>8. ConnectedOk'
  BY <1>2, Parts DEF ConnectedOk
<1>9. AddressBound'
  <2> SUFFICES ASSUME NEW b \in Addrs
               PROVE out[b] + in[b] + (IF linking'[b] = {} THEN 0 ELSE 1) <= MostLinks
    BY <1>2 DEF AddressBound
  <2>1. CASE b = a
    BY <2>1, <1>1, CoreTypes, SessionNumType
  <2>2. CASE b # a
    BY <2>2, <1>3, Parts DEF AddressBound
  <2> QED
    BY <2>1, <2>2
<1> QED
  BY <1>5, <1>6, <1>7, <1>8, <1>9 DEF Booked

\* The address is put down again: given back, or lost.
LEMMA PutDownKeeps ==
  ASSUME LinkInv, NEW s \in Sessions, hand[s] # NoAddr, PutDown(s),
         UNCHANGED <<linked, out, in, connecting, connected, addr, mine, state, moving, offer, holds>>,
         \A t \in Sessions : t # s => pc'[t] = pc[t],
         pc'[s] \notin {"push", "report"},
         linking' = linking \/ NotConnecting(s, hand[s])
  PROVE Booked'
<1>1. /\ hand[s] \in Addrs /\ linking[hand[s]] = {s} /\ pc[s] \notin {"push", "report"}
      /\ \A l \in connecting[s] : addr[l] # hand[s]
  BY Parts, CoreTypes DEF HandOk, ConnectingOk
<1>2. hand'[s] = NoAddr /\ \A t \in Sessions : t # s => hand'[t] = hand[t]
  BY CoreTypes DEF PutDown
<1>3. Apart'
  <2>1. \A t \in Sessions : \/ pc'[t] = pc[t] /\ moving'[t] = moving[t]
                            \/ {pc[t], pc'[t]} \cap {"push", "report"} = {}
    BY <1>1
  <2> QED
    BY <2>1, ApartStill, Parts DEF Apart
<1>4. ConnectedOk'
  BY <1>1, Parts DEF ConnectedOk
<1>5. CASE linking' = linking
  <2>1. HandOk' /\ ConnectingOk'
    BY <1>2, <1>5, Parts, NoAddrAssumption DEF HandOk, ConnectingOk, Apart
  <2>2. AddressBound'
    BY <1>5, Parts DEF AddressBound
  <2> QED
    BY <2>1, <2>2, <1>3, <1>4 DEF Booked
<1>6. CASE NotConnecting(s, hand[s])
  <2>1. Ends(s, hand[s])
    BY <1>1, <1>6, GiveBack DEF Ends
  <2>2. HandOk'
    BY <1>1, <1>2, <2>1, EndsOthers, Parts DEF HandOk
  <2>3. ConnectingOk'
    <3> SUFFICES ASSUME NEW t \in Sessions, NEW m \in connecting[t]
                 PROVE /\ mine[m] /\ linking'[addr[m]] = {t} /\ t \notin linked'[addr[m]]
                       /\ hand'[t] # addr[m]
                       /\ \A n \in connecting[t] : addr[m] = addr[n] => m = n
      BY DEF ConnectingOk
    <3>1. addr[m] # hand[s] /\ addr[m] \in Addrs
      BY <1>1, <2>1, EndsOthers, Parts DEF Apart
    <3>2. linking'[addr[m]] = {t} /\ t \notin linked'[addr[m]]
      BY <1>1, <2>1, <3>1, EndsOthers
    <3> QED
      BY <3>1, <3>2, <1>2, Parts, NoAddrAssumption DEF ConnectingOk
  <2> QED
    BY <1>1, <2>1, <2>2, <2>3, <1>3, <1>4, EndsBound DEF Booked
<1> QED
  BY <1>5, <1>6

\* Too many attempts are under way: the address is given back.
LEMMA TakeTooManyKeeps ==
  ASSUME LinkInv, NEW s \in Sessions, TakeTooMany(s)
  PROVE Booked'
<1>1. /\ hand[s] # NoAddr /\ PutDown(s) /\ NotConnecting(s, hand[s])
      /\ UNCHANGED <<linked, out, in, connecting, connected, addr, mine, state, moving, offer, holds>>
      /\ pc' = [pc EXCEPT ![s] = IF up[s] THEN "idle" ELSE "expire"]
  BY DEF TakeTooMany, GiveUpLink, EndLaunch, Goto, lists, peers, listener
<1>2. pc'[s] \notin {"push", "report"} /\ \A t \in Sessions : t # s => pc'[t] = pc[t]
  BY <1>1, CoreTypes
<1> QED
  BY <1>1, <1>2, PutDownKeeps

\* A socket cannot be created: the address is lost or given back.
LEMMA TakeFailKeeps ==
  ASSUME LinkInv, NEW s \in Sessions, TakeFail(s)
  PROVE Booked'
<1>1. /\ hand[s] # NoAddr /\ PutDown(s)
      /\ linking' = linking \/ NotConnecting(s, hand[s])
      /\ UNCHANGED <<linked, out, in, connecting, connected, addr, mine, state, pc, moving, offer, holds>>
  BY DEF TakeFail, GiveUpLink, lists, peers, listener, details
<1>2. pc[s] \notin {"push", "report"}
  BY <1>1, Parts DEF HandOk
<1> QED
  BY <1>1, <1>2, PutDownKeeps

\* The listener puts its peer into the list of a session.
LEMMA TransferOkKeeps ==
  ASSUME LinkInv, TransferOk
  PROVE Booked'
<1> DEFINE s == Asked
<1>1. /\ s \in Sessions /\ offer \in Links /\ addr[offer] \in Addrs /\ ~mine[offer]
      /\ state[offer] # "none"
      /\ \A t \in Sessions : offer \notin connecting[t] \cup connected[t]
  BY Parts, SessionListAssumption DEF TransferOk, LinkInv, TypeOK, ListenerTypes, Apart, Asked
<1>2. /\ UNCHANGED <<linking, linked, out, connecting, addr, mine, state, pc, hand, moving>>
      /\ in' = [in EXCEPT ![addr[offer]] = @ + 1]
      /\ connected' = [connected EXCEPT ![s] = @ \cup {offer}]
      /\ offer' = NoLink /\ ~holds'
  BY DEF TransferOk, TryAcceptPeerLink, peers, loops
<1>3. out[addr[offer]] + in[addr[offer]] <= 2
  BY DEF TransferOk, MayAccept
<1> HIDE DEF s
<1>4. /\ connected'[s] = connected[s] \cup {offer}
      /\ \A t \in Sessions : t # s => connected'[t] = connected[t]
      /\ in'[addr[offer]] = in[addr[offer]] + 1
      /\ \A b \in Addrs : b # addr[offer] => in'[b] = in[b]
  BY <1>1, <1>2, CoreTypes
<1>5. \A t \in Sessions : connecting[t] \subseteq Links /\ connected'[t] \subseteq Links
  BY <1>1, <1>4, CoreTypes
<1>6. Apart'
  BY <1>1, <1>2, <1>4, <1>5, Parts, NoLinkAssumption DEF Apart
<1>7. HandOk' /\ ConnectingOk'
  BY <1>2, Parts DEF HandOk, ConnectingOk
<1>8. ConnectedOk'
  BY <1>1, <1>2, <1>4, Parts DEF ConnectedOk
<1>9. AddressBound'
  <2> SUFFICES ASSUME NEW b \in Addrs
               PROVE out[b] + in'[b] + (IF linking[b] = {} THEN 0 ELSE 1) <= MostLinks
    BY <1>2 DEF AddressBound
  <2>1. CASE b = addr[offer]
    BY <2>1, <1>3, <1>4, CoreTypes, SessionNumType
  <2>2. CASE b # addr[offer]
    BY <2>2, <1>4, Parts DEF AddressBound
  <2> QED
    BY <2>1, <2>2
<1> QED
  BY <1>6, <1>7, <1>8, <1>9 DEF Booked
--------------------------------------------------------------------------------
\* All the other steps of a session leave the peers and their records alone.
LEMMA SessionKeeps ==
  ASSUME LinkInv, NEW s \in Sessions, SessionStep(s)
  PROVE Booked'
<1> USE DEF details, counters, lists, peers, loops, listener, Goto
<1>1. \A x \in {"idle", "move", "reap", "sweep", "expire"} : pc[s] = x => hand[s] = NoAddr
  BY Parts DEF HandOk
<1>2. holds => offer # NoLink
  BY Parts DEF Apart
<1>3. CASE Round(s)
  BY <1>1, <1>2, <1>3, CoreTypes, StillKeeps DEF Round, Still
<1>4. CASE MoveNone(s)
  BY <1>1, <1>2, <1>4, CoreTypes, StillKeeps DEF MoveNone, Still
<1>5. CASE \E l \in Links : Move(s, l)
  BY <1>5, MoveKeeps
<1>6. CASE Push(s)
  BY <1>6, PushKeeps
<1>7. CASE Report(s)
  BY <1>7, ReportKeeps
<1>8. CASE MoveFull(s)
  <2>1. \A l \in Links : state[l] # "none" => state'[l] # "none"
    BY <1>8, CoreTypes DEF MoveFull
  <2> QED
    BY <2>1, <1>1, <1>2, <1>8, CoreTypes, StillKeeps DEF MoveFull, Still
<1>9. CASE \E l \in Links : Reap(s, l)
  BY <1>9, ReapKeeps
<1>10. CASE EndReap(s)
  <2>1. pc' = [pc EXCEPT ![s] = "sweep"] \/ pc' = [pc EXCEPT ![s] = "good"]
    BY <1>10 DEF EndReap
  <2> QED
    BY <2>1, <1>1, <1>2, <1>10, CoreTypes, StillKeeps DEF EndReap, Still
<1>11. CASE \E l \in Links : Sweep(s, l)
  BY <1>11, SweepKeeps
<1>12. CASE EndSweep(s)
  <2>1. pc' = [pc EXCEPT ![s] = "any"] \/ pc' = [pc EXCEPT ![s] = "idle"]
    BY <1>12 DEF EndSweep
  <2> QED
    BY <2>1, <1>1, <1>2, <1>12, CoreTypes, StillKeeps DEF EndSweep, Still
<1>13. CASE Expire(s)
  <2>1. \A l \in Links : state[l] # "none" => state'[l] # "none"
    BY <1>13, CoreTypes DEF Expire
  <2> QED
    BY <2>1, <1>1, <1>2, <1>13, CoreTypes, StillKeeps DEF Expire, Still
<1>14. CASE \E a \in Addrs : Pick(s, a)
  BY <1>14, PickKeeps
<1>15. CASE PickNone(s)
  <2>1. \E x \in {"good", "any", "idle", "expire"} : pc' = [pc EXCEPT ![s] = x]
    BY <1>15 DEF PickNone, EndLaunch
  <2>2. /\ UNCHANGED <<linking, linked, out, in, lists, addr, mine, state, hand, moving, offer, holds>>
        /\ hand[s] = NoAddr /\ pc[s] \in {"good", "any"}
    BY <1>15 DEF PickNone
  <2> QED
    BY <2>1, <2>2, <1>2, CoreTypes, StillKeeps DEF Still
<1>16. CASE TakeTooMany(s)
  BY <1>16, TakeTooManyKeeps
<1>17. CASE \E l \in Links : TakeLink(s, l)
  BY <1>17, TakeLinkKeeps
<1>18. CASE TakeFail(s)
  BY <1>18, TakeFailKeeps
<1> QED
  BY <1>3, <1>4, <1>5, <1>6, <1>7, <1>8, <1>9, <1>10, <1>11, <1>12, <1>13, <1>14, <1>15,
     <1>16, <1>17, <1>18 DEF SessionStep

\* So do the steps of the sockets, of the listener and from outside.
LEMMA OtherKeeps ==
  ASSUME LinkInv,
         \/ \E s \in Sessions : SocketStep(s)
         \/ ListenerStep
         \/ OutsideStep
         \/ UNCHANGED vars
  PROVE Booked'
<1> USE DEF details, counters, lists, peers, loops, listener
<1>1. holds => offer # NoLink
  BY Parts DEF Apart
<1>2. ASSUME NEW s \in Sessions, NEW l \in Links, Outcome(s, l) \/ PeerCloses(s, l) PROVE Booked'
  <2>1. \A m \in Links : state[m] # "none" => state'[m] # "none"
    BY <1>2, CoreTypes DEF Outcome, PeerCloses
  <2> QED
    BY <2>1, <1>1, <1>2, StillKeeps DEF Outcome, PeerCloses, Still
<1>3. CASE \E l \in Links, a \in Addrs : GotHash(l, a)
  BY <1>3, GotHashKeeps
<1>4. CASE TransferBegin
  BY <1>4, StillKeeps DEF TransferBegin, Still
<1>5. CASE TransferOk
  BY <1>5, TransferOkKeeps
<1>6. CASE TransferRefused
  BY <1>6, TransferRefusedKeeps
<1>7. CASE OutsideStep
  BY <1>7, <1>1, StillKeeps
     DEF OutsideStep, AddAvialablePeerInfo, NextTryOver, BanOver, CenterFinish, SetFinish, Still
<1>8. CASE UNCHANGED vars
  BY <1>8, <1>1, StillKeeps DEF vars, Still
<1> QED
  BY <1>2, <1>3, <1>4, <1>5, <1>6, <1>7, <1>8 DEF SocketStep, ListenerStep, TransferStep

-----------------------------------------------------------------------------
\* The invariant holds in every reachable state: CPeerCenter's records of the
\* attempts and of the launched links are those of the sessions' lists.
THEOREM LinksRecorded == Spec => []LinkInv
<1>1. LinkInv /\ [Next]_vars => LinkInv'
  <2> SUFFICES ASSUME LinkInv, [Next]_vars PROVE LinkInv'
    OBVIOUS
  <2>1. TypeOK' /\ Booked'
    BY SessionTypes, SessionKeeps, OtherTypes, OtherKeeps DEF Next
  <2> QED
    BY <2>1 DEF LinkInv, Booked
<1> QED
  BY InitInv, <1>1, PTL DEF Spec

\* CPeerAdmin and CPeerCenter: a session never has two links it launched to
\* one address, and two sessions never try one address at the same time.
THEOREM LaunchedOnce == Spec => []OneLaunched
<1>1. LinkInv => OneLaunched
  <2> SUFFICES ASSUME LinkInv PROVE OneLaunched
    OBVIOUS
  <2>1. Apart /\ ConnectingOk /\ ConnectedOk
    BY Parts
  <2>2. ASSUME NEW s \in Sessions, NEW l \in connecting[s], NEW m \in connected[s],
               mine[m], addr[l] = addr[m]
        PROVE l = m
    <3>1. s \notin linked[addr[m]]
      BY <2>1, <2>2 DEF ConnectingOk
    <3>2. pc[s] = "report" /\ moving[s] = m
      BY <2>1, <2>2, <3>1 DEF ConnectedOk
    <3>3. m \in connecting[s]
      BY <2>1, <3>2 DEF Apart
    <3> QED
      BY <2>1, <2>2, <3>3 DEF ConnectingOk
  <2>3. ASSUME NEW s \in Sessions, NEW a \in Addrs, NEW l \in Launched(s, a), NEW m \in Launched(s, a)
        PROVE l = m
    <3>1. CASE l \in connecting[s] /\ m \in connecting[s]
      BY <2>1, <3>1 DEF Launched, ConnectingOk
    <3>2. CASE l \in connected[s] /\ m \in connected[s]
      BY <2>1, <3>2 DEF Launched, ConnectedOk
    <3>3. CASE l \in connecting[s] /\ m \in connected[s]
      BY <2>2, <3>3 DEF Launched
    <3>4. CASE l \in connected[s] /\ m \in connecting[s]
      BY <2>2, <3>4 DEF Launched
    <3> QED
      BY <3>1, <3>2, <3>3, <3>4 DEF Launched
  <2>4. ASSUME NEW s \in Sessions, NEW t \in Sessions,
               NEW l \in connecting[s], NEW m \in connecting[t], addr[l] = addr[m]
        PROVE s = t
    <3>1. linking[addr[l]] = {s} /\ linking[addr[m]] = {t}
      BY <2>1 DEF ConnectingOk
    <3> QED
      BY <3>1, <2>4
  <2> QED
    BY <2>3, <2>4 DEF OneLaunched
<1> QED
  BY LinksRecorded, <1>1, PTL

\* CPeerCenter: launched, accepted and attempted links to one address are four
\* at most with the two sessions of the program.
THEOREM FewLinks == Spec => []AddressBound
<1>1. LinkInv => AddressBound
  BY Parts
<1> QED
  BY LinksRecorded, <1>1, PTL

\* Every variable keeps its type; the counters stay integers.
THEOREM LinkTypes == Spec => []TypeOK
<1>1. LinkInv => TypeOK
  BY DEF LinkInv
<1> QED
  BY LinksRecorded, <1>1, PTL

-----------------------------------------------------------------------------
(* The books: counters, records and lists tell the same story.             *)

\* g gives session s a member that no session has in f, and is f otherwise.
Gains(f, g, s, x) ==
    /\ s \in Sessions
    /\ \A t \in Sessions : x \notin f[t]
    /\ g[s] = f[s] \cup {x}
    /\ \A t \in Sessions : t # s => g[t] = f[t]
    /\ IsFiniteSet(AllOf(f))

\* g takes a member from session s that no other session has in f.
Loses(f, g, s, x) ==
    /\ s \in Sessions
    /\ x \in f[s]
    /\ \A t \in Sessions : t # s => x \notin f[t]
    /\ g[s] = f[s] \ {x}
    /\ \A t \in Sessions : t # s => g[t] = f[t]
    /\ IsFiniteSet(AllOf(f))

\* What the union of the sets of all sessions does when one of them gains a
\* member that no session had.
LEMMA GainOne ==
  ASSUME NEW f, NEW g, NEW s, NEW x, Gains(f, g, s, x)
  PROVE /\ AllOf(g) = AllOf(f) \cup {x} /\ x \notin AllOf(f)
        /\ IsFiniteSet(AllOf(g))
        /\ Cardinality(AllOf(f)) \in Nat
        /\ Cardinality(AllOf(g)) = Cardinality(AllOf(f)) + 1
        /\ Cardinality(g[s]) = Cardinality(f[s]) + 1
<1> USE DEF Gains
<1>1. AllOf(g) = AllOf(f) \cup {x} /\ x \notin AllOf(f)
  BY DEF AllOf
<1>2. IsFiniteSet(f[s]) /\ x \notin f[s]
  BY FS_Subset DEF AllOf
<1>3. Cardinality(f[s]) \in Nat /\ Cardinality(AllOf(f)) \in Nat
  BY <1>2, FS_CardinalityType
<1>4. /\ IsFiniteSet(AllOf(f) \cup {x})
      /\ Cardinality(AllOf(f) \cup {x}) = Cardinality(AllOf(f)) + 1
  BY <1>1, <1>3, FS_AddElement
<1>5. Cardinality(f[s] \cup {x}) = Cardinality(f[s]) + 1
  BY <1>2, <1>3, FS_AddElement
<1> QED
  BY <1>1, <1>3, <1>4, <1>5

\* And when one of them loses a member that no other session has.
LEMMA LoseOne ==
  ASSUME NEW f, NEW g, NEW s, NEW x, Loses(f, g, s, x)
  PROVE /\ AllOf(g) = AllOf(f) \ {x} /\ x \in AllOf(f)
        /\ IsFiniteSet(AllOf(g))
        /\ Cardinality(AllOf(f)) \in Nat
        /\ Cardinality(AllOf(g)) = Cardinality(AllOf(f)) - 1
        /\ Cardinality(g[s]) = Cardinality(f[s]) - 1
<1> USE DEF Loses
<1>1. AllOf(g) = AllOf(f) \ {x} /\ x \in AllOf(f)
  BY DEF AllOf
<1>2. IsFiniteSet(f[s]) /\ x \in f[s]
  BY FS_Subset DEF AllOf
<1>3. Cardinality(f[s]) \in Nat /\ Cardinality(AllOf(f)) \in Nat
  BY <1>2, FS_CardinalityType
<1>4. /\ IsFiniteSet(AllOf(f) \ {x})
      /\ Cardinality(AllOf(f) \ {x}) = Cardinality(AllOf(f)) - 1
  BY <1>1, <1>3, FS_RemoveElement
<1>5. Cardinality(f[s] \ {x}) = Cardinality(f[s]) - 1
  BY <1>2, <1>3, FS_RemoveElement
<1> QED
  BY <1>1, <1>3, <1>4, <1>5

\* Sets that do not change have the same union.
LEMMA SameAll ==
  ASSUME NEW f, NEW g, \A t \in Sessions : g[t] = f[t]
  PROVE AllOf(g) = AllOf(f)
BY DEF AllOf

\* Lists of peers are finite.
LEMMA ListsFinite ==
  ASSUME NEW f \in [Sessions -> SUBSET Links]
  PROVE /\ IsFiniteSet(AllOf(f)) /\ Cardinality(AllOf(f)) \in Nat /\ AllOf(f) \subseteq Links
        /\ \A s \in Sessions : IsFiniteSet(f[s]) /\ Cardinality(f[s]) \in Nat
<1>1. AllOf(f) \subseteq Links
  BY DEF AllOf
<1>2. \A s \in Sessions : f[s] \subseteq Links
  OBVIOUS
<1> QED
  BY <1>1, <1>2, LinksAssumption, FS_Subset, FS_CardinalityType

\* The attempts that are counted: what ConnectingExact says, and that the ones
\* lost are finitely many.
Attempts == ConnectingExact /\ IsFiniteSet(LostAttempts)

\* What is known of the sets the counters of attempts are compared with.
LEMMA AttemptTypes ==
  ASSUME LinkInv, Attempts
  PROVE /\ connecting \in [Sessions -> SUBSET Links]
        /\ IsFiniteSet(AllOf(connecting)) /\ Cardinality(AllOf(connecting)) \in Nat
        /\ \A s \in Sessions : IsFiniteSet(connecting[s]) /\ Cardinality(connecting[s]) \in Nat
        /\ IsFiniteSet(Hands) /\ Cardinality(Hands) \in Nat
        /\ IsFiniteSet(LostAttempts) /\ Cardinality(LostAttempts) \in Nat
        /\ lost \in [Sessions -> Nat]
        /\ sessConnecting \in [Sessions -> Int] /\ nConnecting \in Int
<1>1. connecting \in [Sessions -> SUBSET Links]
  BY CoreTypes
<1>2. lost \in [Sessions -> Nat] /\ sessConnecting \in [Sessions -> Int] /\ nConnecting \in Int
  BY DEF LinkInv, TypeOK, CounterTypes
<1>3. IsFiniteSet(Hands)
  BY SessionsAssumption, FS_Subset DEF Hands
<1> QED
  BY <1>1, <1>2, <1>3, ListsFinite, FS_CardinalityType DEF Attempts

\* The counters of attempts are compared with these only.
LEMMA AttemptsSame ==
  ASSUME Attempts, UNCHANGED <<nConnecting, sessConnecting, connecting, hand, lost>>
  PROVE Attempts'
BY DEF Attempts, ConnectingExact, Underway, AllOf, Hands, LostAttempts

\* A hand takes an address, or puts it down.
LEMMA HandMoves ==
  ASSUME LinkInv, Attempts, NEW s \in Sessions, NEW a \in Addrs \cup {NoAddr},
         hand' = [hand EXCEPT ![s] = a], (hand[s] = NoAddr) # (a = NoAddr)
  PROVE /\ IsFiniteSet(Hands')
        /\ Cardinality(Hands') = Cardinality(Hands) + (IF a = NoAddr THEN -1 ELSE 1)
        /\ hand'[s] = a /\ \A t \in Sessions : t # s => hand'[t] = hand[t]
<1>1. hand'[s] = a /\ \A t \in Sessions : t # s => hand'[t] = hand[t]
  BY CoreTypes
<1>2. CASE a = NoAddr
  <2>1. s \in Hands /\ Hands' = Hands \ {s}
    BY <1>1, <1>2 DEF Hands
  <2> QED
    BY <1>1, <1>2, <2>1, AttemptTypes, FS_RemoveElement
<1>3. CASE a # NoAddr
  <2>1. s \notin Hands /\ Hands' = Hands \cup {s}
    BY <1>1, <1>3 DEF Hands
  <2> QED
    BY <1>1, <1>3, <2>1, AttemptTypes, FS_AddElement
<1> QED
  BY <1>2, <1>3

\* An attempt begins: an address is taken.
LEMMA AttemptBegins ==
  ASSUME LinkInv, Attempts, NEW s \in Sessions, NEW a \in Addrs, Pick(s, a)
  PROVE Attempts'
<1>1. /\ hand[s] = NoAddr /\ hand' = [hand EXCEPT ![s] = a]
      /\ nConnecting' = nConnecting + 1
      /\ sessConnecting' = [sessConnecting EXCEPT ![s] = @ + 1]
      /\ UNCHANGED <<connecting, lost>>
  BY DEF Pick, MayPick, GetPeerInfoToLink, lists
<1>2. /\ Cardinality(Hands') = Cardinality(Hands) + 1
      /\ hand'[s] = a /\ \A t \in Sessions : t # s => hand'[t] = hand[t]
  BY <1>1, HandMoves, NoAddrAssumption
<1>3. LostAttempts' = LostAttempts /\ AllOf(connecting)' = AllOf(connecting)
  BY <1>1 DEF LostAttempts, AllOf
<1>4. nConnecting' = Cardinality(AllOf(connecting)') + Cardinality(Hands') + Cardinality(LostAttempts')
  BY <1>1, <1>2, <1>3, AttemptTypes DEF Attempts, ConnectingExact
<1>5. ASSUME NEW t \in Sessions PROVE sessConnecting'[t] = Underway(t)'
  <2>1. sessConnecting[t] = Underway(t)
    BY DEF Attempts, ConnectingExact
  <2>2. CASE t = s
    BY <1>1, <1>2, <2>1, <2>2, AttemptTypes, NoAddrAssumption DEF Underway
  <2>3. CASE t # s
    BY <1>1, <1>2, <2>1, <2>3, AttemptTypes DEF Underway
  <2> QED
    BY <2>2, <2>3
<1> QED
  BY <1>3, <1>4, <1>5 DEF Attempts, ConnectingExact

\* An address is put down, and the attempt given back.
LEMMA AttemptGivenBack ==
  ASSUME LinkInv, Attempts, NEW s \in Sessions, hand[s] # NoAddr, PutDown(s),
         NotConnecting(s, hand[s]), UNCHANGED <<connecting, lost>>
  PROVE Attempts'
<1>1. /\ nConnecting' = nConnecting - 1
      /\ sessConnecting' = [sessConnecting EXCEPT ![s] = @ - 1]
  BY DEF NotConnecting
<1>2. /\ Cardinality(Hands') = Cardinality(Hands) - 1
      /\ hand'[s] = NoAddr /\ \A t \in Sessions : t # s => hand'[t] = hand[t]
  BY HandMoves DEF PutDown
<1>3. LostAttempts' = LostAttempts /\ AllOf(connecting)' = AllOf(connecting)
  BY DEF LostAttempts, AllOf
<1>4. nConnecting' = Cardinality(AllOf(connecting)') + Cardinality(Hands') + Cardinality(LostAttempts')
  BY <1>1, <1>2, <1>3, AttemptTypes DEF Attempts, ConnectingExact
<1>5. ASSUME NEW t \in Sessions PROVE sessConnecting'[t] = Underway(t)'
  <2>1. sessConnecting[t] = Underway(t)
    BY DEF Attempts, ConnectingExact
  <2>2. CASE t = s
    BY <1>1, <1>2, <2>1, <2>2, AttemptTypes DEF Underway
  <2>3. CASE t # s
    BY <1>1, <1>2, <2>1, <2>3, AttemptTypes DEF Underway
  <2> QED
    BY <2>2, <2>3
<1> QED
  BY <1>3, <1>4, <1>5 DEF Attempts, ConnectingExact

\* An address is put down and nothing said: the attempt is lost.
LEMMA AttemptLost ==
  ASSUME LinkInv, Attempts, NEW s \in Sessions, hand[s] # NoAddr, PutDown(s),
         lost' = [lost EXCEPT ![s] = @ + 1],
         UNCHANGED <<nConnecting, sessConnecting, connecting>>
  PROVE Attempts'
<1> DEFINE Set(n) == 1 .. n
           f == [t \in Sessions |-> {t} \X Set(lost[t])]
           g == [t \in Sessions |-> {t} \X Set(lost'[t])]
           x == <<s, lost[s] + 1>>
<1>1. lost'[s] = lost[s] + 1 /\ lost[s] \in Nat /\ \A t \in Sessions : t # s => lost'[t] = lost[t]
  BY AttemptTypes
<1>2. AllOf(f) = LostAttempts /\ AllOf(g) = LostAttempts'
  BY DEF LostAttempts, AllOf
<1>3. \A t \in Sessions : x \notin f[t]
  BY <1>1
<1>4. g[s] = f[s] \cup {x}
  <2>1. Set(lost[s] + 1) = Set(lost[s]) \cup {lost[s] + 1}
    BY <1>1
  <2>2. g[s] = {s} \X (Set(lost[s]) \cup {lost[s] + 1}) /\ f[s] = {s} \X Set(lost[s])
    BY <1>1, <2>1
  <2> HIDE DEF Set
  <2> QED
    BY <2>2
<1>5. \A t \in Sessions : t # s => g[t] = f[t]
  BY <1>1
<1>6. IsFiniteSet(AllOf(f))
  BY <1>2, AttemptTypes
<1> HIDE DEF f, g, x
<1>7. Gains(f, g, s, x)
  BY <1>3, <1>4, <1>5, <1>6 DEF Gains
<1>8. /\ IsFiniteSet(AllOf(g))
      /\ Cardinality(AllOf(g)) = Cardinality(AllOf(f)) + 1
  BY <1>7, GainOne
<1>9. /\ IsFiniteSet(LostAttempts')
      /\ Cardinality(LostAttempts') = Cardinality(LostAttempts) + 1
  BY <1>2, <1>8
<1>10. /\ Cardinality(Hands') = Cardinality(Hands) - 1
      /\ hand'[s] = NoAddr /\ \A t \in Sessions : t # s => hand'[t] = hand[t]
  BY HandMoves DEF PutDown
<1>11. nConnecting' = Cardinality(AllOf(connecting)') + Cardinality(Hands') + Cardinality(LostAttempts')
  BY <1>9, <1>10, AttemptTypes DEF Attempts, ConnectingExact, AllOf
<1>12. ASSUME NEW t \in Sessions PROVE sessConnecting'[t] = Underway(t)'
  <2>1. sessConnecting[t] = Underway(t)
    BY DEF Attempts, ConnectingExact
  <2>2. CASE t = s
    BY <1>1, <1>10, <2>1, <2>2, AttemptTypes DEF Underway
  <2>3. CASE t # s
    BY <1>1, <1>10, <2>1, <2>3, AttemptTypes DEF Underway
  <2> QED
    BY <2>2, <2>3
<1> QED
  BY <1>9, <1>11, <1>12 DEF Attempts, ConnectingExact

\* An address becomes a peer that is connecting.
LEMMA AttemptLaunched ==
  ASSUME LinkInv, Attempts, NEW s \in Sessions, NEW l \in Links, TakeLink(s, l)
  PROVE Attempts'
<1>1. /\ hand[s] # NoAddr /\ PutDown(s) /\ state[l] = "none"
      /\ connecting' = [connecting EXCEPT ![s] = @ \cup {l}]
      /\ UNCHANGED <<nConnecting, sessConnecting, lost>>
  BY DEF TakeLink, counters
<1>2. \A t \in Sessions : l \notin connecting[t]
  BY <1>1, Parts DEF Apart
<1>3. connecting'[s] = connecting[s] \cup {l} /\ \A t \in Sessions : t # s => connecting'[t] = connecting[t]
  BY <1>1, AttemptTypes
<1>4. /\ Cardinality(AllOf(connecting')) = Cardinality(AllOf(connecting)) + 1
      /\ Cardinality(connecting'[s]) = Cardinality(connecting[s]) + 1
  <2>1. Gains(connecting, connecting', s, l)
    BY <1>2, <1>3, AttemptTypes DEF Gains
  <2> QED
    BY <2>1, GainOne
<1>5. /\ Cardinality(Hands') = Cardinality(Hands) - 1
      /\ hand'[s] = NoAddr /\ \A t \in Sessions : t # s => hand'[t] = hand[t]
  BY <1>1, HandMoves DEF PutDown
<1>6. LostAttempts' = LostAttempts /\ AllOf(connecting)' = AllOf(connecting')
  BY <1>1 DEF LostAttempts, AllOf
<1>7. nConnecting' = Cardinality(AllOf(connecting)') + Cardinality(Hands') + Cardinality(LostAttempts')
  BY <1>1, <1>4, <1>5, <1>6, AttemptTypes DEF Attempts, ConnectingExact
<1>8. ASSUME NEW t \in Sessions PROVE sessConnecting'[t] = Underway(t)'
  <2>1. sessConnecting[t] = Underway(t)
    BY DEF Attempts, ConnectingExact
  <2>2. CASE t = s
    BY <1>1, <1>4, <1>5, <2>1, <2>2, AttemptTypes DEF Underway
  <2>3. CASE t # s
    BY <1>1, <1>3, <1>5, <2>1, <2>3, AttemptTypes DEF Underway
  <2> QED
    BY <2>2, <2>3
<1> QED
  BY <1>6, <1>7, <1>8 DEF Attempts, ConnectingExact

\* A peer leaves the list of connecting peers, and its attempt is given back.
LEMMA AttemptEnds ==
  ASSUME LinkInv, Attempts, NEW s \in Sessions, NEW l \in connecting[s], NEW a \in Addrs,
         connecting' = [connecting EXCEPT ![s] = @ \ {l}],
         NotConnecting(s, a), UNCHANGED <<hand, lost>>
  PROVE Attempts'
<1>1. /\ nConnecting' = nConnecting - 1
      /\ sessConnecting' = [sessConnecting EXCEPT ![s] = @ - 1]
  BY DEF NotConnecting
<1>2. \A t \in Sessions : t # s => l \notin connecting[t]
  BY Parts DEF Apart
<1>3. connecting'[s] = connecting[s] \ {l} /\ \A t \in Sessions : t # s => connecting'[t] = connecting[t]
  BY AttemptTypes
<1>4. /\ Cardinality(AllOf(connecting')) = Cardinality(AllOf(connecting)) - 1
      /\ Cardinality(connecting'[s]) = Cardinality(connecting[s]) - 1
  <2>1. Loses(connecting, connecting', s, l)
    BY <1>2, <1>3, AttemptTypes DEF Loses
  <2> QED
    BY <2>1, LoseOne
<1>5. LostAttempts' = LostAttempts /\ AllOf(connecting)' = AllOf(connecting') /\ Hands' = Hands
  BY DEF LostAttempts, AllOf, Hands
<1>6. nConnecting' = Cardinality(AllOf(connecting)') + Cardinality(Hands') + Cardinality(LostAttempts')
  BY <1>1, <1>4, <1>5, AttemptTypes DEF Attempts, ConnectingExact
<1>7. ASSUME NEW t \in Sessions PROVE sessConnecting'[t] = Underway(t)'
  <2>1. sessConnecting[t] = Underway(t)
    BY DEF Attempts, ConnectingExact
  <2>2. CASE t = s
    BY <1>1, <1>4, <2>1, <2>2, AttemptTypes DEF Underway
  <2>3. CASE t # s
    BY <1>1, <1>3, <2>1, <2>3, AttemptTypes DEF Underway
  <2> QED
    BY <2>2, <2>3
<1> QED
  BY <1>5, <1>6, <1>7 DEF Attempts, ConnectingExact

\* The links that are counted: what ConnectionExact and BooksMatch say.
Connections == ConnectionExact /\ BooksMatch

\* The reported links are listed, and so are not in the hands of the listener.
LEMMA ToldTypes ==
  ASSUME LinkInv
  PROVE /\ Told \in [Sessions -> SUBSET Links]
        /\ \A s \in Sessions : Told[s] = Reported(s) /\ Told[s] \subseteq connected[s]
        /\ IsFiniteSet(AllOf(Told)) /\ Cardinality(AllOf(Told)) \in Nat
        /\ \A s \in Sessions : Cardinality(Told[s]) \in Nat
        /\ \A l \in AllOf(Told) : l \in Links /\ addr[l] \in Addrs /\ mine[l] \in BOOLEAN
                                  /\ state[l] # "none" /\ l # offer
        /\ nConnection \in Int /\ sessConnection \in [Sessions -> Int]
<1>1. Told \in [Sessions -> SUBSET Links] /\ \A s \in Sessions : Told[s] = Reported(s) /\ Told[s] \subseteq connected[s]
  BY CoreTypes DEF Told, Reported
<1>2. /\ IsFiniteSet(AllOf(Told)) /\ Cardinality(AllOf(Told)) \in Nat
      /\ \A s \in Sessions : Cardinality(Told[s]) \in Nat
  BY <1>1, ListsFinite
<1>3. \A l \in AllOf(Told) : l \in Links /\ addr[l] \in Addrs /\ mine[l] \in BOOLEAN
                             /\ state[l] # "none" /\ l # offer
  <2> SUFFICES ASSUME NEW l \in AllOf(Told)
               PROVE l \in Links /\ addr[l] \in Addrs /\ mine[l] \in BOOLEAN
                     /\ state[l] # "none" /\ l # offer
    OBVIOUS
  <2>1. PICK s \in Sessions : l \in Told[s]
    BY DEF AllOf
  <2>2. l \in connected[s]
    BY <1>1, <2>1
  <2> QED
    BY <2>2, CoreTypes, Parts DEF Apart
<1> QED
  BY <1>1, <1>2, <1>3 DEF LinkInv, TypeOK, CounterTypes

\* The links to one address are some of the finitely many.
LEMMA LinksToFinite ==
  ASSUME LinkInv, NEW a, NEW d
  PROVE IsFiniteSet(LinksTo(a, d)) /\ Cardinality(LinksTo(a, d)) \in Nat
<1>1. LinksTo(a, d) \subseteq AllOf(Told)
  BY DEF LinksTo
<1> QED
  BY <1>1, ToldTypes, FS_Subset, FS_CardinalityType

\* A session is recorded as linked if and only if it has a reported link that
\* it launched.
LEMMA LinkedMeans ==
  ASSUME LinkInv, NEW a, NEW s \in Sessions
  PROVE Reported(s) \cap LinksTo(a, TRUE) # {}
          <=> \E l \in Told[s] : addr[l] = a /\ mine[l]
<1>1. Told[s] = Reported(s)
  BY ToldTypes
<1>2. \A l \in Told[s] : l \in AllOf(Told) /\ mine[l] \in BOOLEAN
  BY ToldTypes DEF AllOf
<1> QED
  BY <1>1, <1>2 DEF LinksTo

\* Nothing is told of, and no peer of a reported link changes.
LEMMA ConnectionsSame ==
  ASSUME LinkInv, LinkInv', Connections,
         \A s \in Sessions : Told'[s] = Told[s],
         \A l \in AllOf(Told) : addr'[l] = addr[l] /\ mine'[l] = mine[l],
         UNCHANGED <<out, in, linked, nConnection, sessConnection>>
  PROVE Connections'
<1>1. AllOf(Told') = AllOf(Told) /\ AllOf(Told)' = AllOf(Told')
  BY SameAll DEF AllOf
<1>2. \A a \in Addrs, d \in BOOLEAN : LinksTo(a, d)' = LinksTo(a, d)
  BY <1>1 DEF LinksTo
<1>3. \A s \in Sessions : Reported(s)' = Reported(s)
  BY ToldTypes DEF Told
<1> QED
  BY <1>1, <1>2, <1>3 DEF Connections, ConnectionExact, BooksMatch

\* A link is counted: launched and reported, or accepted.
LEMMA ConnectionsGain ==
  ASSUME LinkInv, LinkInv', Connections, NEW s \in Sessions, NEW l \in Links,
         Gains(Told, Told', s, l),
         \A m \in AllOf(Told) \cup {l} : addr'[m] = addr[m] /\ mine'[m] = mine[m],
         addr[l] \in Addrs,
         nConnection' = nConnection + 1,
         sessConnection' = [sessConnection EXCEPT ![s] = @ + 1],
         out' = IF mine[l] THEN [out EXCEPT ![addr[l]] = @ + 1] ELSE out,
         in' = IF mine[l] THEN in ELSE [in EXCEPT ![addr[l]] = @ + 1],
         linked' = IF mine[l] THEN [linked EXCEPT ![addr[l]] = @ \cup {s}] ELSE linked
  PROVE Connections'
<1>1. /\ AllOf(Told') = AllOf(Told) \cup {l} /\ l \notin AllOf(Told)
      /\ Cardinality(AllOf(Told')) = Cardinality(AllOf(Told)) + 1
      /\ Cardinality(Told'[s]) = Cardinality(Told[s]) + 1
      /\ AllOf(Told)' = AllOf(Told')
  <2>1. AllOf(Told)' = AllOf(Told')
    BY DEF AllOf
  <2> QED
    BY <2>1, GainOne
<1>2. /\ Told'[s] = Told[s] \cup {l}
      /\ \A t \in Sessions : t # s => Told'[t] = Told[t]
  BY DEF Gains
<1>3. mine[l] \in BOOLEAN
  BY CoreTypes
<1>4. ConnectionExact'
  <2>1. nConnection' = Cardinality(AllOf(Told)')
    BY <1>1, ToldTypes DEF Connections, ConnectionExact
  <2>2. ASSUME NEW t \in Sessions PROVE sessConnection'[t] = Cardinality(Reported(t)')
    <3>1. sessConnection[t] = Cardinality(Told[t]) /\ Reported(t)' = Told'[t]
      BY ToldTypes DEF Connections, ConnectionExact, Told
    <3>2. sessConnection'[t] = IF t = s THEN sessConnection[t] + 1 ELSE sessConnection[t]
      BY ToldTypes
    <3> QED
      BY <1>1, <1>2, <3>1, <3>2
  <2> QED
    BY <2>1, <2>2 DEF ConnectionExact
<1>5. ASSUME NEW a \in Addrs, NEW d \in BOOLEAN
      PROVE Cardinality(LinksTo(a, d)') =
              Cardinality(LinksTo(a, d)) + (IF addr[l] = a /\ mine[l] = d THEN 1 ELSE 0)
  <2>1. l \notin LinksTo(a, d)
    BY <1>1 DEF LinksTo
  <2>2. LinksTo(a, d)' = IF addr[l] = a /\ mine[l] = d THEN LinksTo(a, d) \cup {l} ELSE LinksTo(a, d)
    BY <1>1 DEF LinksTo
  <2>3. Cardinality(LinksTo(a, d) \cup {l}) = Cardinality(LinksTo(a, d)) + 1
    BY <2>1, LinksToFinite, FS_AddElement
  <2> QED
    BY <2>2, <2>3, LinksToFinite
<1>6. ASSUME NEW a \in Addrs PROVE out'[a] = Cardinality(LinksTo(a, TRUE)')
  <2>1. out[a] = Cardinality(LinksTo(a, TRUE))
    BY DEF Connections, BooksMatch
  <2>2. out'[a] = out[a] + (IF addr[l] = a /\ mine[l] = TRUE THEN 1 ELSE 0)
    BY <1>3, CoreTypes
  <2> QED
    BY <1>5, <2>1, <2>2
<1>7. ASSUME NEW a \in Addrs PROVE in'[a] = Cardinality(LinksTo(a, FALSE)')
  <2>1. in[a] = Cardinality(LinksTo(a, FALSE))
    BY DEF Connections, BooksMatch
  <2>2. in'[a] = in[a] + (IF addr[l] = a /\ mine[l] = FALSE THEN 1 ELSE 0)
    BY <1>3, CoreTypes
  <2> QED
    BY <1>5, <2>1, <2>2
<1>8. ASSUME NEW a \in Addrs
      PROVE linked'[a] = {t \in Sessions : Reported(t)' \cap LinksTo(a, TRUE)' # {}}
  <2>1. \A t \in Sessions : t \in linked[a] <=> \E m \in Told[t] : addr[m] = a /\ mine[m]
    <3>1. linked[a] = {t \in Sessions : Reported(t) \cap LinksTo(a, TRUE) # {}}
      BY DEF Connections, BooksMatch
    <3>2. ASSUME NEW t \in Sessions
          PROVE Reported(t) \cap LinksTo(a, TRUE) # {} <=> \E m \in Told[t] : addr[m] = a /\ mine[m]
      BY LinkedMeans
    <3> QED
      BY <3>1, <3>2
  <2>2. \A t \in Sessions : Reported(t)' \cap LinksTo(a, TRUE)' # {}
                             <=> \E m \in Told'[t] : addr'[m] = a /\ mine'[m]
    <3>1. \A t \in Sessions : Reported(t)' = Told'[t]
      BY DEF Told
    <3>2. \A t \in Sessions : \A m \in Told'[t] : m \in AllOf(Told)'
      BY <1>1 DEF AllOf
    <3>3. \A m \in AllOf(Told)' : mine'[m] \in BOOLEAN
      BY <1>1, <1>3, ToldTypes
    <3> QED
      BY <3>1, <3>2, <3>3 DEF LinksTo
  <2>3. \A t \in Sessions : \A m \in Told[t] : m \in AllOf(Told)
    BY DEF AllOf
  <2>4. /\ linked'[a] \subseteq Sessions
        /\ \A t \in Sessions : t \in linked'[a] <=> t \in linked[a] \/ (t = s /\ mine[l] /\ addr[l] = a)
    BY CoreTypes
  <2>5. \A t \in Sessions : t \in linked'[a] <=> \E m \in Told'[t] : addr'[m] = a /\ mine'[m]
    BY <1>2, <2>1, <2>3, <2>4
  <2> QED
    BY <2>2, <2>4, <2>5
<1> QED
  BY <1>4, <1>6, <1>7, <1>8 DEF Connections, BooksMatch

\* A link is taken off.
LEMMA ConnectionsLose ==
  ASSUME LinkInv, LinkInv', Connections, NEW s \in Sessions, NEW l \in Links,
         Loses(Told, Told', s, l),
         \A m \in AllOf(Told) \ {l} : addr'[m] = addr[m] /\ mine'[m] = mine[m],
         mine[l] => \A m \in Told[s] : mine[m] /\ addr[m] = addr[l] => m = l,
         nConnection' = nConnection - 1,
         sessConnection' = [sessConnection EXCEPT ![s] = @ - 1],
         out' = IF mine[l] THEN [out EXCEPT ![addr[l]] = @ - 1] ELSE out,
         in' = IF mine[l] THEN in ELSE [in EXCEPT ![addr[l]] = @ - 1],
         linked' = IF mine[l] THEN [linked EXCEPT ![addr[l]] = @ \ {s}] ELSE linked
  PROVE Connections'
<1>1. /\ AllOf(Told') = AllOf(Told) \ {l} /\ l \in AllOf(Told)
      /\ Cardinality(AllOf(Told')) = Cardinality(AllOf(Told)) - 1
      /\ Cardinality(Told'[s]) = Cardinality(Told[s]) - 1
      /\ AllOf(Told)' = AllOf(Told')
  <2>1. AllOf(Told)' = AllOf(Told')
    BY DEF AllOf
  <2> QED
    BY <2>1, LoseOne
<1>2. /\ Told'[s] = Told[s] \ {l} /\ l \in Told[s]
      /\ \A t \in Sessions : t # s => Told'[t] = Told[t] /\ l \notin Told[t]
  BY DEF Loses
<1>3. mine[l] \in BOOLEAN /\ addr[l] \in Addrs
  BY <1>1, ToldTypes
<1>4. ConnectionExact'
  <2>1. nConnection' = Cardinality(AllOf(Told)')
    BY <1>1, ToldTypes DEF Connections, ConnectionExact
  <2>2. ASSUME NEW t \in Sessions PROVE sessConnection'[t] = Cardinality(Reported(t)')
    <3>1. sessConnection[t] = Cardinality(Told[t]) /\ Reported(t)' = Told'[t]
      BY ToldTypes DEF Connections, ConnectionExact, Told
    <3>2. sessConnection'[t] = IF t = s THEN sessConnection[t] - 1 ELSE sessConnection[t]
      BY ToldTypes
    <3> QED
      BY <1>1, <1>2, <3>1, <3>2
  <2> QED
    BY <2>1, <2>2 DEF ConnectionExact
<1>5. ASSUME NEW a \in Addrs, NEW d \in BOOLEAN
      PROVE Cardinality(LinksTo(a, d)') =
              Cardinality(LinksTo(a, d)) - (IF addr[l] = a /\ mine[l] = d THEN 1 ELSE 0)
  <2>1. l \in LinksTo(a, d) <=> addr[l] = a /\ mine[l] = d
    BY <1>1 DEF LinksTo
  <2>2. LinksTo(a, d)' = LinksTo(a, d) \ {l}
    BY <1>1 DEF LinksTo
  <2>3. Cardinality(LinksTo(a, d) \ {l}) =
          IF l \in LinksTo(a, d) THEN Cardinality(LinksTo(a, d)) - 1 ELSE Cardinality(LinksTo(a, d))
    BY LinksToFinite, FS_RemoveElement
  <2> QED
    BY <2>1, <2>2, <2>3, LinksToFinite
<1>6. ASSUME NEW a \in Addrs PROVE out'[a] = Cardinality(LinksTo(a, TRUE)')
  <2>1. out[a] = Cardinality(LinksTo(a, TRUE))
    BY DEF Connections, BooksMatch
  <2>2. out'[a] = out[a] - (IF addr[l] = a /\ mine[l] = TRUE THEN 1 ELSE 0)
    BY <1>3, CoreTypes
  <2> QED
    BY <1>5, <2>1, <2>2
<1>7. ASSUME NEW a \in Addrs PROVE in'[a] = Cardinality(LinksTo(a, FALSE)')
  <2>1. in[a] = Cardinality(LinksTo(a, FALSE))
    BY DEF Connections, BooksMatch
  <2>2. in'[a] = in[a] - (IF addr[l] = a /\ mine[l] = FALSE THEN 1 ELSE 0)
    BY <1>3, CoreTypes
  <2> QED
    BY <1>5, <2>1, <2>2
<1>8. ASSUME NEW a \in Addrs
      PROVE linked'[a] = {t \in Sessions : Reported(t)' \cap LinksTo(a, TRUE)' # {}}
  <2>1. \A t \in Sessions : t \in linked[a] <=> \E m \in Told[t] : addr[m] = a /\ mine[m]
    <3>1. linked[a] = {t \in Sessions : Reported(t) \cap LinksTo(a, TRUE) # {}}
      BY DEF Connections, BooksMatch
    <3>2. ASSUME NEW t \in Sessions
          PROVE Reported(t) \cap LinksTo(a, TRUE) # {} <=> \E m \in Told[t] : addr[m] = a /\ mine[m]
      BY LinkedMeans
    <3> QED
      BY <3>1, <3>2
  <2>2. \A t \in Sessions : Reported(t)' \cap LinksTo(a, TRUE)' # {}
                             <=> \E m \in Told'[t] : addr'[m] = a /\ mine'[m]
    <3>1. \A t \in Sessions : Reported(t)' = Told'[t]
      BY DEF Told
    <3>2. \A t \in Sessions : \A m \in Told'[t] : m \in AllOf(Told)'
      BY <1>1 DEF AllOf
    <3>3. \A m \in AllOf(Told)' : mine'[m] \in BOOLEAN
      BY <1>1, <1>3, ToldTypes
    <3> QED
      BY <3>1, <3>2, <3>3 DEF LinksTo
  <2>3. \A t \in Sessions : \A m \in Told[t] : m \in AllOf(Told)
    BY DEF AllOf
  <2>4. /\ linked'[a] \subseteq Sessions
        /\ \A t \in Sessions : t \in linked'[a] <=> t \in linked[a] /\ ~(t = s /\ mine[l] /\ addr[l] = a)
    BY <1>3, CoreTypes
  <2>5. ASSUME NEW t \in Sessions
        PROVE t \in linked'[a] <=> \E m \in Told'[t] : addr'[m] = a /\ mine'[m]
    <3>1. CASE t = s
      BY <1>2, <2>1, <2>3, <2>4, <3>1
    <3>2. CASE t # s
      BY <1>2, <2>1, <2>3, <2>4, <3>2
    <3> QED
      BY <3>1, <3>2
  <2> QED
    BY <2>2, <2>4, <2>5
<1> QED
  BY <1>4, <1>6, <1>7, <1>8 DEF Connections, BooksMatch

\* The limit of a list is one of the two limits, and no less than either that
\* is in use.
LEMMA Limits ==
  /\ MostConnected \in Nat
  /\ LinkMax <= MostConnected
  /\ TRUE \in Phases => 3 * UploadLinkMax <= MostConnected
<1> DEFINE u == 3 * UploadLinkMax
           both == TRUE \in Phases
<1>1. LinkMax \in Nat /\ u \in Nat
  BY LimitsAssumption
<1>2. MostConnected = IF both /\ LinkMax < u THEN u ELSE LinkMax
  BY Zenon DEF MostConnected
<1>3. both \in BOOLEAN
  OBVIOUS
<1> HIDE DEF u, both
<1>4. MostConnected \in Nat /\ LinkMax <= MostConnected /\ (both => u <= MostConnected)
  BY <1>1, <1>2, <1>3
<1> QED
  BY <1>4, Zenon DEF u, both

\* The room in the lists, as one invariant.
Room == RoomLeft /\ ListBound

\* Lists that do not grow keep their bound, if no push and no transfer begins.
LEMMA RoomStill ==
  ASSUME LinkInv, Room,
         \A s \in Sessions : connected'[s] \subseteq connected[s],
         \A s \in Sessions : pc'[s] = "push" => pc[s] = "push",
         finish' \in [Sessions -> Phases],
         holds' => holds /\ offerAt' = offerAt
  PROVE Room'
<1>1. ASSUME NEW s \in Sessions
      PROVE /\ Cardinality(connected[s]) \in Nat /\ Cardinality(connected'[s]) \in Nat
            /\ Cardinality(connected'[s]) <= Cardinality(connected[s])
  <2>1. IsFiniteSet(connected[s]) /\ connected'[s] \in SUBSET connected[s]
    BY ListsFinite, CoreTypes
  <2> QED
    BY <2>1, FS_Subset, FS_CardinalityType
<1>2. Asked \in Sessions
  BY SessionListAssumption DEF Asked, LinkInv, TypeOK, ListenerTypes
<1>3. ListBound'
  <2>1. \A s \in Sessions : Cardinality(connected[s]) <= MostConnected + 1
    BY DEF Room, ListBound
  <2> QED
    BY <1>1, <2>1, Limits DEF ListBound
<1>4. holds' => Cardinality(connected'[Asked']) < MostConnected
  <2> SUFFICES ASSUME holds' PROVE Cardinality(connected'[Asked']) < MostConnected
    OBVIOUS
  <2>1. Asked' = Asked /\ Cardinality(connected[Asked]) < MostConnected
    BY DEF Room, RoomLeft, Asked
  <2> QED
    BY <1>1, <1>2, <2>1, Limits
<1>5. \A s \in Sessions : pc'[s] = "push" => Cardinality(connected'[s]) <= MostConnected
  BY <1>1, Limits DEF Room, RoomLeft
<1> QED
  BY <1>3, <1>4, <1>5 DEF Room, RoomLeft

\* All the books of the download.
Books == Attempts /\ Connections /\ Room

\* They hold at first.
LEMMA InitBooks == Init => Books
<1> SUFFICES ASSUME Init PROVE Books
  OBVIOUS
<1>1. LinkInv
  BY InitInv
<1>2. /\ AllOf(connecting) = {} /\ Hands = {} /\ LostAttempts = {} /\ AllOf(Told) = {}
      /\ \A s \in Sessions : connecting[s] = {} /\ connected[s] = {} /\ Reported(s) = {}
  <2>1. \A s \in Sessions : connecting[s] = {} /\ connected[s] = {} /\ Reported(s) = {} /\ lost[s] = 0 /\ hand[s] = NoAddr
    BY DEF Init, Reported
  <2>2. \A s \in Sessions : {s} \X (1 .. lost[s]) = {}
    BY <2>1
  <2> QED
    BY <2>1, <2>2 DEF AllOf, Hands, LostAttempts, Told
<1>3. Attempts
  <2>1. ASSUME NEW s \in Sessions PROVE sessConnecting[s] = Underway(s)
    <3>1. sessConnecting[s] = 0 /\ hand[s] = NoAddr /\ lost[s] = 0 /\ connecting[s] = {}
      BY DEF Init
    <3> QED
      BY <3>1, FS_EmptySet DEF Underway
  <2>2. nConnecting = 0 /\ Cardinality(AllOf(connecting)) = 0 /\ Cardinality(Hands) = 0
        /\ Cardinality(LostAttempts) = 0 /\ IsFiniteSet(LostAttempts)
    BY <1>2, FS_EmptySet DEF Init
  <2> QED
    BY <2>1, <2>2 DEF Attempts, ConnectingExact
<1>4. Connections
  <2>1. ConnectionExact
    BY <1>2, FS_EmptySet DEF Init, ConnectionExact
  <2>2. BooksMatch
    <3>1. \A a, d : LinksTo(a, d) = {}
      BY <1>2 DEF LinksTo
    <3>2. \A a \in Addrs : out[a] = 0 /\ in[a] = 0 /\ linked[a] = {}
      BY DEF Init
    <3> QED
      BY <3>1, <3>2, FS_EmptySet DEF BooksMatch
  <2> QED
    BY <2>1, <2>2 DEF Connections
<1>5. Room
  <2>1. finish \in [Sessions -> Phases] /\ ~holds /\ \A s \in Sessions : pc[s] # "push"
    BY DEF Init
  <2>2. ListBound
    BY <1>2, FS_EmptySet, Limits DEF ListBound
  <2> QED
    BY <2>1, <2>2 DEF Room, RoomLeft
<1> QED
  BY <1>3, <1>4, <1>5 DEF Books

\* Steps that leave the lists, the records and the counters alone, and lead no
\* thread into or out of the middle of a move.
Calm ==
    /\ UNCHANGED <<counters, lists, hand, lost, out, in, linked, addr, mine>>
    /\ \A s \in Sessions :
         /\ pc'[s] = "report" <=> pc[s] = "report"
         /\ pc[s] = "report" => moving'[s] = moving[s]
         /\ pc'[s] = "push" => pc[s] = "push"
    /\ finish' \in [Sessions -> Phases]
    /\ holds' => holds /\ offerAt' = offerAt

\* Such a step keeps the books.
LEMMA CalmKeeps == ASSUME LinkInv, LinkInv', Books, Calm PROVE Books'
<1> USE DEF Calm, counters, lists
<1>1. Attempts'
  BY AttemptsSame DEF Books
<1>2. Connections'
  <2>1. \A s \in Sessions : Told'[s] = Told[s]
    BY DEF Told, Reported
  <2> QED
    BY <2>1, ConnectionsSame DEF Books
<1>3. Room'
  BY RoomStill DEF Books
<1> QED
  BY <1>1, <1>2, <1>3 DEF Books

\* The finish flags keep to the phases of the task, as they do in Room.
LEMMA FinishKnown == Books => finish \in [Sessions -> Phases]
BY DEF Books, Room, RoomLeft

\* CPeerAdmin::TransferPeer lets a peer in only below the limit of the list.
LEMMA AcceptsBelow ==
  ASSUME LinkInv, Books, NEW s \in Sessions, AcceptsMore(s)
  PROVE Cardinality(connected[s]) < MostConnected
<1>1. Cardinality(connected[s]) \in Nat
  BY ListsFinite, CoreTypes
<1>2. LinkMax \in Nat /\ 3 * UploadLinkMax \in Nat
  BY LimitsAssumption
<1>3. CASE finish[s]
  <2>1. finish[s] = TRUE
    BY <1>3 DEF LinkInv, TypeOK, ThreadTypes
  <2>2. finish[s] \in Phases
    BY FinishKnown
  <2>3. TRUE \in Phases
    BY <2>1, <2>2, Zenon
  <2>4. 3 * UploadLinkMax <= MostConnected
    BY <2>3, Limits, Zenon
  <2>5. Cardinality(connected[s]) < 3 * UploadLinkMax
    BY <2>1 DEF AcceptsMore
  <2> QED
    BY <1>1, <1>2, <2>4, <2>5, Limits
<1>4. CASE ~finish[s]
  <2>1. LinkMax <= MostConnected /\ MostConnected \in Nat
    BY Limits, Zenon
  <2>2. Cardinality(connected[s]) < LinkMax
    BY <1>4 DEF AcceptsMore
  <2> QED
    BY <1>1, <1>2, <2>1, <2>2
<1> QED
  BY <1>3, <1>4

\* An address is taken.
LEMMA PickBooks ==
  ASSUME LinkInv, LinkInv', Books, NEW s \in Sessions, NEW a \in Addrs, Pick(s, a)
  PROVE Books'
<1>1. UNCHANGED <<known, good, later, banned, linked, out, in, nConnection, sessConnection,
                  lists, peers, finish, pc, up, moving, listener, lost>>
  BY DEF Pick
<1>2. Attempts'
  BY AttemptBegins DEF Books
<1>3. Connections'
  <2>1. \A t \in Sessions : Told'[t] = Told[t]
    BY <1>1 DEF Told, Reported, lists
  <2> QED
    BY <1>1, <2>1, ConnectionsSame DEF Books, peers
<1>4. Room'
  BY <1>1, RoomStill, FinishKnown DEF Books, lists, listener
<1> QED
  BY <1>2, <1>3, <1>4 DEF Books

\* An address is put down.
LEMMA PutDownBooks ==
  ASSUME LinkInv, LinkInv', Books, NEW s \in Sessions, TakeTooMany(s) \/ TakeFail(s)
  PROVE Books'
<1>1. /\ hand[s] # NoAddr /\ PutDown(s)
      /\ UNCHANGED <<lists, peers, finish, moving, listener>>
      /\ UNCHANGED <<out, in, linked, nConnection, sessConnection>>
  BY DEF TakeTooMany, TakeFail, GiveUpLink, details, counters
<1>2. Attempts'
  <2>1. CASE UNCHANGED counters /\ lost' = [lost EXCEPT ![s] = @ + 1]
    BY <1>1, <2>1, AttemptLost DEF Books, counters, lists
  <2>2. CASE NotConnecting(s, hand[s]) /\ lost' = lost
    BY <1>1, <2>2, AttemptGivenBack DEF Books, lists
  <2> QED
    BY <2>1, <2>2 DEF TakeTooMany, TakeFail, GiveUpLink
<1>3. \/ pc' = [pc EXCEPT ![s] = IF up[s] THEN "idle" ELSE "expire"]
      \/ pc' = pc
  BY DEF TakeTooMany, TakeFail, EndLaunch, Goto
<1>4. pc[s] \in {"good", "any"} /\ pc'[s] \notin {"push", "report"}
      /\ \A t \in Sessions : t # s => pc'[t] = pc[t]
  <2>1. pc[s] \in {"good", "any"}
    BY <1>1, Parts DEF HandOk
  <2> QED
    BY <2>1, <1>3, CoreTypes
<1>5. Connections'
  <2>1. \A t \in Sessions : Told'[t] = Told[t]
    BY <1>1, <1>4 DEF Told, Reported, lists
  <2> QED
    BY <1>1, <2>1, ConnectionsSame DEF Books, peers
<1>6. Room'
  BY <1>1, <1>4, RoomStill, FinishKnown DEF Books, lists, listener
<1> QED
  BY <1>2, <1>5, <1>6 DEF Books

\* An address becomes a peer.
LEMMA TakeLinkBooks ==
  ASSUME LinkInv, LinkInv', Books, NEW s \in Sessions, NEW l \in Links, TakeLink(s, l)
  PROVE Books'
<1>1. /\ state[l] = "none" /\ Create(l, hand[s], TRUE)
      /\ UNCHANGED <<details, counters, connected, finish, pc, up, quota, tries, moving, listener, lost>>
  BY DEF TakeLink
<1>2. Attempts'
  BY AttemptLaunched DEF Books
<1>3. Connections'
  <2>1. \A t \in Sessions : Told'[t] = Told[t]
    BY <1>1 DEF Told, Reported
  <2>2. \A m \in AllOf(Told) : addr'[m] = addr[m] /\ mine'[m] = mine[m]
    BY <1>1, ToldTypes, CoreTypes DEF Create
  <2> QED
    BY <1>1, <2>1, <2>2, ConnectionsSame DEF Books, details, counters
<1>4. Room'
  BY <1>1, RoomStill, FinishKnown DEF Books, listener
<1> QED
  BY <1>2, <1>3, <1>4 DEF Books

\* A failed or closed attempt is reaped.
LEMMA ReapBooks ==
  ASSUME LinkInv, LinkInv', Books, NEW s \in Sessions, NEW l \in Links, Reap(s, l)
  PROVE Books'
<1>1. /\ pc[s] = "reap" /\ l \in connecting[s] /\ Delete(l)
      /\ connecting' = [connecting EXCEPT ![s] = @ \ {l}]
      /\ NotConnecting(s, addr[l])
      /\ UNCHANGED <<linked, out, in, nConnection, sessConnection>>
      /\ UNCHANGED <<connected, finish, pc, loops, listener, lost>>
  BY DEF Reap, LinkReportFail, LinkOkButClose
<1>2. addr[l] \in Addrs /\ \A t \in Sessions : l \notin connected[t]
  BY <1>1, Parts DEF Apart
<1>3. Attempts'
  BY <1>1, <1>2, AttemptEnds DEF Books, loops
<1>4. Connections'
  <2>1. \A t \in Sessions : Told'[t] = Told[t]
    BY <1>1 DEF Told, Reported, loops
  <2>2. l \notin AllOf(Told)
    BY <1>2, ToldTypes DEF AllOf
  <2>3. \A m \in AllOf(Told) : addr'[m] = addr[m] /\ mine'[m] = mine[m]
    BY <1>1, <2>2, ToldTypes, CoreTypes DEF Delete
  <2> QED
    BY <1>1, <2>1, <2>3, ConnectionsSame DEF Books
<1>5. Room'
  BY <1>1, RoomStill, FinishKnown DEF Books, listener
<1> QED
  BY <1>3, <1>4, <1>5 DEF Books

\* A connected attempt is chosen to be moved: there is room in the list.
LEMMA MoveBooks ==
  ASSUME LinkInv, LinkInv', Books, NEW s \in Sessions, NEW l \in Links, Move(s, l)
  PROVE Books'
<1>1. /\ pc[s] = "move" /\ Cardinality(connected[s]) < LinkMax
      /\ pc' = [pc EXCEPT ![s] = "push"] /\ moving' = [moving EXCEPT ![s] = l]
      /\ UNCHANGED <<details, counters, lists, peers, finish, up, hand, quota, tries, listener, lost>>
  BY DEF Move, HasRoom, Goto
<1>2. pc'[s] = "push" /\ \A t \in Sessions : t # s => pc'[t] = pc[t] /\ moving'[t] = moving[t]
  BY <1>1, CoreTypes
<1>3. Attempts'
  BY <1>1, AttemptsSame DEF Books, counters, lists
<1>4. Connections'
  <2>1. \A t \in Sessions : Told'[t] = Told[t]
    BY <1>1, <1>2 DEF Told, Reported, lists
  <2> QED
    BY <1>1, <2>1, ConnectionsSame DEF Books, peers, details, counters
<1>5. Room'
  <2>1. Cardinality(connected[s]) <= MostConnected
    <3>1. Cardinality(connected[s]) \in Nat /\ LinkMax \in Nat /\ MostConnected \in Nat /\ LinkMax <= MostConnected
      BY ListsFinite, CoreTypes, Limits, LimitsAssumption
    <3> QED
      BY <1>1, <3>1
  <2>2. finish' = finish /\ holds' = holds /\ Asked' = Asked /\ connected' = connected
    BY <1>1 DEF listener, lists, Asked
  <2> QED
    BY <1>2, <2>1, <2>2 DEF Books, Room, RoomLeft, ListBound
<1> QED
  BY <1>3, <1>4, <1>5 DEF Books

\* The peer is pushed into the list: it is not reported yet.
LEMMA PushBooks ==
  ASSUME LinkInv, LinkInv', Books, NEW s \in Sessions, Push(s)
  PROVE Books'
<1>1. /\ pc[s] = "push" /\ ~Held(s)
      /\ connected' = [connected EXCEPT ![s] = @ \cup {moving[s]}]
      /\ pc' = [pc EXCEPT ![s] = "report"]
      /\ UNCHANGED <<details, counters, connecting, peers, finish, loops, listener, lost>>
  BY DEF Push, Goto
<1>2. /\ pc'[s] = "report" /\ connected'[s] = connected[s] \cup {moving[s]}
      /\ \A t \in Sessions : t # s => pc'[t] = pc[t] /\ connected'[t] = connected[t]
  BY <1>1, CoreTypes
<1>3. moving[s] \in connecting[s] /\ moving[s] \notin connected[s]
  <2>1. moving[s] \in connecting[s]
    BY <1>1, Parts DEF Apart
  <2> QED
    BY <2>1, <1>1, Parts DEF Apart
<1>4. Attempts'
  BY <1>1, AttemptsSame DEF Books, counters, loops
<1>5. Connections'
  <2>1. \A t \in Sessions : Told'[t] = Told[t]
    BY <1>1, <1>2, <1>3 DEF Told, Reported, loops
  <2> QED
    BY <1>1, <2>1, ConnectionsSame DEF Books, peers, details, counters
<1>6. Room'
  <2>1. Cardinality(connected[s]) <= MostConnected
    BY <1>1 DEF Books, Room, RoomLeft
  <2>2. Cardinality(connected'[s]) <= MostConnected + 1
    <3>1. IsFiniteSet(connected[s]) /\ Cardinality(connected[s]) \in Nat /\ MostConnected \in Nat
      BY ListsFinite, CoreTypes, Limits
    <3>2. Cardinality(connected[s] \cup {moving[s]}) = Cardinality(connected[s]) + 1
      BY <1>3, <3>1, FS_AddElement
    <3> QED
      BY <1>2, <2>1, <3>1, <3>2
  <2>3. ListBound'
    BY <1>2, <2>2 DEF Books, Room, ListBound
  <2>4. finish' = finish /\ holds' = holds /\ Asked' = Asked
    BY <1>1 DEF listener, Asked
  <2>5. holds => Asked # s /\ Asked \in Sessions
    BY <1>1, SessionListAssumption DEF Held, Asked, LinkInv, TypeOK, ListenerTypes
  <2>6. holds' => Cardinality(connected'[Asked']) < MostConnected
    BY <1>2, <2>4, <2>5 DEF Books, Room, RoomLeft
  <2>7. \A t \in Sessions : pc'[t] = "push" => Cardinality(connected'[t]) <= MostConnected
    BY <1>2 DEF Books, Room, RoomLeft
  <2> QED
    BY <2>3, <2>4, <2>6, <2>7 DEF Books, Room, RoomLeft
<1> QED
  BY <1>4, <1>5, <1>6 DEF Books

\* The attempt is reported: a link is counted, and an attempt given back.
LEMMA ReportBooks ==
  ASSUME LinkInv, LinkInv', Books, NEW s \in Sessions, Report(s)
  PROVE Books'
<1> DEFINE l == moving[s]
<1>1. /\ pc[s] = "report" /\ LinkReportOk(s, addr[l])
      /\ connecting' = [connecting EXCEPT ![s] = @ \ {l}]
      /\ pc' = [pc EXCEPT ![s] = "move"]
      /\ moving' = [moving EXCEPT ![s] = NoLink]
      /\ UNCHANGED <<connected, peers, finish, up, hand, quota, tries, listener, lost>>
  BY DEF Report, Goto
<1>2. /\ l \in Links /\ l \in connecting[s] /\ l \in connected[s]
      /\ addr[l] \in Addrs /\ mine[l]
      /\ \A t \in Sessions : t # s => l \notin connected[t]
  BY <1>1, MovingTypes, Parts DEF Apart, ConnectingOk
<1>3. /\ NotConnecting(s, addr[l])
      /\ linked' = [linked EXCEPT ![addr[l]] = @ \cup {s}]
      /\ out' = [out EXCEPT ![addr[l]] = @ + 1] /\ in' = in
      /\ nConnection' = nConnection + 1
      /\ sessConnection' = [sessConnection EXCEPT ![s] = @ + 1]
  BY <1>1 DEF LinkReportOk
<1> HIDE DEF l
<1>4. Attempts'
  BY <1>1, <1>2, <1>3, AttemptEnds DEF Books
<1>5. Connections'
  <2>1. /\ pc'[s] = "move" /\ connected' = connected
        /\ \A t \in Sessions : t # s => pc'[t] = pc[t] /\ moving'[t] = moving[t]
    BY <1>1, CoreTypes
  <2>2. Told'[s] = Told[s] \cup {l} /\ \A t \in Sessions : t # s => Told'[t] = Told[t]
    BY <1>1, <1>2, <2>1 DEF Told, Reported, l
  <2>3. \A t \in Sessions : l \notin Told[t]
    BY <1>1, <1>2 DEF Told, Reported, l
  <2>4. Gains(Told, Told', s, l)
    BY <2>2, <2>3, ToldTypes DEF Gains
  <2>5. addr' = addr /\ mine' = mine
    BY <1>1 DEF peers
  <2> QED
    BY <1>2, <1>3, <2>4, <2>5, ConnectionsGain DEF Books
<1>6. Room'
  <2>1. \A t \in Sessions : pc'[t] = "push" => pc[t] = "push"
    BY <1>1, CoreTypes
  <2> QED
    BY <1>1, <2>1, RoomStill, FinishKnown DEF Books, listener
<1> QED
  BY <1>4, <1>5, <1>6 DEF Books

\* A closed link is reported and taken off the list.
LEMMA SweepBooks ==
  ASSUME LinkInv, LinkInv', Books, NEW s \in Sessions, NEW l \in Links, Sweep(s, l)
  PROVE Books'
<1>1. /\ pc[s] = "sweep" /\ l \in connected[s] /\ Delete(l)
      /\ connected' = [connected EXCEPT ![s] = @ \ {l}]
      /\ UNCHANGED <<connecting, finish, pc, loops, listener, lost>>
      /\ UNCHANGED <<nConnecting, sessConnecting>>
  BY DEF Sweep, CloseReport
<1>2. /\ linked' = IF mine[l] THEN [linked EXCEPT ![addr[l]] = @ \ {s}] ELSE linked
      /\ out' = IF mine[l] THEN [out EXCEPT ![addr[l]] = @ - 1] ELSE out
      /\ in' = IF mine[l] THEN in ELSE [in EXCEPT ![addr[l]] = @ - 1]
      /\ nConnection' = nConnection - 1
      /\ sessConnection' = [sessConnection EXCEPT ![s] = @ - 1]
  BY DEF Sweep, CloseReport
<1>3. \A t \in Sessions : t # s => l \notin connected[t]
  BY <1>1, Parts DEF Apart
<1>4. Attempts'
  BY <1>1, AttemptsSame DEF Books, loops
<1>5. Connections'
  <2>1. connected'[s] = connected[s] \ {l} /\ \A t \in Sessions : t # s => connected'[t] = connected[t]
    BY <1>1, CoreTypes
  <2>2. /\ Told[s] = connected[s] /\ Told'[s] = Told[s] \ {l}
        /\ \A t \in Sessions : t # s => Told'[t] = Told[t] /\ l \notin Told[t]
    BY <1>1, <1>3, <2>1 DEF Told, Reported, loops
  <2>3. Loses(Told, Told', s, l)
    BY <1>1, <2>2, ToldTypes DEF Loses
  <2>4. \A m \in AllOf(Told) \ {l} : addr'[m] = addr[m] /\ mine'[m] = mine[m]
    BY <1>1, ToldTypes, CoreTypes DEF Delete
  <2>5. mine[l] => \A m \in Told[s] : mine[m] /\ addr[m] = addr[l] => m = l
    BY <1>1, <2>2, Parts DEF ConnectedOk
  <2> QED
    BY <1>2, <2>3, <2>4, <2>5, ConnectionsLose DEF Books
<1>6. Room'
  <2>1. \A t \in Sessions : connected'[t] \subseteq connected[t]
    BY <1>1, CoreTypes
  <2> QED
    BY <1>1, <2>1, RoomStill, FinishKnown DEF Books, listener
<1> QED
  BY <1>4, <1>5, <1>6 DEF Books

\* A peer comes into the hands of the listener.
LEMMA GotHashBooks ==
  ASSUME LinkInv, LinkInv', Books, NEW l \in Links, NEW a \in Addrs, GotHash(l, a)
  PROVE Books'
<1>1. /\ offer = NoLink /\ state[l] = "none" /\ Create(l, a, FALSE)
      /\ UNCHANGED <<details, counters, lists, finish, pc, loops, holds, lost>>
  BY DEF GotHash
<1>2. Attempts'
  BY <1>1, AttemptsSame DEF Books, counters, lists, loops
<1>3. Connections'
  <2>1. \A t \in Sessions : Told'[t] = Told[t]
    BY <1>1 DEF Told, Reported, lists, loops
  <2>2. \A m \in AllOf(Told) : addr'[m] = addr[m] /\ mine'[m] = mine[m]
    BY <1>1, ToldTypes, CoreTypes DEF Create
  <2> QED
    BY <1>1, <2>1, <2>2, ConnectionsSame DEF Books, details, counters
<1>4. Room'
  <2>1. ~holds'
    BY <1>1, Parts DEF Apart
  <2> QED
    BY <1>1, <2>1, RoomStill, FinishKnown DEF Books, lists
<1> QED
  BY <1>2, <1>3, <1>4 DEF Books

\* The listener takes the lock of the list of a session that has room.
LEMMA TransferBeginBooks ==
  ASSUME LinkInv, LinkInv', Books, TransferBegin
  PROVE Books'
<1>1. /\ AcceptsMore(Asked)
      /\ UNCHANGED <<details, counters, lists, peers, finish, pc, loops, offer, offerAt, lost>>
  BY DEF TransferBegin
<1>2. Attempts'
  BY <1>1, AttemptsSame DEF Books, counters, lists, loops
<1>3. Connections'
  <2>1. \A t \in Sessions : Told'[t] = Told[t]
    BY <1>1 DEF Told, Reported, lists, loops
  <2> QED
    BY <1>1, <2>1, ConnectionsSame DEF Books, details, counters, peers
<1>4. Room'
  <2>1. Asked \in Sessions
    BY SessionListAssumption DEF Asked, LinkInv, TypeOK, ListenerTypes
  <2>2. Cardinality(connected[Asked]) < MostConnected
    BY <1>1, <2>1, AcceptsBelow
  <2>3. connected' = connected /\ Asked' = Asked /\ pc' = pc /\ finish' = finish
    BY <1>1 DEF lists, Asked
  <2> QED
    BY <2>2, <2>3 DEF Books, Room, RoomLeft, ListBound
<1> QED
  BY <1>2, <1>3, <1>4 DEF Books

\* The listener pushes its peer, and the link is counted.
LEMMA TransferOkBooks ==
  ASSUME LinkInv, LinkInv', Books, TransferOk
  PROVE Books'
<1> DEFINE s == Asked
           l == offer
<1>1. /\ holds /\ TryAcceptPeerLink(s, addr[l])
      /\ connected' = [connected EXCEPT ![s] = @ \cup {l}]
      /\ holds' = FALSE
      /\ UNCHANGED <<connecting, peers, finish, pc, loops, lost>>
  BY DEF TransferOk
<1>2. /\ s \in Sessions /\ l \in Links /\ addr[l] \in Addrs /\ ~mine[l]
      /\ \A t \in Sessions : l \notin connecting[t] /\ l \notin connected[t]
      /\ Cardinality(connected[s]) < MostConnected
  <2>1. s \in Sessions /\ l \in Links \cup {NoLink}
    BY SessionListAssumption DEF Asked, LinkInv, TypeOK, ListenerTypes
  <2> QED
    BY <1>1, <2>1, Parts DEF Apart, Books, Room, RoomLeft
<1>3. /\ in' = [in EXCEPT ![addr[l]] = @ + 1] /\ UNCHANGED <<out, linked>>
      /\ nConnection' = nConnection + 1
      /\ sessConnection' = [sessConnection EXCEPT ![s] = @ + 1]
      /\ UNCHANGED <<nConnecting, sessConnecting>>
  BY <1>1 DEF TryAcceptPeerLink
<1> HIDE DEF s, l
<1>4. connected'[s] = connected[s] \cup {l} /\ \A t \in Sessions : t # s => connected'[t] = connected[t]
  BY <1>1, <1>2, CoreTypes
<1>5. Attempts'
  BY <1>1, <1>3, AttemptsSame DEF Books, loops
<1>6. Connections'
  <2>1. /\ \A t \in Sessions : pc[t] = "report" => moving[t] # l
        /\ \A t \in Sessions : l \notin Told[t]
    BY <1>2, ToldTypes, Parts DEF Apart
  <2>2. Told'[s] = Told[s] \cup {l} /\ \A t \in Sessions : t # s => Told'[t] = Told[t]
    BY <1>1, <1>2, <1>4, <2>1 DEF Told, Reported, loops
  <2>3. Gains(Told, Told', s, l)
    BY <1>2, <2>1, <2>2, ToldTypes DEF Gains
  <2>4. addr' = addr /\ mine' = mine
    BY <1>1 DEF peers
  <2> QED
    BY <1>2, <1>3, <2>3, <2>4, ConnectionsGain DEF Books
<1>7. Room'
  <2>1. /\ IsFiniteSet(connected[s]) /\ Cardinality(connected[s]) \in Nat /\ MostConnected \in Nat
    BY <1>2, ListsFinite, CoreTypes, Limits
  <2>2. Cardinality(connected'[s]) = Cardinality(connected[s]) + 1
    BY <1>2, <1>4, <2>1, FS_AddElement
  <2>3. Cardinality(connected'[s]) <= MostConnected
    BY <1>2, <2>1, <2>2
  <2>4. ListBound'
    <3>1. Cardinality(connected'[s]) <= MostConnected + 1
      BY <2>1, <2>2, <2>3
    <3>2. \A t \in Sessions : t # s => Cardinality(connected'[t]) <= MostConnected + 1
      BY <1>4 DEF Books, Room, ListBound
    <3> QED
      BY <3>1, <3>2 DEF ListBound
  <2>5. \A t \in Sessions : pc'[t] = "push" => Cardinality(connected'[t]) <= MostConnected
    BY <1>1, <1>4, <2>3 DEF Books, Room, RoomLeft
  <2>6. finish' \in [Sessions -> Phases] /\ ~holds'
    BY <1>1, FinishKnown
  <2> QED
    BY <2>4, <2>5, <2>6 DEF Room, RoomLeft
<1> QED
  BY <1>5, <1>6, <1>7 DEF Books

\* The listener asks the next session, or drops its peer.
LEMMA TransferRefusedBooks ==
  ASSUME LinkInv, LinkInv', Books, TransferRefused
  PROVE Books'
<1>1. /\ holds' = FALSE /\ (UNCHANGED peers \/ Delete(offer))
      /\ UNCHANGED <<details, counters, lists, finish, pc, loops, lost>>
  BY DEF TransferRefused
<1>2. Attempts'
  BY <1>1, AttemptsSame DEF Books, counters, lists, loops
<1>3. Connections'
  <2>1. \A t \in Sessions : Told'[t] = Told[t]
    BY <1>1 DEF Told, Reported, lists, loops
  <2>2. \A m \in AllOf(Told) : addr'[m] = addr[m] /\ mine'[m] = mine[m]
    BY <1>1, ToldTypes, CoreTypes DEF Delete, peers
  <2> QED
    BY <1>1, <2>1, <2>2, ConnectionsSame DEF Books, details, counters
<1>4. Room'
  BY <1>1, RoomStill, FinishKnown DEF Books, lists
<1> QED
  BY <1>2, <1>3, <1>4 DEF Books

\* Every other step is a calm one.
LEMMA BooksKept ==
  ASSUME LinkInv, LinkInv', Books, [Next]_vars
  PROVE Books'
<1> USE DEF details, counters, lists, peers, loops, listener, Goto
<1>1. ASSUME NEW s \in Sessions, SessionStep(s) PROVE Books'
  <2>1. CASE Round(s) \/ MoveNone(s)
    BY <2>1, CalmKeeps, FinishKnown, CoreTypes DEF Round, MoveNone, Calm
  <2>2. CASE \E l \in Links : Move(s, l)
    BY <2>2, MoveBooks
  <2>3. CASE Push(s)
    BY <2>3, PushBooks
  <2>4. CASE Report(s)
    BY <2>4, ReportBooks
  <2>5. CASE MoveFull(s)
    BY <2>5, CalmKeeps, FinishKnown, CoreTypes DEF MoveFull, Calm
  <2>6. CASE \E l \in Links : Reap(s, l)
    BY <2>6, ReapBooks
  <2>7. CASE EndReap(s)
    <3>1. pc' = [pc EXCEPT ![s] = "sweep"] \/ pc' = [pc EXCEPT ![s] = "good"]
      BY <2>7 DEF EndReap
    <3>2. /\ pc[s] = "reap"
          /\ UNCHANGED <<details, counters, lists, peers, finish, up, hand, moving, listener, lost>>
      BY <2>7 DEF EndReap
    <3> QED
      BY <3>1, <3>2, CalmKeeps, FinishKnown, CoreTypes DEF Calm
  <2>8. CASE \E l \in Links : Sweep(s, l)
    BY <2>8, SweepBooks
  <2>9. CASE EndSweep(s)
    <3>1. pc' = [pc EXCEPT ![s] = "any"] \/ pc' = [pc EXCEPT ![s] = "idle"]
      BY <2>9 DEF EndSweep
    <3>2. /\ pc[s] = "sweep"
          /\ UNCHANGED <<details, counters, lists, peers, finish, up, hand, moving, listener, lost>>
      BY <2>9 DEF EndSweep
    <3> QED
      BY <3>1, <3>2, CalmKeeps, FinishKnown, CoreTypes DEF Calm
  <2>10. CASE Expire(s)
    BY <2>10, CalmKeeps, FinishKnown, CoreTypes DEF Expire, Calm
  <2>11. CASE \E a \in Addrs : Pick(s, a)
    BY <2>11, PickBooks
  <2>12. CASE PickNone(s)
    <3>1. \E x \in {"good", "any", "idle", "expire"} : pc' = [pc EXCEPT ![s] = x]
      BY <2>12 DEF PickNone, EndLaunch
    <3>2. /\ pc[s] \in {"good", "any"}
          /\ UNCHANGED <<details, counters, lists, peers, finish, hand, moving, listener, lost>>
      BY <2>12 DEF PickNone
    <3> QED
      BY <3>1, <3>2, CalmKeeps, FinishKnown, CoreTypes DEF Calm
  <2>13. CASE TakeTooMany(s) \/ TakeFail(s)
    BY <2>13, PutDownBooks
  <2>14. CASE \E l \in Links : TakeLink(s, l)
    BY <2>14, TakeLinkBooks
  <2> QED
    BY <1>1, <2>1, <2>2, <2>3, <2>4, <2>5, <2>6, <2>7, <2>8, <2>9, <2>10, <2>11, <2>12,
       <2>13, <2>14 DEF SessionStep
<1>2. ASSUME NEW s \in Sessions, SocketStep(s) PROVE Books'
  BY <1>2, CalmKeeps, FinishKnown DEF SocketStep, Outcome, PeerCloses, Calm
<1>3. CASE ListenerStep
  BY <1>3, GotHashBooks, TransferBeginBooks, TransferOkBooks, TransferRefusedBooks
     DEF ListenerStep, TransferStep
<1>4. CASE OutsideStep
  <2>1. CASE \E s \in Sessions, f \in Phases : SetFinish(s, f)
    <3>1. finish' \in [Sessions -> Phases]
      BY <2>1, FinishKnown DEF SetFinish
    <3> QED
      BY <2>1, <3>1, CalmKeeps DEF SetFinish, Calm
  <2>2. CASE CenterFinish \/ \E a \in Addrs : AddAvialablePeerInfo(a) \/ NextTryOver(a) \/ BanOver(a)
    BY <2>2, CalmKeeps, FinishKnown DEF CenterFinish, AddAvialablePeerInfo, NextTryOver, BanOver, Calm
  <2> QED
    BY <1>4, <2>1, <2>2 DEF OutsideStep
<1>5. CASE UNCHANGED vars
  BY <1>5, CalmKeeps, FinishKnown DEF vars, Calm
<1> QED
  BY <1>1, <1>2, <1>3, <1>4, <1>5 DEF Next

\* CPeerCenter's books are exact: every attempt and every link is counted once
\* while it lasts, for its session, for the download and for its address, under
\* any order of the session threads, the listener and the lists' locks; and no
\* list of connected peers is longer than its limit and one more.
THEOREM BooksHold == Spec => []BooksExact
<1>1. Init => LinkInv /\ Books
  BY InitInv, InitBooks
<1>2. LinkInv /\ LinkInv' /\ Books /\ [Next]_vars => Books'
  BY BooksKept
<1>3. LinkInv /\ Books => BooksExact
  BY DEF LinkInv, Books, Attempts, Connections, Room, BooksExact
<1> QED
  BY LinksRecorded, <1>1, <1>2, <1>3, PTL DEF Spec
=============================================================================
