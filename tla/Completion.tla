----------------------------- MODULE Completion -----------------------------
(***************************************************************************)
(* How a download notices that it is finished and turns into an uploader.  *)
(*                                                                         *)
(* The session thread that stores a piece rescans the bitsets              *)
(* (CheckIsTaskFinished) without a lock, and if m_bIsTaskFinished is set   *)
(* it calls DownloadFinish(true) of every session.  That only raises two   *)
(* flags of CPeerAdmin; the thread of the session sees m_bSwitchMode in a  *)
(* timer and then tells its connected peers (SwitchMode).  The listener    *)
(* thread adds accepted peers meanwhile (TransferPeer).                    *)
(*                                                                         *)
(* The wanted pieces are fixed: AdjustFilePriority is not modelled here.   *)
(***************************************************************************)
EXTENDS Integers, Sequences

CONSTANTS
    Sessions,   \* the session threads
    SessionList, \* m_SessionList: the sessions as they were registered
    Contacts,      \* the peers that may connect
    SessionOf,  \* the session a peer is put in
    LastPiece,       \* the pieces are 1 .. Last
    Wanted      \* the pieces with a priority other than 0

ASSUME SessionOfAssumption == SessionOf \in [Contacts -> Sessions]
ASSUME ListAssumption ==
    /\ SessionList \in Seq(Sessions)
    /\ SessionList # <<>>
ASSUME LastPieceAssumption == LastPiece \in Nat
ASSUME WantedAssumption == Wanted \subseteq 1 .. LastPiece

AllPieces == 1 .. LastPiece

VARIABLES
    finished,   \* m_FinishedBitSet
    flag,       \* m_bIsTaskFinished
    complete,   \* TE_COMPLETE was set as the event of the trackers
    mode,       \* CPeerAdmin::m_bDownloadFinish
    switch,     \* CPeerAdmin::m_bSwitchMode
    members,    \* m_ConnectedPeerList
    upload,     \* CBTPeer::m_bUploadMode
    pc,         \* where each session thread is
    at,         \* the piece CheckIsTaskFinished looks at next
    todo,       \* sessions whose DownloadFinish is still to be called
    round       \* peers SwitchMode has still to visit

flags == <<finished, flag, complete>>
admins == <<mode, switch, members, upload>>
threads == <<pc, at, todo, round>>
vars == <<flags, admins, threads>>

TypeOK ==
    /\ finished \subseteq AllPieces
    /\ flag \in BOOLEAN
    /\ complete \in BOOLEAN
    /\ mode \in [Sessions -> BOOLEAN]
    /\ switch \in [Sessions -> BOOLEAN]
    /\ members \in [Sessions -> SUBSET Contacts]
    /\ upload \in [Contacts -> BOOLEAN]
    /\ pc \in [Sessions -> {"idle", "scan", "missing", "decide", "calls", "raised", "switch"}]
    /\ at \in [Sessions -> 1 .. LastPiece + 1]
    /\ todo \in [Sessions -> Seq(Sessions)]
    /\ round \in [Sessions -> SUBSET Contacts]

Init ==
    /\ finished = {}
    /\ flag = FALSE
    /\ complete = FALSE
    /\ mode = [s \in Sessions |-> FALSE]
    /\ switch = [s \in Sessions |-> FALSE]
    /\ members = [s \in Sessions |-> {}]
    /\ upload = [p \in Contacts |-> FALSE]
    /\ pc = [s \in Sessions |-> "idle"]
    /\ at = [s \in Sessions |-> 1]
    /\ todo = [s \in Sessions |-> <<>>]
    /\ round = [s \in Sessions |-> {}]

Goto(s, x) == pc' = [pc EXCEPT ![s] = x]

-----------------------------------------------------------------------------
(* WritePiece, by the thread of session s.                                 *)

\* The section under m_WriteCacheMutex.
StorePiece(s) ==
    /\ pc[s] = "idle"
    /\ \E i \in Wanted \ finished : finished' = finished \cup {i}
    /\ Goto(s, "scan")
    /\ at' = [at EXCEPT ![s] = 1]
    /\ UNCHANGED <<flag, complete, admins, todo, round>>

\* Mutant: the last piece is not looked at.
ScanShort(s) ==
    /\ pc[s] = "scan"
    /\ IF at[s] >= LastPiece
         THEN flag' = TRUE /\ Goto(s, "decide") /\ UNCHANGED at
         ELSE IF at[s] \in Wanted \ finished
                THEN Goto(s, "missing") /\ UNCHANGED <<flag, at>>
                ELSE at' = [at EXCEPT ![s] = @ + 1] /\ UNCHANGED <<flag, pc>>
    /\ UNCHANGED <<finished, complete, admins, todo, round>>

\* CheckIsTaskFinished: one piece after the other, without a lock.
Scan(s) ==
    /\ pc[s] = "scan"
    /\ IF at[s] > LastPiece
         THEN flag' = TRUE /\ Goto(s, "decide") /\ UNCHANGED at
         ELSE IF at[s] \in Wanted \ finished
                THEN Goto(s, "missing") /\ UNCHANGED <<flag, at>>
                ELSE at' = [at EXCEPT ![s] = @ + 1] /\ UNCHANGED <<flag, pc>>
    /\ UNCHANGED <<finished, complete, admins, todo, round>>

\* A missing piece was seen; this may be old when the flag is written.
ScanFailed(s) ==
    /\ pc[s] = "missing"
    /\ flag' = FALSE
    /\ Goto(s, "decide")
    /\ UNCHANGED <<finished, complete, admins, at, todo, round>>

\* m_SessionListMutex is held while the sessions are called.
Calling(s) == pc[s] \in {"calls", "raised"}

\* After BroadcastHavePiece: if IsFinished, the trackers and the sessions.
Decide(s) ==
    /\ pc[s] = "decide"
    /\ \/ /\ ~flag
          /\ Goto(s, "idle")
          /\ UNCHANGED <<complete, todo>>
       \/ /\ flag
          /\ \A r \in Sessions : ~Calling(r)
          /\ complete' = (complete \/ finished = AllPieces)
          /\ todo' = [todo EXCEPT ![s] = SessionList]
          /\ Goto(s, "calls")
    /\ UNCHANGED <<finished, flag, admins, at, round>>

\* On to the next session of the list, or out of WritePiece.
NextCall(s) ==
    /\ todo' = [todo EXCEPT ![s] = Tail(@)]
    /\ Goto(s, IF Len(todo[s]) = 1 THEN "idle" ELSE "calls")

\* CPeerAdmin::DownloadFinish(true) of the next session raises m_bSwitchMode ...
Call(s) ==
    /\ pc[s] = "calls"
    /\ LET t == Head(todo[s])
       IN  IF mode[t]
             THEN NextCall(s) /\ UNCHANGED switch
             ELSE /\ switch' = [switch EXCEPT ![t] = TRUE]
                  /\ Goto(s, "raised")
                  /\ UNCHANGED todo
    /\ UNCHANGED <<flags, mode, members, upload, at, round>>

\* Mutant: only one session is called.
SetModeOnce(s) ==
    /\ pc[s] = "raised"
    /\ mode' = [mode EXCEPT ![Head(todo[s])] = TRUE]
    /\ todo' = [todo EXCEPT ![s] = <<>>]
    /\ Goto(s, "idle")
    /\ UNCHANGED <<flags, switch, members, upload, at, round>>

\* ... and then sets m_bDownloadFinish.
SetMode(s) ==
    /\ pc[s] = "raised"
    /\ mode' = [mode EXCEPT ![Head(todo[s])] = TRUE]
    /\ NextCall(s)
    /\ UNCHANGED <<flags, switch, members, upload, at, round>>

-----------------------------------------------------------------------------
(* The peers of session s.                                                 *)

\* m_ConnectedPeerListMutex is held while SwitchMode goes through the list.
Switching(s) == pc[s] = "switch"

\* CheckPeerConnection, in the timer of the session.
SwitchBegin(s) ==
    /\ pc[s] = "idle"
    /\ switch[s]
    /\ round' = [round EXCEPT ![s] = members[s]]
    /\ Goto(s, "switch")
    /\ UNCHANGED <<flags, admins, at, todo>>

\* CBTPeer::DownloadFinish: a peer that does not want our data is closed.
SwitchPeer(s) ==
    /\ Switching(s)
    /\ \E p \in round[s] :
         /\ round' = [round EXCEPT ![s] = @ \ {p}]
         /\ upload' = [upload EXCEPT ![p] = mode[s]]
         /\ \/ UNCHANGED members
            \/ mode[s] /\ members' = [members EXCEPT ![s] = @ \ {p}]
    /\ UNCHANGED <<flags, mode, switch, pc, at, todo>>

SwitchEnd(s) ==
    /\ Switching(s)
    /\ round[s] = {}
    /\ switch' = [switch EXCEPT ![s] = FALSE]
    /\ Goto(s, "idle")
    /\ UNCHANGED <<flags, mode, members, upload, at, todo, round>>

\* CheckConnectedConnecting (its own thread) or TransferPeer (the listener's,
\* under m_ConnectedPeerListMutex) add a peer and tell it the mode.
Join(p) ==
    LET s == SessionOf[p]
    IN  /\ p \notin members[s]
        /\ ~Switching(s)
        /\ members' = [members EXCEPT ![s] = @ \cup {p}]
        /\ upload' = [upload EXCEPT ![p] = mode[s]]
        /\ UNCHANGED <<flags, mode, switch, threads>>

\* CheckClosedConnection
Leave(p) ==
    LET s == SessionOf[p]
    IN  /\ pc[s] = "idle"
        /\ p \in members[s]
        /\ members' = [members EXCEPT ![s] = @ \ {p}]
        /\ UNCHANGED <<flags, mode, switch, upload, threads>>

-----------------------------------------------------------------------------
Writing(s) == Scan(s) \/ ScanFailed(s) \/ Decide(s) \/ Call(s) \/ SetMode(s)

SwitchMode(s) == SwitchBegin(s) \/ SwitchPeer(s) \/ SwitchEnd(s)

Next ==
    \/ \E s \in Sessions : StorePiece(s) \/ Writing(s) \/ SwitchMode(s)
    \/ \E p \in Contacts : Join(p) \/ Leave(p)

Spec == Init /\ [][Next]_vars

\* A thread finishes WritePiece, and the timer of an idle one runs.
Fairness ==
    /\ \A s \in Sessions : WF_vars(Writing(s))
    /\ \A s \in Sessions : WF_vars(SwitchMode(s))

FairSpec == Spec /\ Fairness

-----------------------------------------------------------------------------
Complete == Wanted \subseteq finished

\* NoFalseFinish: whatever the stale reads of the scans, nobody turns into an
\* uploader while a wanted piece is missing: neither the task, nor a session,
\* nor a peer; and the trackers are only told when nothing at all is missing.
NoFalseFinish ==
    /\ flag => Complete
    /\ \A s \in Sessions : mode[s] => Complete
    /\ \A p \in Contacts : upload[p] => mode[SessionOf[p]]
    /\ complete => finished = AllPieces

\* The inductive invariant: a scan has seen the pieces below at, the sessions
\* are called when the download is complete, and a list has its own peers.
ScanSound ==
    \A s \in Sessions :
        /\ pc[s] = "scan" => \A i \in Wanted : i < at[s] => i \in finished
        /\ pc[s] \in {"calls", "raised"} => Complete /\ todo[s] # <<>>

OwnPeers ==
    \A s \in Sessions : \A p \in members[s] \cup round[s] : SessionOf[p] = s

FinishInv == TypeOK /\ ScanSound /\ OwnPeers /\ NoFalseFinish

\* AllSwitch: when one session was told that the download is finished, every
\* session is, and raised flags are dealt with.
AllSwitch ==
    /\ []<>((\E s \in Sessions : mode[s]) => \A s \in Sessions : mode[s])
    /\ \A s \in Sessions : []<>~switch[s]

\* FinishSeen: when no thread is in WritePiece, a finished download is known
\* to be finished (comment at l.830 of BTStorage.cpp).
FinishSeen ==
    (Complete /\ \A s \in Sessions : pc[s] = "idle") => flag
=============================================================================
