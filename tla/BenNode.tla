------------------------------ MODULE BenNode ------------------------------
(***************************************************************************)
(* The reader of bencoded data (BenNode.cpp; TorrentFile.cpp:120 is the    *)
(* same loop): torrents, DHT messages and tracker answers all go through   *)
(* it.  The tree is built through its root: every open node points to the  *)
(* child that is being filled (m_pOperator), and a call is handed down     *)
(* that chain.  A dictionary holds pairs, each with a key and the place of *)
(* its value.                                                              *)
(*                                                                         *)
(* A token stands for its text: "d", "l", "e", a number or a string.       *)
(***************************************************************************)
EXTENDS Naturals, Sequences, SequencesExt, FiniteSets

CONSTANTS
    Ints, Strings,
    CutKey,         \* what is kept of a string as a key: all before its first NUL
    MaxTokens       \* bound: length of the input

BenAssumption ==
    /\ MaxTokens \in Nat /\ Ints \cap Strings = {}
    /\ CutKey \in [Strings -> Strings]
    /\ \A s \in Strings : CutKey[CutKey[s]] = CutKey[s]
    /\ {"d", "l", "e"} \cap (Ints \cup Strings) = {}

Tokens == {"d", "l", "e"} \cup Ints \cup Strings

VARIABLES
    nodes,          \* the tree; node 1 is the root, 0 is NULL
    opened,         \* OpQueue: "dict" or "list" for every open one
    read,           \* the tokens so far
    result          \* "reading", "ok" or "error"

vars == <<nodes, opened, read, result>>

---------------------------------------------------------------------------
(* The tree.                                                               *)

Node(type, val) == [type |-> type, val |-> val, kids |-> <<>>, value |-> 0, op |-> 0]

\* The end of the chain of open nodes that begins at the root.
Cursor(w) ==
    LET at[n \in 1..Len(w)] == IF w[n].op = 0 THEN n ELSE at[w[n].op] IN at[1]

\* What entry c has last, when that has no value: a pair whose value comes next,
\* or a list that stands where a key should.
Awaiting(w, c) ==
    {k \in {w[c].kids[i] : i \in {Len(w[c].kids)} \ {0}} : w[k].value = 0}

\* A new node as the last entry of c, or as the value of its last pair.
NewChild(w, c, node) == Append([w EXCEPT ![c].kids = Append(@, Len(w) + 1)], node)
NewValue(w, k, node) == Append([w EXCEPT ![k].value = Len(w) + 1], node)

Entered(w, c) == [w EXCEPT ![c].op = Len(w)]

OpenDictionary(w) ==
    LET op == Cursor(w) IN
    CASE w[op].type = "null" -> [w EXCEPT ![op].type = "dict"]
      [] w[op].type = "list" -> Entered(NewChild(w, op, Node("dict", <<>>)), op)
      [] w[op].type = "dict" /\ Awaiting(w, op) # {} ->
            Entered(NewValue(w, Last(w[op].kids), Node("dict", <<>>)), op)
      [] OTHER -> w

\* Who takes a list: a dictionary looks at its last entry before it hands the call
\* down, the other nodes hand it down first.
Taker(w) ==
    LET at[n \in 1..Len(w)] ==
            IF w[n].op = 0 \/ (w[n].type = "dict" /\ Awaiting(w, n) # {})
            THEN n ELSE at[w[n].op]
    IN at[1]

\* A list where a key should stand becomes an entry of its own.
OpenList(w) ==
    LET op == Taker(w) IN
    CASE w[op].type = "null" -> [w EXCEPT ![op].type = "list"]
      [] w[op].type = "dict" /\ Awaiting(w, op) # {} ->
            Entered(NewValue(w, Last(w[op].kids), Node("list", <<>>)), op)
      [] w[op].type \in {"list", "dict"} -> Entered(NewChild(w, op, Node("list", <<>>)), op)
      [] OTHER -> w

\* CloseDictionary and CloseList: only one is closed.
Close(w, type) ==
    LET op == Cursor(w) IN
    IF w[op].type # type THEN w
    ELSE [n \in DOMAIN w |-> IF w[n].op = op THEN [w[n] EXCEPT !.op = 0] ELSE w[n]]

\* A number; where a key should stand it is lost.
AddInt(w, v) ==
    LET op == Cursor(w) IN
    CASE w[op].type \in {"null", "int"} -> [w EXCEPT ![op].type = "int", ![op].val = <<v>>]
      [] w[op].type = "list" -> NewChild(w, op, Node("int", <<v>>))
      [] w[op].type = "dict" /\ Awaiting(w, op) # {} ->
            NewValue(w, Last(w[op].kids), Node("int", <<v>>))
      [] OTHER -> w

\* A string is a value where one is awaited, and a key otherwise; SetKey copies a
\* key as a C string.
AddString(w, v) ==
    LET op == Cursor(w) IN
    CASE w[op].type \in {"null", "string"} ->
            [w EXCEPT ![op].type = "string", ![op].val = Append(@, v)]
      [] w[op].type = "list" -> NewChild(w, op, Node("string", <<v>>))
      [] w[op].type = "dict" /\ Awaiting(w, op) # {} ->
            NewValue(w, Last(w[op].kids), Node("string", <<v>>))
      [] w[op].type = "dict" -> NewChild(w, op, Node("pair", <<CutKey[v]>>))
      [] OTHER -> w

---------------------------------------------------------------------------
(* FromStream, a token at a time.                                          *)

Built(t) ==
    CASE t = "d" -> OpenDictionary(nodes)
      [] t = "l" -> OpenList(nodes)
      [] t = "e" -> Close(nodes, Last(opened))
      [] t \in Ints -> AddInt(nodes, t)
      [] t \in Strings -> AddString(nodes, t)

\* Reading stops at once where the end of a dictionary leaves nothing open; after
\* a list it goes on, into the list that was closed.
Read(t) ==
    /\ result = "reading" /\ Len(read) < MaxTokens
    /\ t = "e" => opened # <<>>
    /\ read' = Append(read, t)
    /\ nodes' = Built(t)
    /\ opened' = CASE t = "d" -> Append(opened, "dict")
                   [] t = "l" -> Append(opened, "list")
                   [] t = "e" -> Front(opened)
                   [] OTHER -> opened
    /\ result' = IF t = "e" /\ opened = <<"dict">> THEN "ok" ELSE "reading"

\* An end too many, the end of the input, or a character that begins no token.
StopReading ==
    /\ result = "reading"
    /\ result' = IF opened = <<>> THEN "ok" ELSE "error"
    /\ UNCHANGED <<nodes, opened, read>>

Surplus ==
    /\ result = "reading" /\ opened = <<>>
    /\ result' = "error"
    /\ UNCHANGED <<nodes, opened, read>>

Init ==
    /\ nodes = <<Node("null", <<>>)>>
    /\ opened = <<>> /\ read = <<>> /\ result = "reading"

Next == (\E t \in Tokens : Read(t)) \/ StopReading \/ Surplus

Spec == Init /\ [][Next]_vars

---------------------------------------------------------------------------
(* EncodeToStream.                                                         *)

ToStream(w) ==
    LET enc[n \in 0..Len(w)] ==
            IF n = 0 THEN <<>>
            ELSE LET kids == FlattenSeq([i \in DOMAIN w[n].kids |-> enc[w[n].kids[i]]])
                 IN  CASE w[n].type = "null" -> <<>>
                       [] w[n].type \in {"int", "string"} -> w[n].val
                       [] w[n].type = "list" -> <<"l">> \o kids \o <<"e">>
                       [] w[n].type = "dict" -> <<"d">> \o kids \o <<"e">>
                       [] w[n].type = "pair" -> w[n].val \o enc[w[n].value]
    IN  enc[1]

---------------------------------------------------------------------------
(* Properties.                                                             *)

\* What must come next, for every open container: the grammar of one value.
Expected(s, t) ==
    IF s = <<>> THEN <<"wrong">>
    ELSE LET top  == Last(s)
             rest == Front(s) \o (CASE top = "root" -> <<>> [] top = "value" -> <<"key">>
                                    [] OTHER -> <<top>>)
         IN  CASE t = "e" /\ top \in {"key", "list"} -> Front(s)
               [] t \in Strings /\ top = "key" -> Front(s) \o <<"value">>
               [] t \in Ints \cup Strings /\ top \in {"value", "list"} -> rest
               [] t = "d" /\ top \in {"root", "value", "list"} -> Append(rest, "key")
               [] t = "l" /\ top \in {"root", "value", "list"} -> Append(rest, "list")
               [] OTHER -> <<"wrong">>

Stack(i) == FoldLeft(Expected, <<"root">>, SubSeq(read, 1, i))

IsKey(i) == read[i] \in Strings /\ Last(Stack(i - 1)) = "key"

TypeOK ==
    /\ \A i \in DOMAIN nodes :
        /\ nodes[i].type \in {"null", "int", "string", "list", "dict", "pair"}
        /\ nodes[i].op \in 0..Len(nodes) /\ nodes[i].value \in 0..Len(nodes)
    /\ ToSet(opened) \subseteq {"dict", "list"} /\ result \in {"reading", "ok", "error"}

\* One whole dictionary is accepted at its last token and one whole list where
\* the input ends, and the tree is written out as it was read, but for its keys,
\* which lose what follows a NUL: the infohash of a task is the hash of its info
\* dictionary written out again (TorrentFile.cpp:1010), and nobody else would
\* know it.
RoundTrip ==
    Stack(Len(read)) = <<>> =>
        /\ opened = <<>>
        /\ read[1] = "d" => result = "ok"
        /\ ToStream(nodes) =
            [i \in DOMAIN read |-> IF IsKey(i) THEN CutKey[read[i]] ELSE read[i]]

\* Whatever the input was: the calls that fail, of a dictionary where a key should
\* stand or of an end of the other kind, are counted as open all the same
\* (BenNode.cpp:615, 660), but no node stays open for longer than something is
\* counted, so what is read next is never hung below a level that was left.
LevelsClosed ==
    LET depth[n \in 1..Len(nodes)] ==
            IF nodes[n].op = 0 THEN 0 ELSE 1 + depth[nodes[n].op]
    IN  depth[1] <= Len(opened)
=============================================================================
