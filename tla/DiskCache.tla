---------------------------- MODULE DiskCache ----------------------------
(***************************************************************************)
(* The files of a task as CBTStorage keeps them (BTStorage.cpp): finished  *)
(* pieces wait in the write cache (m_WriteCache), the pieces at the head   *)
(* of a file stay in memory (m_EdgeCache), what was read from disk is kept *)
(* in a short list (m_ReadBufferList), and the storage thread stores the   *)
(* cached pieces and extends big files once a second (SmartWriteCache).    *)
(* The user may change the selection of files meanwhile, the process may   *)
(* stop or crash, and a start hashes what lies on disk.                    *)
(*                                                                         *)
(* A piece has one part in every file it touches; a part on disk is right  *)
(* or not.  Padding ("virtual") files are read as zeros and never stored,  *)
(* so they are no files here.  Lengths are counted in pieces.              *)
(***************************************************************************)
EXTENDS Naturals, FiniteSets, Sequences

CONSTANTS
    FileCount,      \* files of the torrent, in their order
    headindex, tailindex,     \* headindex and tailindex of each file
    Big,            \* the files longer than 4*1024*10240 bytes
    Unaligned,      \* pieces in which a file, padding included, ends before the
                    \* piece does; none where the torrent is one file
    Step,           \* pieces in 4 MB: 4*1024*1024 / piece length, at least 1
    MaxCached,      \* pieces in 15 MB: the write cache is emptied below this
    MaxEvents       \* bound: changes of the selection, failing calls of the file
                    \* system and starts after a stop or a crash, together

Files == 1..FileCount

ASSUME LayoutAssumption ==
    /\ FileCount \in Nat \ {0}
    /\ headindex \in [Files -> Nat] /\ tailindex \in [Files -> Nat]
    /\ headindex[1] = 0
    /\ \A f \in Files : headindex[f] < tailindex[f]
    /\ \A f \in Files \ {1} : headindex[f] \in {tailindex[f - 1] - 1, tailindex[f - 1]}
    /\ Big \subseteq Files
ASSUME LimitAssumption ==
    /\ Step \in Nat \ {0} /\ MaxCached \in Nat \ {0} /\ MaxEvents \in Nat

Pieces == 0..(tailindex[FileCount] - 1)
FilesOf(p) == {f \in Files : headindex[f] <= p /\ p < tailindex[f]}
PiecesOf(f) == {p \in Pieces : f \in FilesOf(p)}
Parts == {pf \in Pieces \X Files : pf[2] \in FilesOf(pf[1])}

Least(S) == CHOOSE x \in S : \A y \in S : x <= y
FirstFile(p) == Least(FilesOf(p))

VARIABLES
    want,           \* files with a Priority other than 0
    handle,         \* file -> "none", "ro" (opened while not wanted) or "rw"
    onDisk,         \* files that exist
    right,          \* parts whose bytes on disk are the torrent's
    finished,       \* m_FinishedBitSet
    prio,           \* pieces with a value in m_PriorityBitSet
    cache,          \* pieces in m_WriteCache
    edgeCache,      \* pieces in m_EdgeCache
    edging,         \* edge pieces whose session let go of m_WriteCacheMutex and has
                    \* not put them into m_EdgeCache yet
    buffer,         \* pieces of which m_ReadBufferList holds wrong bytes; the right
                    \* ones are what the disk would give
    early,          \* those of them that were read while the piece was edging
    lastwrite,      \* file -> lastwrite of its TStorageFileInfo
    pc,             \* what the storage thread does
    pos,            \* where its loop stands: a piece or a file
    left,           \* nwrite + 1: pieces the overflow loop still stores
    ui,             \* what AdjustFilePriority does
    todo,           \* edge pieces CheckEdgeIntegrality has not read yet
    holed,          \* files selected again, or not created: no check covers them
    lost,           \* finished pieces that left the cache without being stored
    events          \* what is left of MaxEvents

files == <<want, handle, onDisk>>
marks == <<finished, prio>>
memory == <<cache, edgeCache, edging, buffer, early>>
thread == <<pc, pos, left>>
user == <<ui, todo>>
vars == <<files, right, marks, memory, lastwrite, thread, user, holed, lost, events>>

Running == pc \in {"run", "near", "over", "grow"}

\* IsEdgePiece: only the head of a file counts.
IsEdgePiece(p) == \E f \in Files : headindex[f] = p

\* The pieces that lie across the end of a file.
Across == {p \in Pieces : Cardinality(FilesOf(p)) > 1}

ASSUME UnalignedAssumption ==
    /\ Across \subseteq Unaligned
    /\ Unaligned \subseteq {headindex[f] : f \in Files} \cup {tailindex[f] - 1 : f \in Files}

\* GenPriorityBitSet: the pieces of the wanted files.
Wanted(w) == UNION {PiecesOf(f) : f \in w}

Readable(p, h) == \A f \in FilesOf(p) : h[f] # "none"
RightOnDisk(p) == \A f \in FilesOf(p) : <<p, f>> \in right

---------------------------------------------------------------------------
(* Reading: what ReadData returns for a piece, and what it leaves behind.  *)

\* ReadDataFromCache, in its order: read buffers, edge cache, write cache.
FromCache(p) ==
    IF p \in buffer THEN "wrong"
    ELSE IF (IsEdgePiece(p) /\ p \in edgeCache) \/ p \in cache THEN "right"
    ELSE "miss"

ReadData(p) ==
    IF FromCache(p) # "miss" THEN FromCache(p)
    ELSE IF ~Readable(p, handle) THEN "fail"
    ELSE IF RightOnDisk(p) THEN "right" ELSE "wrong"

\* A session serves a block of a finished piece; a read from disk is buffered
\* and may push the oldest buffer out.
Read(p) ==
    /\ pc = "run" /\ p \in finished
    /\ FromCache(p) = "miss" /\ Readable(p, handle)
    /\ \E oldest \in SUBSET buffer :
        /\ Cardinality(oldest) <= 1
        /\ buffer' = (buffer \ oldest) \cup (IF RightOnDisk(p) THEN {} ELSE {p})
        /\ early' = (early \ oldest)
                     \cup (IF RightOnDisk(p) \/ p \notin edging THEN {} ELSE {p})
    /\ UNCHANGED <<files, right, marks, cache, edgeCache, edging, lastwrite, thread,
                   user, holed, lost, events>>

---------------------------------------------------------------------------
(* A session hands in a piece with the right hash.                         *)

WritePiece(p) ==
    /\ pc = "run"                   \* the storage thread holds the cache's mutex otherwise
    /\ p \notin finished /\ p \in prio
    /\ finished' = finished \cup {p}
    /\ cache' = cache \cup {p}
    /\ edging' = IF IsEdgePiece(p) THEN edging \cup {p} ELSE edging
    /\ UNCHANGED <<files, right, prio, edgeCache, buffer, early, lastwrite, thread,
                   user, holed, lost, events>>

\* The session goes on under m_EdgeCacheMutex; anything may have happened since it
\* released the mutex of the write cache.
CacheEdge(p) ==
    /\ pc # "down" /\ p \in edging
    /\ edgeCache' = edgeCache \cup {p}
    /\ edging' = edging \ {p}
    /\ UNCHANGED <<files, right, marks, cache, buffer, early, lastwrite, thread,
                   user, holed, lost, events>>

---------------------------------------------------------------------------
(* Storing one piece.                                                      *)

\* The parts WritePieceToDisk does not skip.
Targets(p) == {f \in FilesOf(p) \cap want : handle[f] # "none"}

ReadOnly(p) == {f \in Targets(p) : handle[f] = "ro"}

Stores(p) ==
    /\ ReadOnly(p) = {}
    /\ right' = right \cup {<<p, f>> : f \in Targets(p)}
    /\ UNCHANGED events

\* The write into file f fails, the ones into earlier files are done.
Fails(p) ==
    \E f \in Targets(p) :
        /\ \A g \in ReadOnly(p) : f <= g
        /\ \/ f \in ReadOnly(p) /\ UNCHANGED events
           \/ events > 0 /\ events' = events - 1
        /\ right' = right \cup {<<p, g>> : g \in {h \in Targets(p) : h < f}}

\* Mutant: the position before the stored piece is recorded.
RecordLastWriteBefore(p) ==
    lastwrite' = [lastwrite EXCEPT ![FirstFile(p)] = IF @ < p THEN p - 1 ELSE @]

\* RecordLastWriteInFile: only the first file with the piece is moved on.
RecordLastWrite(p) ==
    lastwrite' = [lastwrite EXCEPT ![FirstFile(p)] = IF @ < p THEN p ELSE @]

\* PieceDistanceFromLastWrite(p) <= 4 MB.
Near(p) == p <= lastwrite[FirstFile(p)] + 1 + Step

---------------------------------------------------------------------------
(* SmartWriteCache, one piece or file a step; the mutex of the cache is    *)
(* held from Wake to the return to "run".                                  *)

Return == pc' = "run" /\ pos' = 0 /\ left' = 0

Wake ==
    /\ pc = "run"
    /\ pc' = "near" /\ pos' = 0 /\ left' = 0
    /\ UNCHANGED <<files, right, marks, memory, lastwrite, user, holed, lost, events>>

\* Mutant: the loop begins behind the first piece.
NearPiecesBehind == {p \in cache : pos < p /\ Near(p)}

NearPieces == {p \in cache : pos <= p /\ Near(p)}

\* Mutant: one piece too few, the loop runs while nwrite > 0.
ToOverflowLess(c) ==
    /\ pc' = "over" /\ pos' = 0
    /\ left' = IF MaxCached <= Cardinality(c) THEN Cardinality(c) - MaxCached ELSE 0

\* nwrite = size - maxsize, and the loop runs while nwrite >= 0.
ToOverflow(c) ==
    /\ pc' = "over" /\ pos' = 0
    /\ left' = IF MaxCached <= Cardinality(c) THEN Cardinality(c) - MaxCached + 1 ELSE 0

WriteNear ==
    /\ pc = "near" /\ NearPieces # {}
    /\ LET p == Least(NearPieces)
       IN  \/ /\ Stores(p) /\ RecordLastWrite(p)
              /\ cache' = cache \ {p}
              /\ \/ pc' = "near" /\ pos' = p + 1 /\ UNCHANGED left
                 \/ ToOverflow(cache \ {p})             \* 100 ms are over
           \/ Fails(p) /\ Return /\ UNCHANGED <<lastwrite, cache>>
    /\ UNCHANGED <<files, marks, edgeCache, edging, buffer, early, user, holed, lost>>

NearDone ==
    /\ pc = "near" /\ NearPieces = {}
    /\ ToOverflow(cache)
    /\ UNCHANGED <<files, right, marks, memory, lastwrite, user, holed, lost, events>>

WriteOverflow ==
    /\ pc = "over" /\ left > 0 /\ cache # {}
    /\ LET p == Least(cache)
       IN  \/ /\ Stores(p) /\ RecordLastWrite(p)
              /\ cache' = cache \ {p}
              /\ left' = left - 1 /\ UNCHANGED <<pc, pos>>
           \/ Fails(p) /\ Return /\ UNCHANGED <<lastwrite, cache>>
    /\ UNCHANGED <<files, marks, edgeCache, edging, buffer, early, user, holed, lost>>

OverflowDone ==
    /\ pc = "over" /\ (left = 0 \/ cache = {})
    /\ \/ pc' = "grow" /\ pos' = 1 /\ left' = 0
       \/ Return                                        \* 100 ms are over
    /\ UNCHANGED <<files, right, marks, memory, lastwrite, user, holed, lost, events>>

Growing(f) == f \in Big /\ handle[f] # "none"

\* The byte 0x0A goes to the end of the piece before the new position; a write
\* to a file opened for reading does nothing and is not noticed.
Extend(f) ==
    IF lastwrite[f] + Step >= tailindex[f]
    THEN /\ lastwrite' = [lastwrite EXCEPT ![f] = tailindex[f]]
         /\ UNCHANGED right
    ELSE /\ lastwrite' = [lastwrite EXCEPT ![f] = @ + Step]
         /\ right' = IF handle[f] = "rw"
                     THEN right \ {<<lastwrite[f] + Step - 1, f>>} ELSE right

GrowFile ==
    /\ pc = "grow" /\ pos \in Files
    /\ IF Growing(pos) THEN Extend(pos) ELSE UNCHANGED <<lastwrite, right>>
    /\ \/ pos' = pos + 1 /\ UNCHANGED <<pc, left>>
       \/ Growing(pos) /\ Return                        \* 100 ms are over
    /\ UNCHANGED <<files, marks, memory, user, holed, lost, events>>

GrowDone ==
    /\ pc = "grow" /\ pos \notin Files
    /\ Return
    /\ UNCHANGED <<files, right, marks, memory, lastwrite, user, holed, lost, events>>

---------------------------------------------------------------------------
(* AdjustFilePriority, on the thread of the window.                        *)

\* RebuildFileListStructure: opens the wanted files that have no handle, and
\* only then are the edges read.  A file that cannot be created is not missed.
AdjustFilePriority(w) ==
    /\ Running /\ ui = "idle" /\ w # want
    /\ \E bad \in SUBSET {f \in w : handle[f] = "none"} :
        /\ Cardinality(bad) < events
        /\ events' = events - 1 - Cardinality(bad)
        /\ handle' = [f \in Files |-> IF f \in w \ bad /\ handle[f] = "none"
                                      THEN "rw" ELSE handle[f]]
        /\ onDisk' = onDisk \cup (w \ bad)
        /\ holed' = holed \cup bad \cup {f \in w \ want : handle[f] # "none"}
    /\ want' = w
    /\ ui' = "edges"
    /\ todo' = IF finished # {} /\ (\E f \in w : handle[f] = "none") THEN Unaligned ELSE {}
    /\ UNCHANGED <<right, marks, memory, lastwrite, thread, lost>>

\* CheckEdgeIntegrality: the piece is read from disk, the write cache is not asked.
CheckEdge ==
    /\ Running /\ ui = "edges" /\ todo # {}
    /\ LET p == Least(todo)
       IN  /\ finished' = IF Readable(p, handle) /\ RightOnDisk(p)
                          THEN finished \cup {p} ELSE finished \ {p}
           /\ todo' = todo \ {p}
    /\ UNCHANGED <<files, right, prio, memory, lastwrite, thread, ui,
                   holed, lost, events>>

\* GenPriorityBitSet resets the bit set and fills it again, without a lock.
ClearPriorities ==
    /\ Running /\ ui = "edges" /\ todo = {}
    /\ prio' = {} /\ ui' = "fill"
    /\ UNCHANGED <<files, right, finished, memory, lastwrite, thread, todo,
                   holed, lost, events>>

FillPriorities ==
    /\ Running /\ ui = "fill"
    /\ prio' = Wanted(want) /\ ui' = "idle"
    /\ UNCHANGED <<files, right, finished, memory, lastwrite, thread, todo,
                   holed, lost, events>>

---------------------------------------------------------------------------
(* Stop, crash and start.                                                  *)

Stop ==
    /\ pc = "run" /\ ui = "idle"
    /\ pc' = "flush" /\ UNCHANGED <<pos, left>>
    /\ UNCHANGED <<files, right, marks, memory, lastwrite, user, holed, lost, events>>

\* The end of Entry: what is cached is stored, the errors are ignored.
FlushPiece ==
    /\ pc = "flush" /\ cache # {}
    /\ LET p == Least(cache)
       IN  /\ cache' = cache \ {p}
           /\ \/ Stores(p) /\ UNCHANGED lost
              \/ Fails(p) /\ lost' = lost \cup {p}
    /\ UNCHANGED <<files, marks, edgeCache, edging, buffer, early, lastwrite, thread,
                   user, holed>>

\* Only the files survive.
Down ==
    /\ pc' = "down" /\ pos' = 0 /\ left' = 0
    /\ ui' = "idle" /\ todo' = {}
    /\ want' = {} /\ handle' = [f \in Files |-> "none"]
    /\ finished' = {} /\ prio' = {} /\ cache' = {} /\ edgeCache' = {} /\ buffer' = {}
    /\ edging' = {} /\ early' = {}
    /\ lastwrite' = headindex /\ holed' = {} /\ lost' = {}
    /\ UNCHANGED <<onDisk, right, events>>

Stopped == pc = "flush" /\ cache = {} /\ Down

Crash == pc # "down" /\ Down

\* OpenFiles: wanted files are opened or created, others only if they exist.
Opened(w) == [f \in Files |-> IF f \in w THEN "rw"
                              ELSE IF f \in onDisk THEN "ro" ELSE "none"]

\* CheckOldFiles: every piece that can be read is hashed.
CheckOldFiles(h) == {p \in Pieces : Readable(p, h) /\ RightOnDisk(p)}

\* InitFileProgress: the last finished piece of the file.
FileProgress(done) ==
    [f \in Files |-> IF PiecesOf(f) \cap done = {} THEN headindex[f]
                     ELSE CHOOSE p \in PiecesOf(f) \cap done :
                              \A q \in PiecesOf(f) \cap done : q <= p]

Start(w) ==
    /\ pc = "down" /\ events > 0
    /\ events' = events - 1
    /\ want' = w /\ handle' = Opened(w) /\ onDisk' = onDisk \cup w
    /\ finished' = CheckOldFiles(Opened(w))
    /\ prio' = Wanted(w)
    /\ lastwrite' = FileProgress(CheckOldFiles(Opened(w)))
    /\ pc' = "run"
    /\ UNCHANGED <<right, memory, pos, left, user, holed, lost>>

---------------------------------------------------------------------------
Init ==
    /\ want \in SUBSET Files \ {{}}
    /\ onDisk \in {d \in SUBSET Files : want \subseteq d}  \* old files may lie there
    /\ handle = Opened(want)
    /\ right = {} /\ finished = {} /\ prio = Wanted(want)
    /\ cache = {} /\ edgeCache = {} /\ buffer = {}
    /\ edging = {} /\ early = {}
    /\ lastwrite = headindex
    /\ pc = "run" /\ pos = 0 /\ left = 0
    /\ ui = "idle" /\ todo = {} /\ holed = {} /\ lost = {}
    /\ events = MaxEvents

Smart == Wake \/ WriteNear \/ NearDone \/ WriteOverflow \/ OverflowDone
         \/ GrowFile \/ GrowDone
Adjusting == CheckEdge \/ ClearPriorities \/ FillPriorities

Next ==
    \/ \E p \in Pieces : WritePiece(p) \/ CacheEdge(p) \/ Read(p)
    \/ Smart
    \/ \E w \in SUBSET Files : AdjustFilePriority(w)
    \/ Adjusting
    \/ Stop \/ FlushPiece \/ Stopped \/ Crash
    \/ \E w \in SUBSET Files \ {{}} : Start(w)

Spec == Init /\ [][Next]_vars

\* The storage thread wakes every second, the window finishes its call.
FairSpec == Spec /\ WF_vars(Smart) /\ WF_vars(Adjusting)

---------------------------------------------------------------------------
(* Properties.                                                             *)

TypeOK ==
    /\ want \subseteq Files /\ onDisk \subseteq Files /\ holed \subseteq Files
    /\ handle \in [Files -> {"none", "ro", "rw"}]
    /\ right \subseteq Parts
    /\ finished \subseteq Pieces /\ prio \subseteq Pieces
    /\ cache \subseteq Pieces /\ edgeCache \subseteq Pieces /\ todo \subseteq Pieces
    /\ lost \subseteq Pieces
    /\ edging \subseteq Pieces /\ buffer \subseteq Pieces /\ early \subseteq buffer
    /\ lastwrite \in [Files -> 0..tailindex[FileCount]]
    /\ pc \in {"run", "near", "over", "grow", "flush", "down"}
    /\ pos \in Nat /\ left \in Nat
    /\ ui \in {"idle", "edges", "fill"}
    /\ events \in 0..MaxEvents

\* A finished piece is in the write cache or right on disk in every wanted
\* file: neither the extension of big files (l.3625-3658), nor a selection
\* that changes while pieces are cached, nor the flush of a stop may lose one.
\* Files selected again without being opened anew, or that could not be
\* created, are exempt: the code checks no edge for them (l.1588).
StoredRight ==
    \A p \in finished \ (cache \cup todo \cup lost) :
        \A f \in FilesOf(p) \cap want : f \notin holed => <<p, f>> \in right

\* What ReadData returns for a finished piece of wanted files is never wrong:
\* a part that is not on disk is hidden by the edge cache (l.3060-3073), also
\* while a file has been created and its edges are not checked yet.  The code has
\* one hole, and it is all that is exempt: a piece that the storage thread stored
\* before its session put it into the edge cache (l.819-826), and wrong bytes that
\* were buffered in that moment.
ServedRight ==
    Running => \A p \in finished :
        ReadData(p) = "wrong" =>
            p \in early \cup (edging \ cache) \/ ~(FilesOf(p) \subseteq want \ holed)

\* What makes these two inductive, where a step of growth is two pieces or more.
\* What is not so while the process is down is empty then.

\* What does not outlive its purpose.
Transient ==
    /\ ui # "edges" => todo = {}
    /\ pc # "flush" => lost = {}
    /\ pc = "down" =>
         /\ want = {} /\ finished = {} /\ prio = {} /\ todo = {} /\ holed = {}
         /\ cache = {} /\ edgeCache = {} /\ edging = {} /\ buffer = {}
    /\ todo \subseteq Unaligned
    /\ \A p \in edgeCache \cup edging : IsEdgePiece(p)

\* A wanted file is open, or is known to have been missed; and only pieces of
\* such files are downloaded.
Covered(f) == handle[f] # "none" \/ f \in holed
WantedCovered ==
    /\ \A f \in want : Covered(f)
    /\ \A p \in prio : \E f \in FilesOf(p) : Covered(f)

\* The finished pieces of a file that was never open lie across its end, and
\* the edge cache has them or is about to.
UnopenedEdges ==
    \A p \in finished : \A f \in FilesOf(p) :
        ~Covered(f) => p \in Across /\ p \in edgeCache \cup edging

\* A finished piece that left the cache is right on disk, or it waits for the check
\* of its edge, and the edge cache hides it meanwhile or is about to.
StoredOrHidden ==
    \A p \in finished \ (cache \cup lost) :
        \A f \in FilesOf(p) : f \in want \ holed =>
            <<p, f>> \in right \/ (p \in todo /\ p \in edgeCache \cup edging)

\* Wrong bytes are buffered only of pieces with a part that nobody vouches for, or
\* that were read before the edge cache had them.
BufferedWrong ==
    \A p \in buffer :
        /\ Readable(p, handle)
        /\ p \in early \/ \E f \in FilesOf(p) : f \notin want \/ f \in holed

\* The last write lies in the file, or at its end.
WithinFile ==
    \A f \in Files : headindex[f] <= lastwrite[f] /\ lastwrite[f] <= tailindex[f]

\* A file grows behind what is stored of it; its last piece is never touched.
GrownBehind ==
    Running =>
        \A p \in finished \ cache : \A f \in FilesOf(p) : f \in want \ holed =>
            p <= lastwrite[f] \/ p = tailindex[f] - 1

\* The cache, the disk and the bitsets tell the same story of every piece, for
\* who reads it and for who downloads it, errors and restarts included.
CacheInv ==
    /\ TypeOK /\ StoredRight /\ ServedRight
    /\ Transient /\ WantedCovered /\ UnopenedEdges /\ StoredOrHidden
    /\ BufferedWrong /\ WithinFile /\ GrownBehind

\* While the overflow loop runs, left is how far the cache is above its limit.
OverflowLeft ==
    pc = "over" =>
        IF left = 0 THEN Cardinality(cache) < MaxCached
        ELSE Cardinality(cache) = MaxCached + left - 1

\* A pass of SmartWriteCache that meets no error leaves the cache below 15 MB,
\* also when its 100 ms ran out in the first loop (l.3569-3587).
CacheBounded ==
    [][pc = "over" /\ pc' \in {"grow", "run"} /\ events' = events /\ left = 0
        => Cardinality(cache') < MaxCached]_vars

\* Cached pieces that neither wait for one the disk refuses nor for the
\* progress of a file nobody wants.
Due == IF \E q \in cache : ReadOnly(q) # {} THEN {}
       ELSE {p \in cache : FirstFile(p) \in want}

\* Once nothing is left to download, every cached piece reaches the disk while
\* the task runs: the loop that stores near pieces always finds a next one.
FinishedStored ==
    (prio \subseteq finished /\ Due # {})
        ~> (Due = {} \/ ~(prio \subseteq finished) \/ ~Running)
=============================================================================
