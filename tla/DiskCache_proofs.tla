-------------------------- MODULE DiskCache_proofs --------------------------
(* What is finished is right: in the write cache, or on disk in every wanted *)
(* file, for every layout of the files and every limit, as long as a file    *)
(* grows by two pieces or more at a time.                                    *)
(*                                                                           *)
(* The argument: a finished piece leaves the write cache only for the disk.  *)
(* A file that is opened later misses its share of the pieces across its     *)
(* ends; they wait in the edge cache until CheckEdgeIntegrality has read     *)
(* them (UnopenedEdges, StoredOrHidden), from the moment their session has put *)
(* them there (edging).  The growth of a file hits only     *)
(* pieces behind its last write (GrownBehind).                               *)
EXTENDS DiskCache, Integers, FiniteSetTheorems, WellFoundedInduction, TLAPS

-----------------------------------------------------------------------------
(* Numbers and files.                                                      *)

\* A set of numbers has a least one.
LEMMA LeastNumber ==
  ASSUME NEW S \in SUBSET Nat, S # {}
  PROVE \E x \in S : \A y \in S : x <= y
<1> DEFINE R == {ss \in Nat \X Nat : ss[1] < ss[2]}
<1>1. IsWellFoundedOn(R, Nat)
  BY NatLessThanWellFounded DEF OpToRel
<1>2. PICK x \in S : \A y \in S : <<y, x>> \notin R
  <2> HIDE DEF R
  <2> QED
    BY <1>1, WFMin
<1>3. \A y \in S : ~(y < x)
  BY <1>2
<1> QED
  BY <1>3

\* Least finds it.
LEMMA LeastOf ==
  ASSUME NEW S \in SUBSET Nat, S # {}
  PROVE Least(S) \in S /\ \A y \in S : Least(S) <= y
<1>1. \E x \in S : \A y \in S : x <= y
  BY LeastNumber
<1> QED
  BY <1>1 DEF Least

\* A bounded set of numbers has a greatest one.
LEMMA GreatestNumber ==
  ASSUME NEW S \in SUBSET Nat, S # {}, NEW n \in Nat, \A x \in S : x <= n
  PROVE \E x \in S : \A y \in S : y <= x
<1> DEFINE T == {n - x : x \in S}
<1>1. T \in SUBSET Nat /\ T # {}
  <2>1. ASSUME NEW x \in S PROVE n - x \in Nat
    <3>1. x \in Nat /\ x <= n
      OBVIOUS
    <3> QED
      BY <3>1
  <2> QED
    BY <2>1
<1>2. PICK t \in T : \A u \in T : t <= u
  BY <1>1, LeastNumber
<1>3. PICK x \in S : t = n - x
  BY <1>2
<1>4. ASSUME NEW y \in S PROVE y <= x
  <2>1. n - x <= n - y
    BY <1>2, <1>3
  <2> QED
    BY <2>1
<1> QED
  BY <1>4

\* The files lie in their order: from one to the next by the layout, so for any
\* two by the least file for which it were false.
LEMMA Ordered ==
  ASSUME NEW f \in Files, NEW g \in Files, f < g
  PROVE tailindex[f] - 1 <= headindex[g] /\ tailindex[f] <= tailindex[g]
<1> DEFINE After(a, b) == tailindex[a] - 1 <= headindex[b] /\ tailindex[a] <= tailindex[b]
           S == {b \in Files : \E a \in Files : a < b /\ ~After(a, b)}
<1>1. Files \subseteq Nat /\ \A a \in Files : /\ headindex[a] \in Nat /\ tailindex[a] \in Nat
                                            /\ headindex[a] < tailindex[a]
  BY LayoutAssumption DEF Files
<1>2. ASSUME NEW b \in Files \ {1} PROVE b - 1 \in Files /\ After(b - 1, b)
  <2>1. b - 1 \in Files
    BY LayoutAssumption DEF Files
  <2>2. headindex[b] \in {tailindex[b - 1] - 1, tailindex[b - 1]}
    BY LayoutAssumption
  <2> QED
    BY <1>1, <2>1, <2>2
<1>3. SUFFICES ASSUME S # {} PROVE FALSE
  OBVIOUS
<1>4. PICK b \in S : \A c \in S : b <= c
  <2>1. S \in SUBSET Nat
    BY <1>1
  <2> HIDE DEF S
  <2> QED
    BY <1>3, <2>1, LeastNumber
<1>5. PICK a \in Files : a < b /\ ~After(a, b)
  OBVIOUS
<1>6. a \in Nat /\ b \in Nat /\ a >= 1 /\ b \in Files \ {1}
  BY <1>1, <1>5 DEF Files
<1>7. a # b - 1 /\ a < b - 1
  BY <1>2, <1>5, <1>6
<1>8. After(a, b - 1)
  <2>1. b - 1 \notin S
    BY <1>4, <1>6
  <2> QED
    BY <1>2, <1>6, <1>7, <2>1
<1>9. After(b - 1, b) /\ b - 1 \in Files
  BY <1>2, <1>6
<1> QED
  BY <1>1, <1>5, <1>8, <1>9

\* Files and pieces are numbers, and the limits of a file are too.
LEMMA Numbers ==
  /\ FileCount \in Nat \ {0} /\ FileCount \in Files /\ Files \subseteq Nat /\ Pieces \subseteq Nat
  /\ \A f \in Files : /\ headindex[f] \in Nat /\ tailindex[f] \in Nat /\ headindex[f] < tailindex[f]
                      /\ tailindex[f] <= tailindex[FileCount]
  /\ IsFiniteSet(Files) /\ IsFiniteSet(Pieces)
<1>1. FileCount \in Nat \ {0} /\ FileCount \in Files /\ Files \subseteq Nat
  BY LayoutAssumption DEF Files
<1>2. ASSUME NEW f \in Files
      PROVE /\ headindex[f] \in Nat /\ tailindex[f] \in Nat /\ headindex[f] < tailindex[f]
            /\ tailindex[f] <= tailindex[FileCount]
  <2>1. headindex[f] \in Nat /\ tailindex[f] \in Nat /\ headindex[f] < tailindex[f]
    BY LayoutAssumption
  <2>2. f = FileCount \/ f < FileCount
    BY <1>1 DEF Files
  <2>3. CASE f < FileCount
    BY <1>1, <2>3, Ordered, LayoutAssumption DEF Files
  <2> QED
    BY <2>1, <2>2, <2>3
<1>3. Pieces \subseteq Nat /\ IsFiniteSet(Pieces) /\ IsFiniteSet(Files)
  BY <1>1, <1>2, FS_Interval DEF Pieces, Files
<1> QED
  BY <1>1, <1>2, <1>3

\* What it means to be a file of a piece.
LEMMA FilesOfPiece ==
  ASSUME NEW p \in Pieces
  PROVE /\ FilesOf(p) \subseteq Files
        /\ \A f \in FilesOf(p) : headindex[f] <= p /\ p < tailindex[f]
        /\ \A f \in Files : f \in FilesOf(p) <=> headindex[f] <= p /\ p < tailindex[f]
        /\ IsFiniteSet(FilesOf(p)) /\ Cardinality(FilesOf(p)) \in Nat
<1>1. FilesOf(p) \subseteq Files
  BY DEF FilesOf
<1> QED
  BY <1>1, Numbers, FS_Subset, FS_CardinalityType DEF FilesOf

\* Every piece lies in a file.
LEMMA PieceHasFile ==
  ASSUME NEW p \in Pieces
  PROVE FirstFile(p) \in FilesOf(p) /\ \A f \in FilesOf(p) : FirstFile(p) <= f
<1> DEFINE S == {f \in Files : p < tailindex[f]}
<1>1. p \in Nat /\ p < tailindex[FileCount]
  BY Numbers DEF Pieces
<1>2. FileCount \in S /\ S \in SUBSET Nat
  BY <1>1, Numbers
<1>3. PICK f \in S : \A g \in S : f <= g
  <2> HIDE DEF S
  <2> QED
    BY <1>2, LeastNumber
<1>4. f \in FilesOf(p)
  <2>1. CASE f = 1
    BY <1>1, <1>3, <2>1, LayoutAssumption DEF FilesOf
  <2>2. CASE f # 1
    <3>1. f - 1 \in Files /\ f \in Files \ {1} /\ f - 1 < f
      BY <1>3, <2>2, LayoutAssumption DEF Files
    <3>2. f - 1 \notin S
      BY <1>3, <3>1, Numbers
    <3>3. tailindex[f - 1] <= p
      BY <1>1, <3>1, <3>2, Numbers
    <3>4. headindex[f] <= tailindex[f - 1]
      <4>1. headindex[f] \in {tailindex[f - 1] - 1, tailindex[f - 1]}
        BY <3>1, LayoutAssumption
      <4> QED
        BY <3>1, <4>1, Numbers
    <3> QED
      BY <1>1, <1>3, <3>1, <3>3, <3>4, Numbers DEF FilesOf
  <2> QED
    BY <2>1, <2>2
<1>5. FilesOf(p) \in SUBSET Nat /\ FilesOf(p) # {}
  BY <1>4, FilesOfPiece, Numbers
<1> QED
  BY <1>5, LeastOf DEF FirstFile

\* A piece in two files ends the one and begins the other.
LEMMA Ends ==
  ASSUME NEW p \in Pieces, NEW f \in FilesOf(p), NEW g \in FilesOf(p), f < g
  PROVE p = headindex[g] /\ p = tailindex[f] - 1
<1>1. /\ f \in Files /\ g \in Files /\ p \in Nat
      /\ headindex[g] <= p /\ p < tailindex[f]
      /\ headindex[g] \in Nat /\ tailindex[f] \in Nat
  BY FilesOfPiece, Numbers
<1>2. tailindex[f] - 1 <= headindex[g]
  BY <1>1, Ordered
<1> QED
  BY <1>1, <1>2

\* So the pieces in two files are the ones across an end, and edge pieces.
LEMMA TwoFiles ==
  ASSUME NEW p \in Pieces, NEW f \in FilesOf(p), NEW g \in FilesOf(p), f # g
  PROVE p \in Across /\ IsEdgePiece(p)
<1>1. f \in Files /\ g \in Files /\ f \in Nat /\ g \in Nat
  BY FilesOfPiece, Numbers
<1>2. Cardinality(FilesOf(p)) # 0 /\ Cardinality(FilesOf(p)) # 1
  BY FilesOfPiece, FS_EmptySet, FS_Singleton
<1>3. p \in Across
  BY <1>2, FilesOfPiece DEF Across
<1>4. IsEdgePiece(p)
  <2>1. f < g \/ g < f
    BY <1>1
  <2> QED
    BY <1>1, <2>1, Ends DEF IsEdgePiece
<1> QED
  BY <1>3, <1>4

\* And in each of its files such a piece is the first or the last one.
LEMMA AcrossEnds ==
  ASSUME NEW p \in Across, NEW f \in FilesOf(p)
  PROVE /\ p \in Pieces /\ IsEdgePiece(p)
        /\ \E g \in FilesOf(p) : g # f
        /\ p = headindex[f] \/ p = tailindex[f] - 1
<1>1. p \in Pieces /\ Cardinality(FilesOf(p)) > 1
  BY DEF Across
<1>2. PICK g \in FilesOf(p) : g # f
  <2>1. SUFFICES ASSUME \A g \in FilesOf(p) : g = f PROVE FALSE
    OBVIOUS
  <2>2. FilesOf(p) = {f}
    BY <2>1
  <2>3. Cardinality({f}) = 1
    BY FS_Singleton
  <2> QED
    BY <1>1, <2>2, <2>3
<1>3. f \in Nat /\ g \in Nat
  BY <1>1, FilesOfPiece, Numbers
<1>4. f < g \/ g < f
  BY <1>2, <1>3
<1> QED
  BY <1>1, <1>2, <1>4, Ends, TwoFiles

\* The pieces CheckEdgeIntegrality reads are the first or the last one of each of
\* their files.
LEMMA UnalignedEnds ==
  ASSUME NEW p \in Unaligned
  PROVE p \in Pieces /\ \A f \in FilesOf(p) : p = headindex[f] \/ p = tailindex[f] - 1
<1>1. PICK g \in Files : p = headindex[g] \/ p = tailindex[g] - 1
  BY UnalignedAssumption
<1>2. /\ headindex[g] \in Nat /\ tailindex[g] \in Nat /\ headindex[g] < tailindex[g]
      /\ tailindex[g] <= tailindex[FileCount] /\ tailindex[FileCount] \in Nat
  BY Numbers
<1>3. p \in Pieces
  BY <1>1, <1>2 DEF Pieces
<1>4. g \in FilesOf(p)
  BY <1>1, <1>2, <1>3, FilesOfPiece
<1>5. ASSUME NEW f \in FilesOf(p), f # g PROVE p = headindex[f] \/ p = tailindex[f] - 1
  <2>1. p \in Across
    BY <1>3, <1>4, <1>5, TwoFiles
  <2> QED
    BY <2>1, AcrossEnds
<1> QED
  BY <1>1, <1>3, <1>5

\* The first piece of a file is its own; the others a file shares are first in
\* the file that is not the first one with them.
LEMMA LaterFile ==
  ASSUME NEW p \in Pieces, NEW f \in FilesOf(p), f # FirstFile(p)
  PROVE p = headindex[f]
<1>1. FirstFile(p) \in FilesOf(p) /\ FirstFile(p) <= f /\ f \in Nat /\ FirstFile(p) \in Nat
  BY PieceHasFile, FilesOfPiece, Numbers
<1>2. FirstFile(p) < f
  BY <1>1
<1> QED
  BY <1>1, <1>2, Ends

-----------------------------------------------------------------------------
(* What storing does.                                                      *)

\* Storing a piece writes parts of that piece only, whether it fails or not.
LEMMA PartsOnly ==
  ASSUME NEW p \in Pieces, Stores(p) \/ Fails(p), events \in Nat
  PROVE /\ right \subseteq right' /\ right' \subseteq right \cup {<<p, f>> : f \in FilesOf(p)}
        /\ events' \in Nat /\ events' <= events
<1>1. Targets(p) \subseteq FilesOf(p)
  BY DEF Targets
<1>2. CASE Stores(p)
  BY <1>1, <1>2 DEF Stores
<1>3. CASE Fails(p)
  <2>1. PICK f \in Targets(p) :
          /\ events' = events \/ (events > 0 /\ events' = events - 1)
          /\ right' = right \cup {<<p, g>> : g \in {h \in Targets(p) : h < f}}
    BY <1>3 DEF Fails
  <2> QED
    BY <1>1, <2>1
<1> QED
  BY <1>2, <1>3

\* A piece that is stored is right in every wanted file that is not exempt.
LEMMA Stored ==
  ASSUME NEW p \in Pieces, Stores(p), WantedCovered
  PROVE \A f \in FilesOf(p) : f \in want \ holed => <<p, f>> \in right'
BY DEF Stores, Targets, WantedCovered, Covered

\* The two loops store the least piece of some; they move the file's last write
\* on when that went well, and touch nothing else.
LEMMA LoopStep ==
  ASSUME TypeOK, WriteNear \/ WriteOverflow
  PROVE \E p \in cache :
          /\ \/ Stores(p) /\ RecordLastWrite(p) /\ cache' = cache \ {p}
             \/ Fails(p) /\ UNCHANGED <<lastwrite, cache>>
          /\ UNCHANGED <<files, marks, edgeCache, edging, buffer, early, user, holed, lost>>
          /\ Running /\ Running'
<1>1. CASE WriteNear
  <2> DEFINE p == Least(NearPieces)
  <2>1. p \in cache
    <3>1. NearPieces \in SUBSET Nat /\ NearPieces \subseteq cache /\ NearPieces # {}
      BY <1>1, Numbers DEF TypeOK, NearPieces, WriteNear
    <3> QED
      BY <3>1, LeastOf
  <2>2. /\ \/ Stores(p) /\ RecordLastWrite(p) /\ cache' = cache \ {p}
           \/ Fails(p) /\ UNCHANGED <<lastwrite, cache>>
        /\ pc = "near" /\ pc' \in {"near", "over", "run"}
        /\ UNCHANGED <<files, marks, edgeCache, edging, buffer, early, user, holed, lost>>
    BY <1>1 DEF WriteNear, ToOverflow, Return
  <2> QED
    BY <2>1, <2>2 DEF Running
<1>2. CASE WriteOverflow
  <2> DEFINE p == Least(cache)
  <2>1. p \in cache
    BY <1>2, LeastOf, Numbers DEF TypeOK, WriteOverflow
  <2>2. /\ \/ Stores(p) /\ RecordLastWrite(p) /\ cache' = cache \ {p}
           \/ Fails(p) /\ UNCHANGED <<lastwrite, cache>>
        /\ pc = "over" /\ pc' \in {"over", "run"}
        /\ UNCHANGED <<files, marks, edgeCache, edging, buffer, early, user, holed, lost>>
    BY <1>2 DEF WriteOverflow, Return
  <2> QED
    BY <2>1, <2>2 DEF Running
<1> QED
  BY <1>1, <1>2

\* A recorded write moves one file to the piece, and never back.
LEMMA Recorded ==
  ASSUME TypeOK, NEW p \in Pieces, RecordLastWrite(p)
  PROVE /\ lastwrite' \in [Files -> 0..tailindex[FileCount]]
        /\ \A f \in Files : lastwrite[f] <= lastwrite'[f]
        /\ p <= lastwrite'[FirstFile(p)]
        /\ \A f \in Files : lastwrite'[f] = lastwrite[f]
                            \/ (f \in FilesOf(p) /\ lastwrite'[f] = p)
<1>1. /\ FirstFile(p) \in Files /\ FirstFile(p) \in FilesOf(p)
      /\ p \in Nat /\ tailindex[FileCount] \in Nat /\ p <= tailindex[FileCount]
  BY PieceHasFile, FilesOfPiece, Numbers DEF Pieces
<1>2. lastwrite \in [Files -> 0..tailindex[FileCount]]
  BY DEF TypeOK
<1> QED
  BY <1>1, <1>2 DEF RecordLastWrite

\* So does the growth of a file, which ruins a part behind its last write only.
LEMMA Grown ==
  ASSUME TypeOK, WithinFile, GrowFile
  PROVE /\ lastwrite' \in [Files -> 0..tailindex[FileCount]]
        /\ \A f \in Files : lastwrite[f] <= lastwrite'[f]
        /\ \A f \in Files : lastwrite'[f] = lastwrite[f] \/ lastwrite'[f] <= tailindex[f]
        /\ right' \subseteq right
        /\ \A part \in right \ right' :
             \E f \in Files : /\ part = <<lastwrite[f] + Step - 1, f>>
                              /\ lastwrite[f] + Step < tailindex[f]
<1> DEFINE f == pos
<1>1. f \in Files
  BY DEF GrowFile
<1>2. /\ lastwrite \in [Files -> 0..tailindex[FileCount]] /\ lastwrite[f] \in Nat
      /\ tailindex[f] \in Nat /\ tailindex[FileCount] \in Nat
      /\ tailindex[f] <= tailindex[FileCount] /\ lastwrite[f] <= tailindex[FileCount]
      /\ Step \in Nat \ {0}
  BY <1>1, Numbers, LimitAssumption DEF TypeOK
<1>3. CASE UNCHANGED <<lastwrite, right>>
  BY <1>2, <1>3
<1>4. CASE Extend(f) /\ lastwrite[f] + Step >= tailindex[f]
  <2>1. lastwrite' = [lastwrite EXCEPT ![f] = tailindex[f]] /\ UNCHANGED right
    BY <1>4 DEF Extend
  <2>2. \A g \in Files : lastwrite'[g] = IF g = f THEN tailindex[f] ELSE lastwrite[g]
    BY <1>1, <1>2, <2>1
  <2>3. \A g \in Files : lastwrite[g] \in Nat /\ lastwrite[g] <= tailindex[g]
    BY Numbers DEF TypeOK, WithinFile
  <2>4. ASSUME NEW g \in Files PROVE lastwrite[g] <= lastwrite'[g]
    <3>1. CASE g = f
      BY <1>1, <2>2, <2>3, <3>1
    <3>2. CASE g # f
      BY <2>2, <2>3, <3>2
    <3> QED
      BY <3>1, <3>2
  <2>5. lastwrite' \in [Files -> 0..tailindex[FileCount]]
    <3>1. tailindex[f] \in 0..tailindex[FileCount]
      BY <1>2
    <3> QED
      BY <1>2, <2>1, <3>1
  <2> QED
    BY <1>2, <2>1, <2>2, <2>4, <2>5
<1>5. CASE Extend(f) /\ ~(lastwrite[f] + Step >= tailindex[f])
  <2>1. /\ lastwrite' = [lastwrite EXCEPT ![f] = @ + Step]
        /\ right' = right \/ right' = right \ {<<lastwrite[f] + Step - 1, f>>}
    BY <1>5 DEF Extend
  <2>2. lastwrite[f] + Step < tailindex[f]
    BY <1>2, <1>5
  <2>3. \A g \in Files : lastwrite'[g] = IF g = f THEN lastwrite[f] + Step ELSE lastwrite[g]
    BY <1>1, <1>2, <2>1
  <2>4. \A g \in Files : lastwrite[g] \in Nat
    BY Numbers DEF TypeOK
  <2>5. ASSUME NEW g \in Files PROVE lastwrite[g] <= lastwrite'[g]
    <3>1. CASE g = f
      BY <1>1, <1>2, <2>3, <2>4, <3>1
    <3>2. CASE g # f
      BY <2>3, <2>4, <3>2
    <3> QED
      BY <3>1, <3>2
  <2>6. lastwrite' \in [Files -> 0..tailindex[FileCount]]
    <3>1. lastwrite[f] + Step \in 0..tailindex[FileCount]
      BY <1>2, <2>2
    <3> QED
      BY <1>2, <2>1, <3>1
  <2> QED
    BY <1>1, <1>2, <2>1, <2>2, <2>3, <2>5, <2>6
<1> QED
  BY <1>3, <1>4, <1>5 DEF GrowFile, Growing

\* A file begins at its last finished piece.
LEMMA Progress ==
  ASSUME NEW done \in SUBSET Pieces
  PROVE /\ FileProgress(done) \in [Files -> 0..tailindex[FileCount]]
        /\ \A f \in Files : /\ headindex[f] <= FileProgress(done)[f]
                            /\ FileProgress(done)[f] <= tailindex[f]
                            /\ \A p \in PiecesOf(f) \cap done : p <= FileProgress(done)[f]
<1>1. ASSUME NEW f \in Files
      PROVE /\ FileProgress(done)[f] \in Nat
            /\ headindex[f] <= FileProgress(done)[f] /\ FileProgress(done)[f] <= tailindex[f]
            /\ \A p \in PiecesOf(f) \cap done : p <= FileProgress(done)[f]
  <2> DEFINE S == PiecesOf(f) \cap done
  <2>1. CASE S = {}
    <3>1. FileProgress(done)[f] = headindex[f]
      BY <2>1 DEF FileProgress
    <3> QED
      BY <2>1, <3>1, Numbers
  <2>2. CASE S # {}
    <3>1. FileProgress(done)[f] = CHOOSE p \in S : \A q \in S : q <= p
      BY <2>2 DEF FileProgress
    <3>2. /\ S \in SUBSET Nat /\ tailindex[f] \in Nat
          /\ \A p \in S : headindex[f] <= p /\ p <= tailindex[f]
      <4>1. S \subseteq Pieces /\ \A p \in S : f \in FilesOf(p)
        BY DEF PiecesOf
      <4>2. \A p \in S : p \in Nat /\ headindex[f] <= p /\ p < tailindex[f]
        BY <4>1, FilesOfPiece, Numbers
      <4> QED
        BY <4>1, <4>2, Numbers
    <3>3. \E p \in S : \A q \in S : q <= p
      <4> HIDE DEF S
      <4> QED
        BY <2>2, <3>2, GreatestNumber
    <3>4. FileProgress(done)[f] \in S /\ \A q \in S : q <= FileProgress(done)[f]
      BY <3>1, <3>3
    <3> QED
      BY <3>2, <3>4
  <2> QED
    BY <2>1, <2>2
<1>2. FileProgress(done) = [f \in Files |-> FileProgress(done)[f]]
  BY DEF FileProgress
<1>3. ASSUME NEW f \in Files PROVE FileProgress(done)[f] \in 0..tailindex[FileCount]
  BY <1>1, Numbers
<1> QED
  BY <1>1, <1>2, <1>3

-----------------------------------------------------------------------------
(* Types, and the last write of every file.                                *)

LEMMA TypeInit == Init => TypeOK /\ WithinFile
<1> SUFFICES ASSUME Init PROVE TypeOK /\ WithinFile
  OBVIOUS
<1>1. /\ want \subseteq Files /\ onDisk \subseteq Files
      /\ handle \in [Files -> {"none", "ro", "rw"}] /\ prio \subseteq Pieces
  BY DEF Init, Opened, Wanted, PiecesOf
<1>2. lastwrite \in [Files -> 0..tailindex[FileCount]] /\ WithinFile
  <2>1. ASSUME NEW f \in Files
        PROVE /\ headindex[f] \in 0..tailindex[FileCount]
              /\ headindex[f] <= headindex[f] /\ headindex[f] <= tailindex[f]
    BY Numbers
  <2>2. headindex \in [Files -> Nat]
    BY LayoutAssumption
  <2> QED
    BY <2>1, <2>2 DEF Init, WithinFile
<1> QED
  BY <1>1, <1>2, LimitAssumption DEF Init, TypeOK

\* Every step of the program keeps them.
LEMMA TypeStep ==
  ASSUME TypeOK, WithinFile, [Next]_vars
  PROVE TypeOK' /\ WithinFile'
<1> USE DEF files, marks, memory, thread, user
<1>1. CASE UNCHANGED vars
  BY <1>1 DEF vars, TypeOK, WithinFile
<1>2. ASSUME NEW p \in Pieces, WritePiece(p) PROVE TypeOK' /\ WithinFile'
  BY <1>2 DEF WritePiece, TypeOK, WithinFile
<1>18. ASSUME NEW p \in Pieces, CacheEdge(p) PROVE TypeOK' /\ WithinFile'
  BY <1>18 DEF CacheEdge, TypeOK, WithinFile
<1>3. ASSUME NEW p \in Pieces, Read(p) PROVE TypeOK' /\ WithinFile'
  BY <1>3 DEF Read, TypeOK, WithinFile
<1>4. CASE Wake
  BY <1>4 DEF Wake, TypeOK, WithinFile
<1>5. CASE WriteNear \/ WriteOverflow
  <2>1. PICK p \in cache :
          /\ \/ Stores(p) /\ RecordLastWrite(p) /\ cache' = cache \ {p}
             \/ Fails(p) /\ UNCHANGED <<lastwrite, cache>>
          /\ UNCHANGED <<files, marks, edgeCache, edging, buffer, early, user, holed, lost>>
    BY <1>5, LoopStep
  <2>2. p \in Pieces /\ p \in Nat
    BY Numbers DEF TypeOK
  <2>3. right' \subseteq Parts /\ events' \in 0..MaxEvents
    <3>1. /\ right' \subseteq right \cup {<<p, f>> : f \in FilesOf(p)}
          /\ events' \in Nat /\ events' <= events
      BY <2>1, <2>2, PartsOnly DEF TypeOK
    <3>2. {<<p, f>> : f \in FilesOf(p)} \subseteq Parts
      BY <2>2, FilesOfPiece DEF Parts
    <3>3. events \in Nat /\ events <= MaxEvents /\ MaxEvents \in Nat
      BY LimitAssumption DEF TypeOK
    <3> QED
      BY <3>1, <3>2, <3>3 DEF TypeOK
  <2>4. lastwrite' \in [Files -> 0..tailindex[FileCount]] /\ WithinFile'
    <3>1. CASE UNCHANGED lastwrite
      BY <3>1 DEF TypeOK, WithinFile
    <3>2. CASE RecordLastWrite(p)
      <4>1. /\ lastwrite' \in [Files -> 0..tailindex[FileCount]]
            /\ \A f \in Files : lastwrite'[f] = lastwrite[f]
                                \/ (f \in FilesOf(p) /\ lastwrite'[f] = p)
        BY <2>2, <3>2, Recorded
      <4>2. ASSUME NEW f \in FilesOf(p) PROVE headindex[f] <= p /\ p <= tailindex[f]
        <5>1. f \in Files /\ headindex[f] <= p /\ p < tailindex[f]
          BY <2>2, FilesOfPiece
        <5> QED
          BY <2>2, <5>1, Numbers
      <4>3. ASSUME NEW f \in Files
            PROVE headindex[f] <= lastwrite'[f] /\ lastwrite'[f] <= tailindex[f]
        <5>1. CASE lastwrite'[f] = lastwrite[f]
          BY <5>1 DEF WithinFile
        <5>2. CASE f \in FilesOf(p) /\ lastwrite'[f] = p
          BY <4>2, <5>2
        <5> QED
          BY <4>1, <5>1, <5>2
      <4> QED
        BY <4>1, <4>3 DEF WithinFile
    <3> QED
      BY <2>1, <3>1, <3>2
  <2>5. pc' \in {"near", "over", "run"} /\ pos' \in Nat /\ left' \in Nat
    <3>1. CASE WriteNear
      <4>1. NearPieces \in SUBSET Nat /\ NearPieces \subseteq cache /\ NearPieces # {}
        BY <3>1, Numbers DEF TypeOK, NearPieces, WriteNear
      <4>2. Least(NearPieces) \in Pieces /\ Least(NearPieces) \in Nat
        BY <4>1, LeastOf DEF TypeOK
      <4>3. Least(NearPieces) + 1 \in Nat
        BY <4>2
      <4>4. Cardinality(cache \ {Least(NearPieces)}) \in Nat
        BY Numbers, FS_Subset, FS_CardinalityType DEF TypeOK
      <4> QED
        BY <3>1, <4>3, <4>4, LimitAssumption DEF WriteNear, ToOverflow, Return, TypeOK
    <3>2. CASE WriteOverflow
      BY <3>2 DEF WriteOverflow, Return, TypeOK
    <3> QED
      BY <1>5, <3>1, <3>2
  <2> QED
    BY <2>1, <2>3, <2>4, <2>5 DEF TypeOK
<1>6. CASE NearDone
  <2>1. Cardinality(cache) \in Nat
    BY Numbers, FS_Subset, FS_CardinalityType DEF TypeOK
  <2>2. pc' = "over" /\ pos' = 0 /\ left' \in Nat
    BY <1>6, <2>1, LimitAssumption DEF NearDone, ToOverflow
  <2> QED
    BY <1>6, <2>2 DEF NearDone, TypeOK, WithinFile
<1>7. CASE OverflowDone
  BY <1>7 DEF OverflowDone, Return, TypeOK, WithinFile
<1>8. CASE GrowFile
  <2>1. /\ lastwrite' \in [Files -> 0..tailindex[FileCount]]
        /\ \A f \in Files : lastwrite[f] <= lastwrite'[f]
        /\ \A f \in Files : lastwrite'[f] = lastwrite[f] \/ lastwrite'[f] <= tailindex[f]
        /\ right' \subseteq right
    BY <1>8, Grown
  <2>2. WithinFile'
    <3>1. ASSUME NEW f \in Files PROVE headindex[f] <= lastwrite'[f] /\ lastwrite'[f] <= tailindex[f]
      <4>1. /\ headindex[f] <= lastwrite[f] /\ lastwrite[f] <= tailindex[f]
            /\ lastwrite[f] <= lastwrite'[f]
            /\ lastwrite'[f] = lastwrite[f] \/ lastwrite'[f] <= tailindex[f]
        BY <2>1 DEF WithinFile
      <4>2. headindex[f] \in Nat /\ lastwrite[f] \in Nat /\ lastwrite'[f] \in Nat
        BY <2>1, Numbers DEF TypeOK
      <4> QED
        BY <4>1, <4>2
    <3> QED
      BY <3>1 DEF WithinFile
  <2>3. pos' \in Nat /\ left' \in Nat /\ pc' \in {"grow", "run"}
    BY <1>8 DEF GrowFile, Return, TypeOK
  <2> QED
    BY <1>8, <2>1, <2>2, <2>3 DEF GrowFile, TypeOK
<1>9. CASE GrowDone
  BY <1>9 DEF GrowDone, Return, TypeOK, WithinFile
<1>10. ASSUME NEW w \in SUBSET Files, AdjustFilePriority(w) PROVE TypeOK' /\ WithinFile'
  <2>1. PICK bad \in SUBSET {f \in w : handle[f] = "none"} :
          /\ Cardinality(bad) < events
          /\ events' = events - 1 - Cardinality(bad)
          /\ handle' = [f \in Files |-> IF f \in w \ bad /\ handle[f] = "none"
                                        THEN "rw" ELSE handle[f]]
          /\ onDisk' = onDisk \cup (w \ bad)
          /\ holed' = holed \cup bad \cup {f \in w \ want : handle[f] # "none"}
    BY <1>10 DEF AdjustFilePriority
  <2>2. Cardinality(bad) \in Nat
    BY Numbers, FS_Subset, FS_CardinalityType
  <2>3. events' \in 0..MaxEvents
    BY <2>1, <2>2, LimitAssumption DEF TypeOK
  <2>4. handle' \in [Files -> {"none", "ro", "rw"}]
    BY <2>1 DEF TypeOK
  <2>5. onDisk' \subseteq Files /\ holed' \subseteq Files
    BY <2>1 DEF TypeOK
  <2>6. /\ want' = w /\ ui' = "edges" /\ todo' \subseteq Pieces
        /\ UNCHANGED <<right, marks, memory, lastwrite, thread, lost>>
    BY <1>10, UnalignedEnds DEF AdjustFilePriority, TypeOK
  <2> QED
    BY <2>3, <2>4, <2>5, <2>6 DEF TypeOK, WithinFile
<1>11. CASE CheckEdge
  <2>1. Least(todo) \in Pieces
    BY <1>11, LeastOf, Numbers DEF CheckEdge, TypeOK
  <2> QED
    BY <1>11, <2>1 DEF CheckEdge, TypeOK, WithinFile
<1>12. CASE ClearPriorities
  BY <1>12 DEF ClearPriorities, TypeOK, WithinFile
<1>13. CASE FillPriorities
  BY <1>13 DEF FillPriorities, Wanted, PiecesOf, TypeOK, WithinFile
<1>14. CASE Stop
  BY <1>14 DEF Stop, TypeOK, WithinFile
<1>15. CASE FlushPiece
  <2> DEFINE p == Least(cache)
  <2>1. p \in Pieces
    BY <1>15, LeastOf, Numbers DEF FlushPiece, TypeOK
  <2>2. right' \subseteq Parts /\ events' \in 0..MaxEvents
    <3>1. /\ right' \subseteq right \cup {<<p, f>> : f \in FilesOf(p)}
          /\ events' \in Nat /\ events' <= events
      <4> HIDE DEF p
      <4> QED
        BY <1>15, <2>1, PartsOnly DEF p, FlushPiece, TypeOK
    <3>2. {<<p, f>> : f \in FilesOf(p)} \subseteq Parts
      BY <2>1, FilesOfPiece DEF Parts
    <3> QED
      BY <3>1, <3>2, LimitAssumption DEF TypeOK
  <2> QED
    BY <1>15, <2>1, <2>2 DEF FlushPiece, TypeOK, WithinFile
<1>16. CASE Stopped \/ Crash
  <2>1. headindex \in [Files -> 0..tailindex[FileCount]] /\ \A f \in Files : headindex[f] <= headindex[f] /\ headindex[f] <= tailindex[f]
    <3>1. headindex \in [Files -> Nat]
      BY LayoutAssumption
    <3>2. ASSUME NEW f \in Files
          PROVE headindex[f] \in 0..tailindex[FileCount] /\ headindex[f] <= tailindex[f]
      BY Numbers
    <3> QED
      BY <3>1, <3>2
  <2> QED
    BY <1>16, <2>1 DEF Stopped, Crash, Down, TypeOK, WithinFile
<1>17. ASSUME NEW w \in SUBSET Files, Start(w) PROVE TypeOK' /\ WithinFile'
  <2> DEFINE done == CheckOldFiles(Opened(w))
  <2>1. done \in SUBSET Pieces
    BY DEF CheckOldFiles
  <2>2. lastwrite' \in [Files -> 0..tailindex[FileCount]] /\ WithinFile'
    <3>1. lastwrite' = FileProgress(done)
      BY <1>17 DEF Start
    <3> HIDE DEF done
    <3> QED
      BY <2>1, <3>1, Progress DEF WithinFile
  <2>3. finished' \subseteq Pieces
    BY <1>17, <2>1 DEF Start
  <2>4. /\ want' = w /\ handle' = Opened(w) /\ onDisk' = onDisk \cup w
        /\ prio' = Wanted(w) /\ pc' = "run" /\ events > 0 /\ events' = events - 1
        /\ UNCHANGED <<right, memory, pos, left, user, holed, lost>>
    BY <1>17 DEF Start
  <2>5. handle' \in [Files -> {"none", "ro", "rw"}] /\ prio' \subseteq Pieces
    BY <2>4 DEF Opened, Wanted, PiecesOf
  <2>6. events' \in 0..MaxEvents
    BY <2>4, LimitAssumption DEF TypeOK
  <2> QED
    BY <2>2, <2>3, <2>4, <2>5, <2>6 DEF TypeOK
<1> QED
  BY <1>1, <1>2, <1>3, <1>4, <1>5, <1>6, <1>7, <1>8, <1>9, <1>10, <1>11, <1>12, <1>13,
     <1>14, <1>15, <1>16, <1>17, <1>18 DEF Next, Smart, Adjusting

\* The types are right in every state.
LEMMA Typed == Spec => [](TypeOK /\ WithinFile)
<1>1. TypeOK /\ WithinFile /\ [Next]_vars => (TypeOK /\ WithinFile)'
  BY TypeStep
<1> QED
  BY <1>1, TypeInit, PTL DEF Spec

-----------------------------------------------------------------------------
(* How full the cache is.                                                  *)

\* The caches that are counted are finite.
LEMMA CacheSize ==
  ASSUME TypeOK
  PROVE /\ IsFiniteSet(cache) /\ Cardinality(cache) \in Nat
        /\ \A p \in cache : /\ Cardinality(cache \ {p}) \in Nat
                            /\ Cardinality(cache \ {p}) = Cardinality(cache) - 1
<1>1. IsFiniteSet(cache)
  BY Numbers, FS_Subset DEF TypeOK
<1> QED
  BY <1>1, FS_CardinalityType, FS_RemoveElement, FS_Subset

\* Entering the overflow loop, left is the distance to the limit.
LEMMA Entered ==
  ASSUME NEW c, Cardinality(c) \in Nat, ToOverflow(c), cache' = c
  PROVE OverflowLeft'
BY LimitAssumption DEF ToOverflow, OverflowLeft

LEMMA OverflowStep ==
  ASSUME TypeOK, OverflowLeft, [Next]_vars
  PROVE OverflowLeft'
<1> USE DEF files, marks, memory, thread, user
<1>1. CASE WriteNear
  <2> DEFINE p == Least(NearPieces)
  <2>1. p \in cache
    <3>1. NearPieces \in SUBSET Nat /\ NearPieces \subseteq cache /\ NearPieces # {}
      BY <1>1, Numbers DEF TypeOK, NearPieces, WriteNear
    <3> QED
      BY <3>1, LeastOf
  <2>2. CASE cache' = cache \ {p} /\ ToOverflow(cache \ {p})
    BY <2>1, <2>2, CacheSize, Entered
  <2>3. CASE pc' # "over"
    BY <2>3 DEF OverflowLeft
  <2> QED
    BY <1>1, <2>2, <2>3 DEF WriteNear, Return
<1>2. CASE NearDone
  BY <1>2, CacheSize, Entered DEF NearDone
<1>3. CASE WriteOverflow
  <2> DEFINE p == Least(cache)
  <2>1. p \in cache
    BY <1>3, LeastOf, Numbers DEF TypeOK, WriteOverflow
  <2>2. CASE cache' = cache \ {p} /\ left' = left - 1
    <3>1. Cardinality(cache') = Cardinality(cache) - 1 /\ Cardinality(cache) \in Nat
      BY <2>1, <2>2, CacheSize
    <3>2. Cardinality(cache) = MaxCached + left - 1 /\ left > 0 /\ left \in Nat
      BY <1>3 DEF WriteOverflow, OverflowLeft, TypeOK
    <3> QED
      BY <2>2, <3>1, <3>2, LimitAssumption DEF OverflowLeft
  <2>3. CASE Return
    BY <2>3 DEF Return, OverflowLeft
  <2> QED
    BY <1>3, <2>2, <2>3 DEF WriteOverflow
<1>4. CASE pc' # "over"
  BY <1>4 DEF OverflowLeft
<1>5. CASE pc = "over" /\ UNCHANGED <<cache, thread>>
  BY <1>5 DEF OverflowLeft
<1>6. ~WriteNear /\ ~NearDone /\ ~WriteOverflow
        => pc' # "over" \/ (pc = "over" /\ UNCHANGED <<cache, thread>>)
  <2>1. CASE UNCHANGED vars
    BY <2>1 DEF vars
  <2>2. ASSUME NEW p \in Pieces, WritePiece(p) \/ Read(p)
        PROVE pc' # "over"
    BY <2>2 DEF WritePiece, Read
  <2>8. ASSUME NEW p \in Pieces, CacheEdge(p)
        PROVE pc' # "over" \/ (pc = "over" /\ UNCHANGED <<cache, thread>>)
    BY <2>8 DEF CacheEdge
  <2>3. CASE Wake \/ OverflowDone \/ GrowFile \/ GrowDone
    BY <2>3 DEF Wake, OverflowDone, GrowFile, GrowDone, Return
  <2>4. ASSUME NEW w \in SUBSET Files, AdjustFilePriority(w)
        PROVE UNCHANGED <<cache, thread>>
    BY <2>4 DEF AdjustFilePriority
  <2>5. CASE Adjusting
    BY <2>5 DEF Adjusting, CheckEdge, ClearPriorities, FillPriorities
  <2>6. CASE Stop \/ FlushPiece \/ Stopped \/ Crash
    BY <2>6 DEF Stop, FlushPiece, Stopped, Crash, Down
  <2>7. ASSUME NEW w \in SUBSET Files, Start(w)
        PROVE pc' # "over"
    BY <2>7 DEF Start
  <2> QED
    BY <2>1, <2>2, <2>3, <2>4, <2>5, <2>6, <2>7, <2>8 DEF Next, Smart
<1> QED
  BY <1>1, <1>2, <1>3, <1>4, <1>5, <1>6

LEMMA OverflowHolds == Spec => [](TypeOK /\ OverflowLeft)
<1>1. Init => OverflowLeft
  BY DEF Init, OverflowLeft
<1>2. TypeOK /\ OverflowLeft /\ [Next]_vars => OverflowLeft'
  BY OverflowStep
<1> QED
  BY <1>1, <1>2, Typed, PTL DEF Spec

\* A pass of SmartWriteCache that leaves its overflow loop without an error
\* leaves less than 15 MB in the cache, whatever 15 MB are in pieces, whatever
\* the first loop stored before its 100 ms were over, and whatever the window
\* does meanwhile.
THEOREM Bounded == Spec => CacheBounded
<1>1. ASSUME TypeOK, OverflowLeft, [Next]_vars,
             pc = "over", pc' \in {"grow", "run"}, events' = events, left = 0
      PROVE Cardinality(cache') < MaxCached
  <2>1. Cardinality(cache) < MaxCached
    BY <1>1 DEF OverflowLeft
  <2>2. cache' = cache
    <3> USE <1>1 DEF files, marks, memory, thread, user
    <3>1. CASE UNCHANGED vars
      BY <3>1 DEF vars
    <3>2. ASSUME NEW p \in Pieces, WritePiece(p) \/ CacheEdge(p) \/ Read(p)
          PROVE cache' = cache
      BY <3>2 DEF WritePiece, CacheEdge, Read
    <3>3. CASE Smart
      BY <3>3 DEF Smart, Wake, WriteNear, NearDone, WriteOverflow, OverflowDone, GrowFile,
                  GrowDone, TypeOK
    <3>4. ASSUME NEW w \in SUBSET Files, AdjustFilePriority(w) PROVE cache' = cache
      BY <3>4 DEF AdjustFilePriority
    <3>5. CASE Adjusting
      BY <3>5 DEF Adjusting, CheckEdge, ClearPriorities, FillPriorities
    <3>6. CASE Stop \/ FlushPiece \/ Stopped \/ Crash
      BY <3>6 DEF Stop, FlushPiece, Stopped, Crash, Down
    <3>7. ASSUME NEW w \in SUBSET Files, Start(w) PROVE cache' = cache
      BY <3>7 DEF Start
    <3> QED
      BY <3>1, <3>2, <3>3, <3>4, <3>5, <3>6, <3>7 DEF Next
  <2> QED
    BY <2>1, <2>2
<1>2. TypeOK /\ OverflowLeft /\ [Next]_vars
        => [pc = "over" /\ pc' \in {"grow", "run"} /\ events' = events /\ left = 0
             => Cardinality(cache') < MaxCached]_vars
  BY <1>1
<1> QED
  BY <1>2, OverflowHolds, PTL DEF Spec, CacheBounded

-----------------------------------------------------------------------------
(* What is finished is right.  The parts of the invariant, one lemma each.  *)

Base == TypeOK /\ WithinFile /\ Transient
Kept == WantedCovered /\ UnopenedEdges /\ StoredOrHidden /\ BufferedWrong /\ GrownBehind

LEMMA TransientStep ==
  ASSUME TypeOK, Transient, [Next]_vars
  PROVE Transient'
<1> USE DEF files, marks, memory, thread, user, Transient
<1>1. CASE UNCHANGED vars
  BY <1>1 DEF vars
<1>2. ASSUME NEW p \in Pieces, WritePiece(p) \/ CacheEdge(p) \/ Read(p) PROVE Transient'
  BY <1>2 DEF WritePiece, CacheEdge, Read, IsEdgePiece
<1>3. CASE WriteNear \/ WriteOverflow
  <2>1. /\ UNCHANGED <<files, marks, edgeCache, edging, buffer, early, user, holed, lost>>
        /\ Running /\ Running'
    BY <1>3, LoopStep
  <2> QED
    BY <2>1 DEF Running, IsEdgePiece
<1>4. CASE Wake \/ NearDone \/ OverflowDone \/ GrowFile \/ GrowDone
  BY <1>4 DEF Wake, NearDone, OverflowDone, GrowFile, GrowDone, ToOverflow, Return, IsEdgePiece
<1>5. ASSUME NEW w \in SUBSET Files, AdjustFilePriority(w) PROVE Transient'
  BY <1>5 DEF AdjustFilePriority, Running, IsEdgePiece
<1>6. CASE Adjusting
  BY <1>6 DEF Adjusting, CheckEdge, ClearPriorities, FillPriorities, Running, IsEdgePiece
<1>7. CASE Stop \/ FlushPiece
  BY <1>7 DEF Stop, FlushPiece, IsEdgePiece
<1>8. CASE Stopped \/ Crash
  BY <1>8 DEF Stopped, Crash, Down
<1>9. ASSUME NEW w \in SUBSET Files, Start(w) PROVE Transient'
  BY <1>9 DEF Start, IsEdgePiece
<1> QED
  BY <1>1, <1>2, <1>3, <1>4, <1>5, <1>6, <1>7, <1>8, <1>9 DEF Next, Smart

\* What a new selection does to the handles and to the exempt files: a file that
\* is wanted now was wanted before, or is exempt, or had never been open.
LEMMA Selected ==
  ASSUME TypeOK, NEW w \in SUBSET Files, AdjustFilePriority(w)
  PROVE /\ \A f \in Files : handle[f] # "none" => handle'[f] # "none"
        /\ holed \subseteq holed'
        /\ \A f \in w : Covered(f)'
        /\ \A f \in w \ holed' : f \in want \/ ~Covered(f)
        /\ \A f \in w \ holed' : ~Covered(f) /\ finished # {} => todo' = Unaligned
        /\ \A f \in w \ want : handle[f] # "none" => f \in holed'
<1>1. PICK bad \in SUBSET {f \in w : handle[f] = "none"} :
        /\ handle' = [f \in Files |-> IF f \in w \ bad /\ handle[f] = "none"
                                      THEN "rw" ELSE handle[f]]
        /\ holed' = holed \cup bad \cup {f \in w \ want : handle[f] # "none"}
  BY DEF AdjustFilePriority
<1>2. todo' = IF finished # {} /\ (\E f \in w : handle[f] = "none") THEN Unaligned ELSE {}
  BY DEF AdjustFilePriority
<1>3. \A f \in Files : handle'[f] = IF f \in w \ bad /\ handle[f] = "none"
                                    THEN "rw" ELSE handle[f]
  BY <1>1
<1> QED
  BY <1>1, <1>2, <1>3 DEF Covered

\* No wanted file goes without a handle unless it is exempt.
LEMMA CoveredStep ==
  ASSUME TypeOK, Transient, WantedCovered, [Next]_vars
  PROVE WantedCovered'
<1> USE DEF files, marks, memory, thread, user
<1>1. CASE UNCHANGED <<want, prio, handle, holed>>
  BY <1>1 DEF WantedCovered, Covered
<1>2. ASSUME NEW w \in SUBSET Files, AdjustFilePriority(w) PROVE WantedCovered'
  <2>1. /\ want' = w /\ prio' = prio
        /\ \A f \in w : Covered(f)'
        /\ \A f \in Files : Covered(f) => Covered(f)'
    BY <1>2, Selected DEF AdjustFilePriority, Covered
  <2>2. \A p \in prio : p \in Pieces /\ FilesOf(p) \subseteq Files
    BY FilesOfPiece DEF TypeOK
  <2> QED
    BY <2>1, <2>2 DEF WantedCovered
<1>3. CASE ClearPriorities
  BY <1>3 DEF ClearPriorities, WantedCovered, Covered
<1>4. CASE FillPriorities
  <2>1. /\ prio' = Wanted(want)
        /\ UNCHANGED <<want, handle, holed>>
    BY <1>4 DEF FillPriorities
  <2> QED
    BY <2>1 DEF WantedCovered, Covered, Wanted, PiecesOf
<1>5. CASE Stopped \/ Crash
  BY <1>5 DEF Stopped, Crash, Down, WantedCovered
<1>6. ASSUME NEW w \in SUBSET Files, Start(w) PROVE WantedCovered'
  <2>1. want' = w /\ prio' = Wanted(w) /\ handle' = Opened(w)
    BY <1>6 DEF Start
  <2>2. \A f \in w : handle'[f] = "rw"
    BY <2>1 DEF Opened
  <2> QED
    BY <2>1, <2>2 DEF WantedCovered, Covered, Wanted, PiecesOf
<1>7. /\ \A p \in Pieces : WritePiece(p) \/ CacheEdge(p) \/ Read(p)
                             => UNCHANGED <<want, prio, handle, holed>>
      /\ Smart \/ CheckEdge \/ Stop \/ FlushPiece \/ UNCHANGED vars
           => UNCHANGED <<want, prio, handle, holed>>
  BY DEF WritePiece, CacheEdge, Read, Smart, Wake, WriteNear, NearDone, WriteOverflow,
         OverflowDone, GrowFile, GrowDone, CheckEdge, Stop, FlushPiece, vars
<1> QED
  BY <1>1, <1>2, <1>3, <1>4, <1>5, <1>6, <1>7 DEF Next, Adjusting

\* A piece of a file that was never open is finished for another file it lies in.
LEMMA UnopenedStep ==
  ASSUME TypeOK, Transient, WantedCovered, UnopenedEdges, [Next]_vars
  PROVE UnopenedEdges'
<1> USE DEF files, marks, memory, thread, user
<1>1. CASE UNCHANGED <<finished, edgeCache, edging, handle, holed>>
  BY <1>1 DEF UnopenedEdges, Covered
<1>2. ASSUME NEW p \in Pieces, WritePiece(p) PROVE UnopenedEdges'
  <2>1. /\ finished' = finished \cup {p} /\ p \in prio
        /\ edging' = IF IsEdgePiece(p) THEN edging \cup {p} ELSE edging
        /\ UNCHANGED <<edgeCache, handle, holed>>
    BY <1>2 DEF WritePiece
  <2>2. ASSUME NEW f \in FilesOf(p), ~Covered(f) PROVE p \in Across /\ p \in edging'
    <3>1. PICK g \in FilesOf(p) : Covered(g)
      BY <2>1 DEF WantedCovered
    <3>2. f # g
      BY <2>2, <3>1
    <3>3. p \in Across /\ IsEdgePiece(p)
      BY <3>2, TwoFiles
    <3> QED
      BY <2>1, <3>3
  <2> QED
    BY <2>1, <2>2 DEF UnopenedEdges, Covered
<1>8. ASSUME NEW p \in Pieces, CacheEdge(p) PROVE UnopenedEdges'
  BY <1>8 DEF CacheEdge, UnopenedEdges, Covered
<1>3. ASSUME NEW w \in SUBSET Files, AdjustFilePriority(w) PROVE UnopenedEdges'
  <2>1. /\ UNCHANGED <<finished, edgeCache, edging>>
        /\ \A f \in Files : Covered(f) => Covered(f)'
    BY <1>3, Selected DEF AdjustFilePriority, Covered
  <2>2. \A p \in finished : FilesOf(p) \subseteq Files
    BY FilesOfPiece DEF TypeOK
  <2> QED
    BY <2>1, <2>2 DEF UnopenedEdges
<1>4. CASE CheckEdge
  <2> DEFINE p == Least(todo)
  <2>1. /\ finished' = (IF Readable(p, handle) /\ RightOnDisk(p)
                        THEN finished \cup {p} ELSE finished \ {p})
        /\ UNCHANGED <<edgeCache, edging, handle, holed>>
    BY <1>4 DEF CheckEdge
  <2>2. ASSUME NEW q \in finished', q \notin finished, NEW f \in FilesOf(q) PROVE Covered(f)
    BY <2>1, <2>2 DEF Readable, Covered
  <2> QED
    BY <2>1, <2>2 DEF UnopenedEdges, Covered
<1>5. CASE Stopped \/ Crash
  BY <1>5 DEF Stopped, Crash, Down, UnopenedEdges
<1>6. ASSUME NEW w \in SUBSET Files, Start(w) PROVE UnopenedEdges'
  <2>1. handle' = Opened(w) /\ \A p \in finished' : Readable(p, Opened(w))
    BY <1>6 DEF Start, CheckOldFiles
  <2> QED
    BY <2>1 DEF UnopenedEdges, Covered, Readable
<1>7. /\ \A p \in Pieces : Read(p) => UNCHANGED <<finished, edgeCache, edging, handle, holed>>
      /\ Smart \/ ClearPriorities \/ FillPriorities \/ Stop \/ FlushPiece \/ UNCHANGED vars
           => UNCHANGED <<finished, edgeCache, edging, handle, holed>>
  BY DEF Read, Smart, Wake, WriteNear, NearDone, WriteOverflow, OverflowDone,
         GrowFile, GrowDone, ClearPriorities, FillPriorities, Stop, FlushPiece, vars
<1> QED
  BY <1>1, <1>2, <1>3, <1>4, <1>5, <1>6, <1>7, <1>8 DEF Next, Adjusting

\* Storing keeps what is stored, and the stored piece needs no hiding.
LEMMA StoreKeeps ==
  ASSUME TypeOK, WantedCovered, StoredOrHidden, NEW p \in Pieces,
         Stores(p) \/ Fails(p),
         UNCHANGED <<files, marks, edgeCache, edging, user, holed>>,
         \/ cache' = cache /\ lost' = lost
         \/ cache' = cache \ {p} /\ Stores(p) /\ lost' = lost
         \/ cache' = cache \ {p} /\ lost' = lost \cup {p}
  PROVE StoredOrHidden'
<1> USE DEF files, marks, user
<1>1. right \subseteq right'
  BY PartsOnly DEF TypeOK
<1>2. ASSUME NEW q \in finished' \ (cache' \cup lost'), NEW f \in FilesOf(q), f \in want' \ holed'
      PROVE <<q, f>> \in right' \/ (q \in todo' /\ q \in (edgeCache \cup edging)')
  <2>1. CASE q \in finished \ (cache \cup lost)
    BY <1>1, <1>2, <2>1 DEF StoredOrHidden
  <2>2. CASE q = p /\ Stores(p)
    BY <1>2, <2>2, Stored
  <2> QED
    BY <1>2, <2>1, <2>2
<1> QED
  BY <1>2 DEF StoredOrHidden

LEMMA StoredStep ==
  ASSUME Step > 1, Base, Kept, [Next]_vars
  PROVE StoredOrHidden'
<1> USE DEF files, marks, memory, thread, user, Base, Kept
<1>1. CASE UNCHANGED <<finished, cache, lost, want, holed, right, todo, edgeCache, edging>>
  BY <1>1 DEF StoredOrHidden
<1>2. ASSUME NEW p \in Pieces, WritePiece(p) PROVE StoredOrHidden'
  BY <1>2 DEF WritePiece, StoredOrHidden
<1>11. ASSUME NEW p \in Pieces, CacheEdge(p) PROVE StoredOrHidden'
  BY <1>11 DEF CacheEdge, StoredOrHidden
<1>3. CASE WriteNear \/ WriteOverflow
  <2>1. PICK p \in cache :
          /\ \/ Stores(p) /\ RecordLastWrite(p) /\ cache' = cache \ {p}
             \/ Fails(p) /\ UNCHANGED <<lastwrite, cache>>
          /\ UNCHANGED <<files, marks, edgeCache, edging, buffer, early, user, holed, lost>>
    BY <1>3, LoopStep
  <2>2. p \in Pieces
    BY DEF TypeOK
  <2> QED
    BY <2>1, <2>2, StoreKeeps
<1>4. CASE GrowFile
  <2>1. /\ UNCHANGED <<files, marks, memory, user, holed, lost>> /\ Running
        /\ \A part \in right \ right' :
             \E f \in Files : /\ part = <<lastwrite[f] + Step - 1, f>>
                              /\ lastwrite[f] + Step < tailindex[f]
    BY <1>4, Grown DEF GrowFile, Running
  <2>2. ASSUME NEW q \in finished \ (cache \cup lost), NEW f \in FilesOf(q), f \in want \ holed,
               <<q, f>> \in right \ right'
        PROVE FALSE
    <3>1. q = lastwrite[f] + Step - 1 /\ lastwrite[f] + Step < tailindex[f]
      BY <2>1, <2>2
    <3>2. q <= lastwrite[f] \/ q = tailindex[f] - 1
      BY <2>1, <2>2 DEF GrownBehind
    <3>3. f \in Files /\ lastwrite[f] \in Nat /\ tailindex[f] \in Nat /\ Step \in Nat
      BY <2>2, Numbers, LimitAssumption DEF TypeOK
    <3> QED
      BY <3>1, <3>2, <3>3
  <2> QED
    BY <2>1, <2>2 DEF StoredOrHidden
<1>5. ASSUME NEW w \in SUBSET Files, AdjustFilePriority(w) PROVE StoredOrHidden'
  <2>1. /\ want' = w /\ UNCHANGED <<right, marks, memory, lost>> /\ ui = "idle"
    BY <1>5 DEF AdjustFilePriority
  <2>2. ASSUME NEW p \in finished \ (cache \cup lost), NEW f \in FilesOf(p), f \in w \ holed'
        PROVE <<p, f>> \in right \/ (p \in todo' /\ p \in edgeCache \cup edging)
    <3>1. CASE f \in want
      <4>1. f \notin holed /\ todo = {}
        BY <1>5, <2>1, <2>2, Selected DEF Transient
      <4> QED
        BY <2>2, <3>1, <4>1 DEF StoredOrHidden
    <3>2. CASE ~Covered(f)
      <4>1. todo' = Unaligned
        BY <1>5, <2>2, <3>2, Selected
      <4> QED
        BY <2>2, <3>2, <4>1, UnalignedAssumption DEF UnopenedEdges
    <3> QED
      BY <1>5, <2>2, <3>1, <3>2, Selected
  <2> QED
    BY <2>1, <2>2 DEF StoredOrHidden
<1>6. CASE CheckEdge
  <2> DEFINE p == Least(todo)
  <2>1. /\ finished' = (IF Readable(p, handle) /\ RightOnDisk(p)
                        THEN finished \cup {p} ELSE finished \ {p})
        /\ todo' = todo \ {p}
        /\ UNCHANGED <<files, right, cache, edgeCache, edging, holed, lost>>
    BY <1>6 DEF CheckEdge
  <2>2. p \in finished' => \A f \in FilesOf(p) : <<p, f>> \in right
    BY <2>1 DEF RightOnDisk
  <2> HIDE DEF p
  <2>3. ASSUME NEW q \in finished' \ (cache \cup lost), NEW f \in FilesOf(q), f \in want \ holed
        PROVE <<q, f>> \in right \/ (q \in todo' /\ q \in edgeCache \cup edging)
    <3>1. CASE q = p
      BY <2>2, <2>3, <3>1
    <3>2. CASE q # p
      BY <2>1, <2>3, <3>2 DEF StoredOrHidden
    <3> QED
      BY <3>1, <3>2
  <2> QED
    BY <2>1, <2>3 DEF StoredOrHidden
<1>7. CASE FlushPiece
  <2> DEFINE p == Least(cache)
  <2>1. p \in Pieces
    BY <1>7, LeastOf, Numbers DEF FlushPiece, TypeOK
  <2>2. /\ cache' = cache \ {p}
        /\ \/ Stores(p) /\ lost' = lost
           \/ Fails(p) /\ lost' = lost \cup {p}
        /\ UNCHANGED <<files, marks, edgeCache, edging, user, holed>>
    BY <1>7 DEF FlushPiece
  <2> HIDE DEF p
  <2> QED
    BY <2>1, <2>2, StoreKeeps
<1>8. CASE Stopped \/ Crash
  BY <1>8 DEF Stopped, Crash, Down, StoredOrHidden
<1>9. ASSUME NEW w \in SUBSET Files, Start(w) PROVE StoredOrHidden'
  <2>1. right' = right /\ \A p \in finished' : RightOnDisk(p)
    BY <1>9 DEF Start, CheckOldFiles
  <2> QED
    BY <2>1 DEF StoredOrHidden, RightOnDisk
<1>10. /\ \A p \in Pieces : Read(p)
            => UNCHANGED <<finished, cache, lost, want, holed, right, todo, edgeCache, edging>>
       /\ Wake \/ NearDone \/ OverflowDone \/ GrowDone \/ Stop \/ UNCHANGED vars
            => UNCHANGED <<finished, cache, lost, want, holed, right, todo, edgeCache, edging>>
       /\ ClearPriorities \/ FillPriorities
            => UNCHANGED <<finished, cache, lost, want, holed, right, todo, edgeCache, edging>>
  BY DEF Read, Wake, NearDone, OverflowDone, GrowDone, Stop, ClearPriorities, FillPriorities,
         vars
<1> QED
  BY <1>1, <1>2, <1>3, <1>4, <1>5, <1>6, <1>7, <1>8, <1>9, <1>10, <1>11
  DEF Next, Smart, Adjusting

\* Wrong bytes come only from parts nobody vouches for.
LEMMA BufferStep ==
  ASSUME Base, Kept, [Next]_vars
  PROVE BufferedWrong'
<1> USE DEF files, marks, memory, thread, user, Base, Kept
<1>1. CASE UNCHANGED <<buffer, early, handle, want, holed>>
  BY <1>1 DEF BufferedWrong, Readable
<1>2. ASSUME NEW p \in Pieces, Read(p) PROVE BufferedWrong'
  <2>1. /\ buffer' \subseteq buffer \cup {p}
        /\ RightOnDisk(p) => buffer' \subseteq buffer
        /\ \A q \in buffer' : q \in early => q \in early'
        /\ ~RightOnDisk(p) /\ p \in edging => p \in early'
        /\ UNCHANGED <<handle, want, holed>>
        /\ pc = "run" /\ p \in finished /\ FromCache(p) = "miss" /\ Readable(p, handle)
    <3>1. PICK oldest \in SUBSET buffer :
            /\ buffer' = (buffer \ oldest) \cup (IF RightOnDisk(p) THEN {} ELSE {p})
            /\ early' = (early \ oldest)
                        \cup (IF RightOnDisk(p) \/ p \notin edging THEN {} ELSE {p})
      BY <1>2 DEF Read
    <3>2. /\ UNCHANGED <<handle, want, holed>>
          /\ pc = "run" /\ p \in finished /\ FromCache(p) = "miss" /\ Readable(p, handle)
      BY <1>2 DEF Read
    <3>3. p \notin buffer
      BY <3>2 DEF FromCache
    <3> QED
      BY <3>1, <3>2, <3>3
  <2>2. ASSUME ~RightOnDisk(p), p \notin edging
        PROVE \E f \in FilesOf(p) : f \notin want \/ f \in holed
    <3>1. PICK f \in FilesOf(p) : <<p, f>> \notin right
      BY <2>2 DEF RightOnDisk
    <3>2. p \notin cache /\ ~(IsEdgePiece(p) /\ p \in edgeCache) /\ lost = {}
      BY <2>1 DEF FromCache, Transient
    <3>3. p \notin edgeCache
      BY <3>2 DEF Transient
    <3> QED
      BY <2>1, <2>2, <3>1, <3>2, <3>3 DEF StoredOrHidden
  <2> QED
    BY <2>1, <2>2 DEF BufferedWrong, Readable
<1>3. ASSUME NEW w \in SUBSET Files, AdjustFilePriority(w) PROVE BufferedWrong'
  <2>1. want' = w /\ buffer' = buffer /\ early' = early
    BY <1>3 DEF AdjustFilePriority
  <2>2. /\ \A f \in Files : handle[f] # "none" => handle'[f] # "none"
        /\ holed \subseteq holed'
        /\ \A f \in w \ want : handle[f] # "none" => f \in holed'
    BY <1>3, Selected
  <2>3. ASSUME NEW p \in buffer
        PROVE /\ Readable(p, handle')
              /\ p \in early \/ \E f \in FilesOf(p) : f \notin w \/ f \in holed'
    <3>1. FilesOf(p) \subseteq Files
      BY FilesOfPiece DEF TypeOK
    <3>2. /\ \A f \in FilesOf(p) : handle[f] # "none"
          /\ p \in early \/ \E f \in FilesOf(p) : f \notin want \/ f \in holed
      BY DEF BufferedWrong, Readable
    <3> QED
      BY <2>2, <3>1, <3>2 DEF Readable
  <2> QED
    BY <2>1, <2>3 DEF BufferedWrong
<1>4. CASE Stopped \/ Crash
  BY <1>4 DEF Stopped, Crash, Down, BufferedWrong
<1>5. ASSUME NEW w \in SUBSET Files, Start(w) PROVE BufferedWrong'
  BY <1>5 DEF Start, Transient, BufferedWrong
<1>6. /\ \A p \in Pieces : WritePiece(p) \/ CacheEdge(p)
                             => UNCHANGED <<buffer, early, handle, want, holed>>
      /\ Smart \/ Adjusting \/ Stop \/ FlushPiece \/ UNCHANGED vars
           => UNCHANGED <<buffer, early, handle, want, holed>>
  BY DEF WritePiece, CacheEdge, Smart, Wake, WriteNear, NearDone, WriteOverflow,
         OverflowDone, GrowFile, GrowDone, Adjusting, CheckEdge, ClearPriorities, FillPriorities,
         Stop, FlushPiece, vars
<1> QED
  BY <1>1, <1>2, <1>3, <1>4, <1>5, <1>6 DEF Next

\* A stored piece is behind the last write of its first file, and at the head of
\* every other one.
LEMMA GrownStep ==
  ASSUME Base, Kept, [Next]_vars
  PROVE GrownBehind'
<1> USE DEF files, marks, memory, thread, user, Base, Kept
<1>1. CASE UNCHANGED <<finished, cache, want, holed, lastwrite, pc>>
  BY <1>1 DEF GrownBehind, Running
<1>2. ASSUME NEW p \in Pieces, WritePiece(p) PROVE GrownBehind'
  BY <1>2 DEF WritePiece, GrownBehind, Running
<1>3. CASE WriteNear \/ WriteOverflow
  <2>1. PICK p \in cache :
          /\ \/ Stores(p) /\ RecordLastWrite(p) /\ cache' = cache \ {p}
             \/ Fails(p) /\ UNCHANGED <<lastwrite, cache>>
          /\ UNCHANGED <<files, marks, edgeCache, edging, buffer, early, user, holed, lost>>
          /\ Running /\ Running'
    BY <1>3, LoopStep
  <2>2. CASE UNCHANGED <<lastwrite, cache>>
    BY <2>1, <2>2 DEF GrownBehind
  <2>3. CASE RecordLastWrite(p) /\ cache' = cache \ {p}
    <3>1. p \in Pieces
      BY DEF TypeOK
    <3>2. /\ lastwrite' \in [Files -> 0..tailindex[FileCount]]
          /\ \A f \in Files : lastwrite[f] <= lastwrite'[f]
          /\ p <= lastwrite'[FirstFile(p)]
      BY <2>3, <3>1, Recorded
    <3>3. ASSUME NEW q \in finished \ cache', NEW f \in FilesOf(q), f \in want \ holed
          PROVE q <= lastwrite'[f] \/ q = tailindex[f] - 1
      <4>1. /\ f \in Files /\ q \in Nat /\ lastwrite[f] \in Nat /\ lastwrite'[f] \in Nat
            /\ lastwrite[f] <= lastwrite'[f]
        BY <3>2, <3>3, Numbers DEF TypeOK
      <4>2. CASE q # p
        <5>1. q <= lastwrite[f] \/ q = tailindex[f] - 1
          BY <2>1, <2>3, <3>3, <4>2 DEF GrownBehind
        <5> QED
          BY <4>1, <5>1
      <4>3. CASE q = p /\ f = FirstFile(p)
        BY <3>2, <4>3
      <4>4. CASE q = p /\ f # FirstFile(p)
        <5>1. q = headindex[f]
          BY <3>1, <3>3, <4>4, LaterFile
        <5>2. headindex[f] <= lastwrite[f]
          BY <4>1 DEF WithinFile
        <5> QED
          BY <4>1, <5>1, <5>2
      <4> QED
        BY <4>2, <4>3, <4>4
    <3> QED
      BY <2>1, <3>3 DEF GrownBehind
  <2> QED
    BY <2>1, <2>2, <2>3
<1>4. CASE GrowFile
  <2>1. /\ UNCHANGED <<files, marks, memory, user, holed, lost>> /\ Running
        /\ lastwrite' \in [Files -> 0..tailindex[FileCount]]
        /\ \A f \in Files : lastwrite[f] <= lastwrite'[f]
    BY <1>4, Grown DEF GrowFile, Running
  <2>2. ASSUME NEW q \in finished \ cache, NEW f \in FilesOf(q), f \in want \ holed
        PROVE q <= lastwrite'[f] \/ q = tailindex[f] - 1
    <3>1. /\ f \in Files /\ q \in Nat /\ lastwrite[f] \in Nat /\ lastwrite'[f] \in Nat
          /\ lastwrite[f] <= lastwrite'[f]
      BY <2>1, <2>2, Numbers DEF TypeOK
    <3>2. q <= lastwrite[f] \/ q = tailindex[f] - 1
      BY <2>1, <2>2 DEF GrownBehind
    <3> QED
      BY <3>1, <3>2
  <2> QED
    BY <2>1, <2>2 DEF GrownBehind
<1>5. ASSUME NEW w \in SUBSET Files, AdjustFilePriority(w) PROVE GrownBehind'
  <2>1. want' = w /\ UNCHANGED <<marks, memory, lastwrite, thread>> /\ Running
    BY <1>5 DEF AdjustFilePriority
  <2>2. ASSUME NEW p \in finished \ cache, NEW f \in FilesOf(p), f \in w \ holed'
        PROVE p <= lastwrite[f] \/ p = tailindex[f] - 1
    <3>1. p \in Pieces /\ f \in Files
      BY <2>2 DEF TypeOK
    <3>2. CASE f \in want
      <4>1. f \notin holed
        BY <1>5, <2>2, Selected
      <4> QED
        BY <2>1, <2>2, <3>2, <4>1 DEF GrownBehind
    <3>3. CASE ~Covered(f)
      <4>1. p \in Across
        BY <2>2, <3>3 DEF UnopenedEdges
      <4>2. p = headindex[f] \/ p = tailindex[f] - 1
        BY <2>2, <4>1, AcrossEnds
      <4> QED
        BY <3>1, <4>2 DEF WithinFile
    <3> QED
      BY <1>5, <2>2, <3>2, <3>3, Selected
  <2> QED
    BY <2>1, <2>2 DEF GrownBehind
<1>6. CASE CheckEdge
  <2> DEFINE p == Least(todo)
  <2>1. /\ finished' \subseteq finished \cup {p}
        /\ UNCHANGED <<files, cache, lastwrite, holed>> /\ Running
    BY <1>6 DEF CheckEdge
  <2>2. p \in todo
    BY <1>6, LeastOf, Numbers DEF CheckEdge, TypeOK
  <2> HIDE DEF p
  <2>3. ASSUME NEW f \in FilesOf(p) PROVE p <= lastwrite[f] \/ p = tailindex[f] - 1
    <3>1. p \in Unaligned
      BY <2>2 DEF Transient
    <3>2. p = headindex[f] \/ p = tailindex[f] - 1
      BY <2>3, <3>1, UnalignedEnds
    <3>3. f \in Files
      BY <2>2, <2>3, FilesOfPiece DEF TypeOK
    <3> QED
      BY <3>2, <3>3 DEF WithinFile
  <2>4. \A q \in finished' : q \in finished \/ q = p
    BY <2>1
  <2> QED
    BY <2>1, <2>3, <2>4 DEF GrownBehind
<1>7. CASE Stop \/ FlushPiece \/ Stopped \/ Crash
  BY <1>7 DEF Stop, FlushPiece, Stopped, Crash, Down, GrownBehind, Running
<1>8. ASSUME NEW w \in SUBSET Files, Start(w) PROVE GrownBehind'
  <2> DEFINE done == CheckOldFiles(Opened(w))
  <2>1. done \in SUBSET Pieces
    BY DEF CheckOldFiles
  <2>2. finished' = done /\ lastwrite' = FileProgress(done)
    BY <1>8 DEF Start
  <2> HIDE DEF done
  <2>3. \A f \in Files : \A p \in PiecesOf(f) \cap done : p <= FileProgress(done)[f]
    BY <2>1, Progress
  <2>4. ASSUME NEW p \in done, NEW f \in FilesOf(p) PROVE p <= FileProgress(done)[f]
    <3>1. p \in Pieces /\ f \in Files
      BY <2>1, <2>4, FilesOfPiece
    <3> QED
      BY <2>3, <2>4, <3>1 DEF PiecesOf
  <2> QED
    BY <2>2, <2>4 DEF GrownBehind
<1>9. CASE Wake \/ NearDone \/ OverflowDone \/ GrowDone
  BY <1>9 DEF Wake, NearDone, OverflowDone, GrowDone, Return, ToOverflow, GrownBehind, Running
<1>10. /\ \A p \in Pieces : Read(p) \/ CacheEdge(p)
                              => UNCHANGED <<finished, cache, want, holed, lastwrite, pc>>
       /\ ClearPriorities \/ FillPriorities \/ UNCHANGED vars
            => UNCHANGED <<finished, cache, want, holed, lastwrite, pc>>
  BY DEF Read, CacheEdge, ClearPriorities, FillPriorities, vars
<1> QED
  BY <1>1, <1>2, <1>3, <1>4, <1>5, <1>6, <1>7, <1>8, <1>9, <1>10 DEF Next, Smart, Adjusting

-----------------------------------------------------------------------------
(* The theorem.                                                            *)

LEMMA KeptInit == Init => Transient /\ Kept
<1> SUFFICES ASSUME Init PROVE Transient /\ Kept
  OBVIOUS
<1>1. Transient
  BY DEF Init, Transient
<1>2. WantedCovered
  <2>1. \A f \in want : handle[f] = "rw"
    BY DEF Init, Opened
  <2> QED
    BY <2>1 DEF Init, WantedCovered, Covered, Wanted, PiecesOf
<1>3. UnopenedEdges /\ StoredOrHidden /\ BufferedWrong /\ GrownBehind
  BY DEF Init, UnopenedEdges, StoredOrHidden, BufferedWrong, GrownBehind
<1> QED
  BY <1>1, <1>2, <1>3 DEF Kept

\* The invariant says what CacheInv says, at any moment.
LEMMA KeptTells ==
  ASSUME Base, Kept
  PROVE CacheInv
<1> USE DEF Base, Kept
<1>1. StoredRight
  BY DEF StoredOrHidden, StoredRight
<1>2. ServedRight
  <2>1. SUFFICES ASSUME Running, NEW p \in finished, ReadData(p) = "wrong",
                        p \notin early \cup (edging \ cache),
                        FilesOf(p) \subseteq want \ holed
                 PROVE FALSE
    BY DEF ServedRight
  <2>2. p \notin buffer
    BY <2>1 DEF BufferedWrong
  <2>3. FromCache(p) = "miss" /\ ~RightOnDisk(p)
    BY <2>1, <2>2 DEF ReadData, FromCache
  <2>4. p \notin cache /\ ~(IsEdgePiece(p) /\ p \in edgeCache)
    BY <2>3 DEF FromCache
  <2>5. p \notin edgeCache \cup edging /\ lost = {}
    BY <2>1, <2>4 DEF Transient, Running
  <2>6. PICK f \in FilesOf(p) : <<p, f>> \notin right
    BY <2>3 DEF RightOnDisk
  <2> QED
    BY <2>1, <2>4, <2>5, <2>6 DEF StoredOrHidden
<1> QED
  BY <1>1, <1>2 DEF CacheInv

\* Whatever the layout of the files, the limits of the cache, the selections of
\* the user, the failures of the file system and the stops and crashes: a
\* finished piece is in the write cache, or right on disk in every wanted file,
\* and nobody is served wrong bytes of it.  A step of growth must be two pieces
\* or more: with pieces longer than 2 MB the statement is false.
THEOREM CacheHolds ==
  ASSUME Step > 1
  PROVE Spec => []CacheInv
<1>1. Init => Base /\ Kept
  BY TypeInit, KeptInit DEF Base
<1>2. ASSUME Base, Kept, [Next]_vars PROVE Base' /\ Kept'
  <2>1. Base'
    BY <1>2, TypeStep, TransientStep DEF Base
  <2>2. WantedCovered' /\ UnopenedEdges'
    BY <1>2, CoveredStep, UnopenedStep DEF Base, Kept
  <2>3. StoredOrHidden' /\ BufferedWrong' /\ GrownBehind'
    BY <1>2, StoredStep, BufferStep, GrownStep
  <2> QED
    BY <2>1, <2>2, <2>3 DEF Kept
<1>3. Base /\ Kept => CacheInv
  BY KeptTells
<1>4. Base /\ Kept /\ [Next]_vars => (Base /\ Kept)'
  BY <1>2
<1> QED
  BY <1>1, <1>3, <1>4, PTL DEF Spec

=============================================================================
