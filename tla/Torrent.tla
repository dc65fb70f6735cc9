------------------------------ MODULE Torrent ------------------------------
(***************************************************************************)
(* What is taken from a torrent once it is read (TorrentFile.cpp:274-665)  *)
(* and the numbering of its files (783-1090).  A torrent may contain       *)
(* virtual files, paddings between the real ones: the storage knows all    *)
(* files, the user's list only the real ones, so every file has two        *)
(* numbers.                                                                *)
(***************************************************************************)
EXTENDS Naturals, Sequences, SequencesExt, FiniteSets

CONSTANTS
    Urls,
    Files,          \* descriptions of files: a path and a length, or a broken one
    MaxFiles,       \* bound: files
    MaxUrls         \* bound: entries of the list of trackers

TorrentAssumption == MaxFiles \in Nat /\ MaxUrls \in Nat

\* A description; "wrong" stands for a missing path, a directory that is no
\* string, or a missing or mistyped length.  A path that is no list is a real file
\* with an empty name.
Described == [path : {"real", "padding", "wrong"}, size : Nat]

UrlLists == UNION {[1..n -> Urls] : n \in 0..MaxUrls}
FileLists == UNION {[1..n -> Files] : n \in 0..MaxFiles}

VARIABLES
    ben,            \* the torrent's tree, as far as it is looked at
    step,           \* which Extract is next
    announces,      \* m_AnnounceList
    files,          \* m_FileInfoList
    total, real     \* m_nTotalSize, m_nTotalSizeWithoutVirtual

vars == <<ben, step, announces, files, total, real>>

Goes(to) == step' = to /\ UNCHANGED <<ben, announces, files, total, real>>

\* The numbers ExtractKeys returns.
Fails(code) == Goes(code)

---------------------------------------------------------------------------
(* ExtractKeys: the parts in their order, the first that fails ends it.    *)

\* The tracker may be missing.
ExtractAnnounce ==
    /\ step = "announce"
    /\ \/ ben.announce \in {<<u>> : u \in Urls} \cup {<<>>}
          /\ announces' = ben.announce /\ step' = "list"
          /\ UNCHANGED <<ben, files, total, real>>
       \/ ben.announce = <<"wrong">> /\ Fails("-1")

Added(list, url) == IF url \in ToSet(list) THEN list ELSE Append(list, url)

\* A list of trackers or of tiers of them, flattened.
ExtractAnnounceList ==
    /\ step = "list"
    /\ \/ /\ announces' = FoldLeft(Added, announces, ben.list)
          /\ step' = "name"
          /\ UNCHANGED <<ben, files, total, real>>
       \/ Fails("-2")

ExtractName ==
    /\ step = "name"
    /\ Goes("files") \/ Fails("-3")

\* One file, or a list of them, and not both; a part may be missing or mistyped.
ExtractFileInfo ==
    /\ step = "files"
    /\ Goes(IF ben.many THEN "multi" ELSE "single") \/ Fails("-4")

\* The file's name is the torrent's; it is real.
ExtractSingleFile ==
    /\ step = "single"
    /\ files' = <<[index |-> 0, offset |-> 0, size |-> ben.size, virtual |-> FALSE]>>
    /\ total' = ben.size /\ real' = ben.size
    /\ step' = "piece length"
    /\ UNCHANGED <<ben, announces>>

\* Mutant: a padding does not move the files behind it.
OffsetReal(f) == real

OffsetOf(f) == total

\* One turn of the loop over the list of files.
ExtractMultiFile ==
    /\ step = "multi"
    /\ IF Len(files) = Len(ben.files) THEN Goes("piece length")
       ELSE LET file == ben.files[Len(files) + 1] IN
            IF file.path = "wrong" THEN Fails("-4")
            ELSE /\ files' = Append(files, [index |-> Len(files), offset |-> OffsetOf(file),
                                            size |-> file.size, virtual |-> file.path = "padding"])
                 /\ total' = total + file.size
                 /\ real' = IF file.path = "padding" THEN real ELSE real + file.size
                 /\ UNCHANGED <<ben, step, announces>>

ExtractPieceLength ==
    /\ step = "piece length"
    /\ Goes("pieces") \/ Fails("-5")

\* Their number is not compared with the size.
ExtractPieces ==
    /\ step = "pieces"
    /\ Goes("nodes") \/ Fails("-6")

\* The nodes of the DHT may be missing.
ExtractNodes ==
    /\ step = "nodes"
    /\ Goes("ready") \/ Fails("-8")

---------------------------------------------------------------------------
(* The two numberings.                                                     *)

GetFileNumber(withvirtual) ==
    IF withvirtual THEN Len(files)
    ELSE Cardinality({i \in DOMAIN files : ~files[i].virtual})

\* GetFileInfo, GetFileName and GetFileLength count the real files up to seq.
GetFileInfo(seq, withvirtual) ==
    IF withvirtual THEN files[seq + 1]
    ELSE LET count[i \in 0..Len(files)] ==
                 IF i = 0 THEN 0 ELSE count[i-1] + IF files[i].virtual THEN 0 ELSE 1
         IN  files[CHOOSE i \in DOMAIN files : ~files[i].virtual /\ count[i-1] = seq]

---------------------------------------------------------------------------
Init ==
    /\ ben \in [announce : {<<u>> : u \in Urls} \cup {<<>>, <<"wrong">>}, list : UrlLists,
                many : BOOLEAN, size : {f.size : f \in Files}, files : FileLists]
    /\ step = "announce" /\ announces = <<>> /\ files = <<>>
    /\ total = 0 /\ real = 0

Next ==
    \/ ExtractAnnounce \/ ExtractAnnounceList \/ ExtractName \/ ExtractFileInfo
    \/ ExtractSingleFile \/ ExtractMultiFile \/ ExtractPieceLength
    \/ ExtractPieces \/ ExtractNodes

Spec == Init /\ [][Next]_vars

---------------------------------------------------------------------------
(* Properties.                                                             *)

TypeOK ==
    /\ Files \subseteq Described
    /\ total \in Nat /\ real \in Nat /\ Len(files) <= MaxFiles + 1

\* Whatever is a padding, the files lie end to end in the data of the torrent
\* (the pieces are cut from it, TorrentFile.cpp:647), the sizes add up to both
\* totals, and the number the user sees of a file leads to that file and to no
\* padding (GetFileInfo with withvirtual false, TorrentFile.cpp:1056).
FilesTile ==
    /\ \A i \in DOMAIN files :
        files[i].offset = IF i = 1 THEN 0 ELSE files[i-1].offset + files[i-1].size
    /\ files # <<>> => total = Last(files).offset + Last(files).size
    /\ real = FoldLeft(LAMBDA sum, f : sum + f.size, 0,
                       SelectSeq(files, LAMBDA f : ~f.virtual))
    /\ \A seq \in 0..GetFileNumber(FALSE)-1 :
        GetFileInfo(seq, FALSE) = SelectSeq(files, LAMBDA f : ~f.virtual)[seq + 1]

\* No tracker is asked twice for one task, and the torrent's own one comes first.
TrackersOnce ==
    /\ IsInjective(announces)
    /\ announces # <<>> /\ Len(ben.announce) = 1 => announces[1] = ben.announce[1]
=============================================================================
