---------------------------- MODULE MCDiskCache ----------------------------
EXTENDS DiskCache
\* Two files, the second begins within piece 2; only the first one is big.
TwoHeads == <<0, 2>>
TwoTails == <<3, 4>>
FirstBig == {1}
\* No file ends at the end of a piece, so the last piece is one of them.
BothEnds == {2, 3}
=============================================================================
