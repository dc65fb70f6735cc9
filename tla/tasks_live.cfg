SPECIFICATION FairSpec
CONSTANTS
    p1 = p1
    p2 = p2
    p3 = p3
    s1 = s1
    s2 = s2
    a = a
    b = b
    c = c
    NoPiece = NoPiece
    NoPeer = NoPeer
    Peers = {p1, p3}
    Pieces = {a}
    Sessions = {s1, s2}
    SessionOf <- MCSessionOf
    FastPeers = {p1, p3}
    PeerSets <- SeedSets
    Levels = {1, 11}
    MaxAdjusts = 1
INVARIANTS TaskInv
PROPERTIES BoardSpec Released Announced
