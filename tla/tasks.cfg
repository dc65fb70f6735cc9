SPECIFICATION Spec
CONSTANTS
    p1 = p1
    p2 = p2
    p3 = p3
    s1 = s1
    s2 = s2
    a = a
    b = b
    c = c
    NoPiece = NoPiece
    NoPeer = NoPeer
    Peers = {p1, p3}
    Pieces = {a, b}
    Sessions = {s1, s2}
    SessionOf <- MCSessionOf
    FastPeers = {}
    PeerSets <- SeedSets
    Levels = {1, 6}
    MaxAdjusts = 0
INVARIANTS NoStranded CountExact SoloUnique
