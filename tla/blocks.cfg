SPECIFICATION FairSpec
CONSTANTS
    p1 = p1
    p2 = p2
    NoPeer = NoPeer
    Peers <- TwoPeers
    BlockCount = 3
    Virtual <- LastBlock
    FastPeers <- OneFast
    Window = 2
    MaxPending = 2
    MaxLinks = 1
    MaxTrouble = 1
    MaxBad = 1
INVARIANTS BlockInv
PROPERTIES BlameFounded PieceDone
CHECK_DEADLOCK FALSE
