SPECIFICATION FairSpec
CONSTANTS
    in = in
    out = out
    s1 = s1
    s2 = s2
    a1 = a1
    x = x
    Peers = {in, out}
    spare = spare
    Pieces = {x}
    Spares = {spare}
    Sessions = {s1, s2}
    SessionOf <- TwoSessions
    Addrs = {a1}
    AddrOf <- OneAddr
    Accepted = {in}
    Encrypted = {out}
    Fast = {out}
    PeerSets <- SomeSets
    Wishes <- SomeWishes
    NoPiece = NoPiece
    MaxEvents = 4
INVARIANTS WireInv AvailExact
PROPERTIES HonestKept SilentClosed
CHECK_DEADLOCK FALSE
