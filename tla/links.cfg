SPECIFICATION Spec
CONSTANTS
    s1 = s1
    s2 = s2
    Sessions = {s1, s2}
    SessionList <- MCSessionList
    Addrs = {a1}
    Links = {l1, l2, l3, l4}
    NoAddr = NoAddr
    NoLink = NoLink
    LinkMax = 2
    UploadLinkMax = 2
    ConnectingLimit = 2
    ConnectionLimit = 4
    Phases = {FALSE}
SYMMETRY PeerSymmetry
INVARIANTS BooksExact OneLaunched AddressBound
CHECK_DEADLOCK FALSE
