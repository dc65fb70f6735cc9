SPECIFICATION ServicesSpec
CONSTANTS
    Services = {"completion", "handshake", "queries", "bucket", "server",
                "serving", "application", "sockets", "pieces", "bencode",
                "torrent"}
    a = a
    b = b
    f = f
    n = n
    s1 = s1
    s2 = s2
    p1 = p1
    p2 = p2
    h1 = h1
    \* Completion
    Sessions = {s1, s2}
    SessionList <- SessionOrder
    Contacts = {p1, p2}
    SessionOf <- TwoSessions
    LastPiece = 3
    Wanted = {1, 3}
    \* Mse
    PadMax = 2
    Pads = {0, 1}
    Skip = 100
    Offers <- SomeOffers
    Nineteens = {FALSE, TRUE}
    MaxMessages = 1
    MaxKeepAlives = 1
    \* DhtQueries
    Nodes = {a, b}
    IpOf <- OneRouter
    Hashes = {h1}
    Dist <- TwoDistances
    Sids = {0, 1}
    InitNodes = {a}
    NoKey = NoKey
    K = 1
    MaxQueue = 2
    MaxSent = 3
    \* KBucket
    Keys = {"k1", "k2", "k3"}
    Limits = {1, 2}
    MaxWaiting = 2
    \* DhtServer
    Ips = {1, 2}
    Ports = {1}
    Infohashes = {h1}
    TokenLife = 1
    ItemLife = 1
    ItemLimit = 2
    SampleMax = 1
    MaxClock = 2
    \* Serving
    Peers = {f, n}
    Order <- LinksInOrder
    Pieces = {1, 2}
    Fast = {f}
    Brothers = {f}
    AllowedFast <- OnePieceFast
    UploadLinkMax = 1
    RequestSize = 2
    Limit = 1
    Room = 2
    \* Application
    Tasks = {"t1", "t2"}
    SessionNum = 2
    Links = {"l1"}
    MaxRunning = 1
    NoLink = NoLink
    \* Dealer
    Socks = {s1, s2}
    Marked = Marked
    Owner = Owner
    MaxTimers = 3
INVARIANTS NoFalseFinish HandshakeInv QueriesInv BucketInv ServerInv UploadInv
           ApplicationInv DealerInv FormatInv
PROPERTIES SearchDies ItemsLast
CHECK_DEADLOCK FALSE
