SPECIFICATION LiveSpec
CONSTANTS
    Services = {"handshake", "serving", "application", "sockets", "mapper",
                "links", "completion", "trackers"}
    HttpTrackers = {h1, h2, h3}
    UdpTrackers = {u1}
    Limit = 2
    MaxFails = 2
    Marked = Marked
    Owner = Owner
    NoAddr = NoAddr
    NoLink = NoLink
    a = a
    f = f
    n = n
    s1 = s1
    s2 = s2
    t1 = t1
    t2 = t2
    l1 = l1
    l2 = l2
    p1 = p1
    p2 = p2
INVARIANT TrackersInv
PROPERTIES StopsEnd MapperEnds Served ShakesDone AttemptsReported AttemptsEnd AllSwitch AsksAgain
CHECK_DEADLOCK FALSE
