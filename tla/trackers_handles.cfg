SPECIFICATION Spec
CONSTANTS
    HttpTrackers = {h1, h2, h3}
    UdpTrackers = {u1}
    Limit = 2
    MaxFails = 3
INVARIANTS HandlesReturned
CHECK_DEADLOCK FALSE
