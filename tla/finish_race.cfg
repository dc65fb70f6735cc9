SPECIFICATION Spec
CONSTANTS
    p1 = p1
    p2 = p2
    p3 = p3
    s1 = s1
    s2 = s2
    Contacts = {p1}
    Sessions = {s1, s2}
    SessionOf <- MCSessionOf
    SessionList <- MCSessionList
    LastPiece = 2
    Wanted = {1, 2}
INVARIANTS FinishSeen
