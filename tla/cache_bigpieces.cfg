SPECIFICATION Spec
CONSTANTS
    FileCount = 2
    headindex <- TwoHeads
    tailindex <- TwoTails
    Big <- FirstBig
    Unaligned <- BothEnds
    Step = 1
    MaxCached = 2
    MaxEvents = 0
INVARIANTS StoredRight
CHECK_DEADLOCK FALSE
