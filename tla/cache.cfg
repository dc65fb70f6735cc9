SPECIFICATION FairSpec
CONSTANTS
    FileCount = 2
    headindex <- TwoHeads
    tailindex <- TwoTails
    Big <- FirstBig
    Unaligned <- BothEnds
    Step = 2
    MaxCached = 2
    MaxEvents = 1
INVARIANTS CacheInv
PROPERTIES CacheBounded FinishedStored
CHECK_DEADLOCK FALSE
