SPECIFICATION FairSpec
CONSTANT BurstSize <- MCBurstSize
INVARIANTS
    SettledAfterDecision
    StopReachesTheSession
    TradedIsHonest
PROPERTY CycleEnds
CHECK_DEADLOCK FALSE
