SPECIFICATION FairSpec
CONSTANTS
    p1 = p1
    p2 = p2
    Producers <- TwoProducers
    maxsize = 2
    MaxPosts = 3
INVARIANTS
    NothingLost
    EveryPostAccountedFor
PROPERTY EventuallyTaken
CHECK_DEADLOCK FALSE
