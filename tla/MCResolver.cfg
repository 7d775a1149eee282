CONSTANTS
    Requests = {r1, r2}
    DoH = {r2}
    Keys = {k1, k2}
    HotKeys = {k1}
    Replies <- ThreeReplies
    CacheMaxTTL = 4
    NegCacheTTL = 2
    WarmThreshold = 1
    CacheErrors = TRUE
    MaxTime = 2
    None = None
SPECIFICATION FairSpec
INVARIANTS OneExchangePerKey NoStaleFlight WaitersWillWake HitWithinLifetime
PROPERTIES EveryQueryAnswered
CHECK_DEADLOCK FALSE
