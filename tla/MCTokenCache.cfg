CONSTANTS
    Call = {c1, c2, c3}
    Lifetimes = {30, 75}
    Latency = 15
    Step = 15
    MaxTime = 30
    MaxTok = 2
    None = None
SPECIFICATION FairSpec
CHECK_DEADLOCK FALSE
INVARIANT FetchesMerge RetryUsesAnotherToken CachedTokenIsAlive EveryWaiterIsQueued TypeOK
PROPERTY EveryCallAnswered KeepsTokenContract
