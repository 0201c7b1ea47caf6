CONSTANTS
    Kid = {k1, k2}
    Caller = {c1, c2}
    TTL = 1
    Latency = 1
    MaxTime = 3
    None = None
SPECIFICATION FairSpec
INVARIANT TypeOK TrustEnds PublishedKeyIsFound LockHasWorker
PROPERTY LockIsReleased KeepsKeyContract
