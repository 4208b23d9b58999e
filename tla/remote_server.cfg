SPECIFICATION FairSpec
CONSTANTS
    None = None
    w1 = w1
    w2 = w2
    d1 = d1
    d2 = d2
    Workers = {w1, w2}
    Dbs = {d1, d2}
    MaxConns = 2
    MaxHandles = 3
    QueueSize = 1
    PendingMax = 2
    DbCacheMax = 1
    MaxRequest = 2
    BodyMax = 3
CHECK_DEADLOCK FALSE
INVARIANTS
    TypeOK
    HandlesValid
    StoreExclusive
    BodyAccounted
    ActiveOwned
    NothingLeft
PROPERTIES
    CacheBounded
    Answered
    StopReturns
