SPECIFICATION FairSpec
CONSTANTS
    LastSector = 3
    Data = {d1, d2}
    NotCached = NotCached
    SectorCacheSize = 2
    QueueMax = 2
    BatchSizes <- MCBatchSizes
INVARIANTS
    TypeOK
    QueueSound
    CacheBounded
    NoLostWrite
    SyncedIsDurable
    PendingIsCached
    MissReturnsLatest
PROPERTIES
    CallsReturn
    ImplementsDisk
