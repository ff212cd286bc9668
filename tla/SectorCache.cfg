SPECIFICATION Spec
CONSTANTS
    LastSector = 3
    Data = {d1, d2}
    NotCached = NotCached
    SectorCacheSize = 2
    QueueMax = 2
    BatchSizes <- MCBatchSizes
INVARIANT
    CacheCoherent
