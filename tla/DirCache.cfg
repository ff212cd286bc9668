SPECIFICATION MCSpec
CONSTANTS
    Threads = {t1, t2}
    Dirs = {root, d1}
    Root = root
    NoDir = NoDir
    Nobody = Nobody
    NumSlots = 2
    TTL = 1
    MaxTime = 1
    MaxVersion = 1
    MaxCalls = 3
INVARIANTS
    TypeOK
    StatWithinTTL
    NoLostInvalidation
PROPERTY
    CallsReturn
