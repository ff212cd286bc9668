SPECIFICATION Spec
CONSTANTS
    Threads = {t1}
    Dirs = {root, d1}
    Root = root
    NoDir = NoDir
    Nobody = Nobody
    NumSlots = 2
    TTL = 2
    MaxTime = 1
    MaxVersion = 1
    MaxCalls = 5
INVARIANT
    InvalidateRefetches
