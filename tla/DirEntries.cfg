SPECIFICATION Spec
CONSTANTS
    Names <- MCNames
    Tilde <- MCTilde
    Chunks <- MCChunks
    Base <- MCBase
    Data = {x, y}
    None = None
    NumClusters = 4
    ClusterSlots = 4
    SectorSlots = 2
    MkdirSlots = 4
    VolumeFills = FALSE
    CrashIn = {"create", "unlink", "rename"}
    MaxCalls = 4
CHECK_DEADLOCK FALSE
INVARIANTS
    TypeOK
    LookupsAgree
    NamesUnique
    ChunksBelong
    TailIsFree
    TreeSound
PROPERTIES
    ImplementsNameSpace
    CallsEnd
