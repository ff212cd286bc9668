SPECIFICATION Spec
CONSTANTS
    Files = {f, g}
    Absent = Absent
    MaxFiles = 2
    NumClusters = 3
    ClusterSectors = 2
    SectorChunks = 1
    BufferLimit = 2
    MaxSize = 3
    Usage = {"empty files", "mixed positions", "partial sectors", "gaps"}
SYMMETRY FileSymmetry
INVARIANT
    DataInPlace
