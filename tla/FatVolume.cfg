SPECIFICATION FairSpec
CONSTANTS
    FatEntries = 8
    Files = {f, g, h}
    Absent = Absent
    MaxNeed = 3
    DeletesEmptyFiles = FALSE
INVARIANTS
    TypeOK
    ReservedIntact
    RunIsFree
    OneOwner
    ChainsAllocated
    
    OneBlockUnlessExtended
PROPERTY
    RoomIsFound
