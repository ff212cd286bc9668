SPECIFICATION Spec
CONSTANTS
    FatEntries = 8
    Files = {f, g, h}
    Absent = Absent
    MaxNeed = 2
    DeletesEmptyFiles = TRUE
INVARIANT
    ReservedIntact
