SPECIFICATION FairSpec
CONSTANTS
    FatEntries = 8
    Files = {f, g, h}
    Absent = Absent
    MaxNeed = 2
    DeletesEmptyFiles = FALSE
PROPERTY
    SearchEnds
