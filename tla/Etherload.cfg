SPECIFICATION Spec
CONSTANTS
  NumBlocks = 2
  NumSectors = 3
  Data = {x, y}
  LoadWindow = 2
  WriteWindow = 1
  ReadWindow = 2
  BatchIds = 2
  SlotBase = 8
  ReadBatch = 2
  WriteLists <- MCWriteLists
  WireCapacity = 3
  MaxCalls = 2
  MaxGiveUps = 1
INVARIANTS
  TypeOK
  HelperComplete
  WritesLand
  ReadsFresh
PROPERTY
  CallsEnd
CHECK_DEADLOCK FALSE
