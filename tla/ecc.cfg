CONSTANTS
  MemUnits = 48
  DmaFaults = TRUE
  Boards <- SomeBoards
  Tables <- OneSplit
  fill_data = 2368
  AREA_NUM = 2
  ExtraBytes = 256
  ECC_BASE2 = 1024
SPECIFICATION FairSpec
CHECK_DEADLOCK FALSE
INVARIANTS
  FusaCoded
  OnlyFusaZeroed
  FillsInTurn
PROPERTY
  EccEnds
