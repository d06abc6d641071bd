CONSTANTS
  MemUnits = 48
  DmaFaults = TRUE
  Boards <- SomeBoards
  Tables <- TwoSplits
  fill_data = 2368
  AREA_NUM = 2
  ExtraBytes = 256
  ECC_BASE2 = 1024
SPECIFICATION Spec
CHECK_DEADLOCK FALSE
INVARIANTS
  FusaCoded
