CONSTANTS
  Images <- FourImages
  Persistent <- OnImage
  Files <- SomeFiles
  VIDMEMBUFFERS = 3
  LOC_ROMFS_MAXOPEN = 2
  CntMod = 4
  Faults <- AllCalls
  ThreadFaults <- AllThreads
SPECIFICATION FairSpec
CHECK_DEADLOCK FALSE
INVARIANTS
  NoTearing
  ShownComplete
  SupportsApp
  EngineReadsImages
  SlotsAccountedFor
  EndReleasesAll
PROPERTIES
  ShowsFrames
  StopsAfterError
