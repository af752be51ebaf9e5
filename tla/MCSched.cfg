SPECIFICATION FairSchedSpec
CONSTANTS
  IqDepth = 2
  WakeHoldCycles = 1
  CheckLoadStoreOrder = TRUE
  StoreCountMod = 4
  NumTags = 3
  Program <- MemProgram
  HeldKinds <- MemKinds
  BlockBehindBranch = FALSE
  Mispredicts = TRUE
  Traps = TRUE
  MaxOrder = 5
INVARIANTS
  SchedTypeOK
  OperandsReady
  NoLostWakeup
  TagsNameOne
  LoadsStayBehindStores
PROPERTY EveryWaitEnds
