SPECIFICATION SchedSpec
CONSTANTS
  IqDepth = 3
  WakeHoldCycles = 0
  CheckLoadStoreOrder = FALSE
  StoreCountMod = 8
  NumTags = 4
  Program <- AluProgram
  HeldKinds <- AluKinds
  BlockBehindBranch = TRUE
  Mispredicts = TRUE
  Traps = FALSE
  MaxOrder = 5
INVARIANT EveryOperandReady
