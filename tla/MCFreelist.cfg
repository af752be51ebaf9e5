SPECIFICATION UseSpec
CONSTANTS
  NumArch = 1
  NumFree = 2
  FlDepth = 3
  PtrMod = 6
  CkptDepth = 1
  MaxBranch = 2
PROPERTY ImplementsFifo
