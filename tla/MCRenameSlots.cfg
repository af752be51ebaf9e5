SPECIFICATION SlotsSpec
CONSTANTS
  Depth = 8
  MaxOrder = 9
  Interrupts = {}
  NumArch = 2
  NumFree = 4
  FlDepth = 6
  PtrMod = 12
  CkptDepth = 2
  CkptQuery = FALSE
  Instrs <- SlotsInstrs
  PhysRegs <- AllPhys
INVARIANT RestoresTogether
