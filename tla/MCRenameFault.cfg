SPECIFICATION RenameSpec
CONSTANTS
  Depth = 5
  MaxOrder = 5
  Interrupts = {}
  NumArch = 3
  NumFree = 3
  FlDepth = 6
  PtrMod = 12
  CkptDepth = 2
  CkptQuery = TRUE
  Instrs <- FaultProgram
  PhysRegs <- AllPhys
INVARIANT MapFollowsProgram
