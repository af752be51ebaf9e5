SPECIFICATION RenameSpec
CONSTANTS
  Depth = 5
  MaxOrder = 6
  Interrupts = {"external"}
  NumArch = 2
  NumFree = 4
  FlDepth = 6
  PtrMod = 12
  CkptDepth = 2
  CkptQuery = TRUE
  Instrs <- TrapProgram
  PhysRegs <- AllPhys
INVARIANTS
  RenameTypeOK
  MapFollowsProgram
  FreeIsNotInUse
  OneReturnPerCycle
  ImageIsConsistent
