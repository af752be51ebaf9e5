SPECIFICATION FairRetireSpec
CONSTANTS
  Depth = 4
  MaxOrder = 5
  Interrupts = {"external", "software"}
  Instrs <- MCInstrs
  PhysRegs <- MCPhysRegs
INVARIANTS
  RetireTypeOK
  CommitsInOrder
  UndoesYoungestFirst
  WalkUndoesAll
  NoMarkLeft
  RingIsContiguous
PROPERTIES
  ImplementsProgram
  EveryInstructionLeaves
  WalkEnds
