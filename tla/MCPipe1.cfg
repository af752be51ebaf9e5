SPECIFICATION FairPipe1Spec
CONSTANTS
  DivCycles = 5
  Programs <- MixedPrograms
  MaxOrder = 4
INVARIANTS
  Pipe1TypeOK
  OnePlaceEach
  BusyWhileWorking
PROPERTY EveryAccessAnswers
