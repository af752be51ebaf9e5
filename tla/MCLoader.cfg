SPECIFICATION Spec
CONSTANTS
  Base = 4
  Word = 2
  BlockBytes = 4
  MaxSize = 8
  Payload <- MCPayload
  Magic <- MCMagic
  HeaderTries = 2
  ChecksumTries = 2
  BlockTries = 2
  AllowMiss = TRUE
  Faults <- MCFaults
INVARIANTS LoaderTypeOK PassMeansIntact BlocksInStep Outstanding
PROPERTIES CleanLoadPasses HostFinishes
CHECK_DEADLOCK FALSE
