SPECIFICATION FairSpec
CONSTANTS
  SECTORS = 3
  SD_BLOCK_SIZE = 2
  TIMEOUT = 1
  CALLERS <- LoopAndUsb
  MaxCount = 2
  MaxWrites = 2
  MaxRemovals = 1
INVARIANTS
  OkMeansWritten
  CallInv
PROPERTY CallReturns
CHECK_DEADLOCK FALSE
