\* A call made in the USB interrupt may wait for ever.
SPECIFICATION FairSpec
CONSTANTS
  SECTORS = 3
  SD_BLOCK_SIZE = 2
  TIMEOUT = 1
  CALLERS <- LoopAndUsb
  MaxCount = 2
  MaxWrites = 1
  MaxRemovals = 0
PROPERTY StorageCallReturns
CHECK_DEADLOCK FALSE
