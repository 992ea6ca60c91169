CONSTANTS
  SUSPEND = 2
  LateLines <- SecondEject
  MaxHostWrites = 1
SPECIFICATION FairSpec
PROPERTY EjectReturnsToCDC
