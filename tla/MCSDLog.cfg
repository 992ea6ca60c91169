CONSTANTS
  MAG_BUF_LEN = 2
  RUNS = 2
  MaxRows = 5
  MaxCuts = 1
SPECIFICATION Spec
INVARIANTS
  RowsAccountedFor
  LogInv
  EveryRunIsAPrefix
  CleanRunIsComplete
PROPERTY ImplementsSession
