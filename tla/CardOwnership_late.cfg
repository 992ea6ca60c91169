CONSTANTS
  SUSPEND = 2
  LateLines <- StartLine
  MaxHostWrites = 1
SPECIFICATION Spec
INVARIANT CardHasOneOwner
