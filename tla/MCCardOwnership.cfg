CONSTANTS
  SUSPEND = 2
  LateLines <- NoStart
  MaxHostWrites = 1
SPECIFICATION FairSpec
INVARIANTS
  ModeIsClass
  CardHasOneOwner
  ViewIsCurrent
PROPERTIES
  RestoreReasonIsTrue
  LinesAreServed
  PortComesBack
