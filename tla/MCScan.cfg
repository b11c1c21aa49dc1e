SPECIFICATION FairSpec
CONSTANTS
  MaxScans = 3
INVARIANTS
  NoDiscoveryLeft
PROPERTIES
  OthersUntouched
  CloseReturns
CHECK_DEADLOCK FALSE
