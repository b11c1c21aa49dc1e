SPECIFICATION FairSessionSpec
CONSTANTS
  MaxPending = 2
  KeepaliveUs = 1
  InLengths <- MCInLengths
  ResponseLengths <- MCResponseLengths
  MaxUrbs = 3
  MaxSample = 2
  MaxStream = 2
INVARIANTS
  AckBeforeOutput
  UnlinkVerdict
  WaitsOwingNothing
PROPERTIES
  InterruptInServed
  CancelEnds
CHECK_DEADLOCK FALSE
