SPECIFICATION Spec
CONSTANTS
  MaxPending = 2
  KeepaliveUs = 2
  InLengths <- MCInLengths
  ResponseLengths <- MCResponseLengths
  MaxUrbs = 4
  MaxSample = 3
  MaxStream = 4
INVARIANTS
  OneFate
  NothingLeftWaiting
  StreamContiguous
PROPERTIES
  RepeatsArePaced
  AnswersInOrder
CHECK_DEADLOCK FALSE
