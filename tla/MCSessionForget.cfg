SPECIFICATION Spec
CONSTANTS
  Controllers = {c1, c2}
  None = None
  Corrupt = Corrupt
  Windows = FALSE
  MaxLinks = 1
  MaxRestarts = 0
INVARIANTS
  ForgetPairsAgain
CHECK_DEADLOCK FALSE
