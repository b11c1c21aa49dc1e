SPECIFICATION FairSpec
CONSTANTS
  Capacity = 2
  Pace = 2
  MaxLeds = 1
  MaxRumble = 2
INVARIANTS
  OwnAnswer
PROPERTIES
  RumblePaced
  OutputsReach
CHECK_DEADLOCK FALSE
