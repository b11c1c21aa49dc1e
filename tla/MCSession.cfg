SPECIFICATION FairSpec
CONSTANTS
  Controllers = {c1, c2}
  None = None
  Corrupt = Corrupt
  Windows = TRUE
  MaxLinks = 2
  MaxRestarts = 1
INVARIANTS
  NoHeldInput
  NoOldRumble
  CacheIsTrusted
PROPERTIES
  OnlyTheFailedIsForgotten
  LinkEndsNeutral
  CancelEnds
  Reconnects
CHECK_DEADLOCK FALSE
