SPECIFICATION FairSpec
CONSTANTS
  Subs = {s1, s2}
  Writes = {w1}
  Threads = {t1, t2}
  NoSub = NoSub
  MaxChanges = 3
INVARIANTS
  NoSinkAfterRelease
  NothingLeft
PROPERTIES
  LossNoticed
  CallsEnd
CHECK_DEADLOCK FALSE
