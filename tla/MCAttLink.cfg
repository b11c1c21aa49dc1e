SPECIFICATION FairSpec
CONSTANTS
  MaxHandle = 5
  Kinds = {n, w}
  Notifying = {n}
  Unknown = u
  MaxEntries = 2
  Calls = {a1, a2, a3}
  Opener = Opener
  NoCall = NoCall
  MaxNotices = 2
INVARIANTS
  HandlesBounded
  NoCrossedReply
  OneOutstanding
  NoNotificationMissed
PROPERTIES
  Advances
  CallsEnd
CHECK_DEADLOCK FALSE
