SPECIFICATION Spec
CONSTANTS
  MaxEvents = 5
  DrainLimit = 4
INVARIANTS
  ReportIsOfLink
  OnlyOurLinkIsAsked
CHECK_DEADLOCK FALSE
