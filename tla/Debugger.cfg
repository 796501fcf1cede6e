SPECIFICATION FairSpec
CONSTANTS
  NSteps = 2
  MaxRows = 2
  MaxEvents = 1
  None = None
INVARIANTS
  ShownRowsAreHistory
  ShownEndIsReal
PROPERTIES
  EndIsLeftByFailedSendOnly
  FinalRowsAreShown
CHECK_DEADLOCK FALSE
