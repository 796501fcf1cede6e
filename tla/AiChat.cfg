SPECIFICATION FairSpec
CONSTANTS
  MaxTurns = 2
  MaxSaid = 2
  MaxAhead = 1
  Allowable = {"write"}
  None = None
INVARIANTS
  MessagesAreOfOneTurn
  StoppedIsNotSent
  FinishedMeansOver
PROPERTIES
  BusyEnds
CHECK_DEADLOCK FALSE
