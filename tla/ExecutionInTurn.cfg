CONSTANTS
  Callers = {c1}
  NSteps = 2
  MaxRuns = 2
  MaxRepeats = 1
  MaxRounds = 2
SPECIFICATION FairSpec
PROPERTIES
  NoNumberReused
  StoppedRunEnds
  InterruptTakesEffect
