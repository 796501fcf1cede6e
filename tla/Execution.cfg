CONSTANTS
  Callers = {c1, c2}
  NSteps = 2
  MaxRuns = 2
  MaxRepeats = 0
  MaxRounds = 1
SPECIFICATION Spec
SYMMETRY CallerSymmetry
INVARIANTS
  ActiveHasRun
  QuietUnlessActive
  SingleThreadedInTurn
  HistoryIsTheWalk
