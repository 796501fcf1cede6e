SPECIFICATION FairSpec
\* A session that is over is left alone: nothing needs to happen any more.
CHECK_DEADLOCK FALSE
CONSTANTS
  Callers = {c1, c2}
  Timers = {t1, t2}
  MaxNumber = 2
  None = None
PROPERTIES
  AutoNumberIsNew
  ReAuthTakesPlace
