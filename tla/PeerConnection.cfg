SPECIFICATION Spec
CONSTANTS
  Callers = {c1, c2}
  Runs = {r1, r2}
  Subs = {s1}
  BufferSize = 1
  None = None
SYMMETRY Symmetry
INVARIANTS
  OneLiveRun
  LiveRunIsPublished
  NewestEventIsState
