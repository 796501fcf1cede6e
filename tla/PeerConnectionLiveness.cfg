SPECIFICATION FairSpec
CONSTANTS
  Callers = {c1, c2}
  Runs = {r1, r2}
  Subs = {}
  BufferSize = 1
  None = None
PROPERTIES
  DisconnectReturns
  LostLinkReturns
