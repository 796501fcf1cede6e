CONSTANTS
  None = None
  Peers = {p1, p2}
  Managed = {p1}
  MaxCalls = 2
  MaxChanges = 1
  MaxBreaks = 1
  Subs = {s1, s2}
  Existing = {s1}
  Makers = {{t1}}
  Unlisted = {t2}
  MaxSaves = 2
  MaxFaults = 1
  MaxTyped = 1
  MaxPicks = 2
  Dicts = {d1, d2}
  StoredDicts = {d1}
  Tools = {tool}
  Endpoints = {e1}
  Models = {m1}
  MaxTasks = 2
  MaxLost = 1
  MaxTouches = 1
  MaxVisits = 2
SPECIFICATION Spec
INVARIANTS TypeOK TableIsServers SettledPagesAreServers
PROPERTIES ToastsTellChanges UntouchedDeviceIsSent ImeiFitsDevice SavesKeepWhatWasFilled
CHECK_DEADLOCK FALSE
