SPECIFICATION FairSpec
CONSTANTS
  Stored = {s1}
  New = s2
  Versions = {blank, v1}
  Blank = blank
  Clashing = {}
  HISTORY_CAPACITY = 1
  MaxEdits = 2
  MaxSaves = 1
  None = None
INVARIANTS
  TypeOK
  ShownDraftIsOwn
  CleanMeansSaved
  UndoRedoCancel
PROPERTIES
  EditorFills
CHECK_DEADLOCK FALSE
