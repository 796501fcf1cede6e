SPECIFICATION Spec
CONSTANTS
  MaxEdits = 2
  MaxSteps = 4
  MaxServices = 2
  MaxNodes = 5
  None = None
INVARIANTS
  TypeOK
PROPERTIES
  EditsKeepReferences
  MovesKeepNodes
CHECK_DEADLOCK FALSE
