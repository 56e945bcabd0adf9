SPECIFICATION Spec
CONSTANTS
  LB = LB
  None = None
  MaxFaults = 2
  MaxEdits = 2
INVARIANTS
  TypeOK
  RecordedWhenQuiet
  StoreAgrees
PROPERTIES
  UserEditsSurvive
CHECK_DEADLOCK FALSE
