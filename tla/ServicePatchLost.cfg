SPECIFICATION Spec
CONSTANTS
  LB = LB
  None = None
  MaxFaults = 1
  MaxEdits = 1
INVARIANTS
  AlwaysRecorded
CHECK_DEADLOCK FALSE
