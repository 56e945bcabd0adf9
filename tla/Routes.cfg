SPECIFICATION Spec
CONSTANTS
  n1 = n1
  n2 = n2
  c1 = c1
  c2 = c2
  f1 = f1
  None = None
  Nodes = {n1, n2}
  CIDRs = {c1, c2}
  Earlier <- OneNodeBefore
  Foreign <- OneForeign
  MaxFaults = 1
  MaxEdits = 1
INVARIANTS
  TypeOK
  PairsComplete
  AloneIsExact
  ForeignRoutesStay
PROPERTIES
  RoutesConverge
CHECK_DEADLOCK FALSE
