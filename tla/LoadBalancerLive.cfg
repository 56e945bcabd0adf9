SPECIFICATION FairSpec
CONSTANTS
  p1 = p1
  p2 = p2
  n1 = n1
  n2 = n2
  n3 = n3
  np1 = np1
  np2 = np2
  t1 = t1
  rr = rr
  lc = lc
  Ports = {p1, p2}
  Nodes = {n1, n2}
  NodePorts = {np1, np2}
  LBs = {lb1, lb2}
  TlsRefs = {t1}
  Methods = {rr, lc}
  Specs <- ValidSpecs
  HostSets <- BothNodes
  Addressless <- NoNodes
  CreateMonitor = TRUE
  None = None
  Gone = Gone
  MaxFaults = 2
  MaxErrors = 1
  MaxEdits = 2
PROPERTIES
  Convergence
  GrowsAndShrinksAtLeaves
CHECK_DEADLOCK FALSE
