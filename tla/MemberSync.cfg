SPECIFICATION Spec
CONSTANTS
  n1 = n1
  n2 = n2
  n3 = n3
  np1 = np1
  np2 = np2
  NoPort = NoPort
  Nodes = {n1, n2, n3}
  NodePorts = {np1, np2}
  HostSets <- AllGo
  MaxFaults = 1
  MaxEdits = 1
  MaxMoves = 2
INVARIANTS
  TypeOK
  QuietMeansMembers
PROPERTIES
  StableNodesKeepServing
CHECK_DEADLOCK FALSE
