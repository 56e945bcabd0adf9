SPECIFICATION Spec
CONSTANTS
  n1 = n1
  n2 = n2
  n3 = n3
  np1 = np1
  np2 = np2
  NoPort = NoPort
  Nodes = {n1, n2, n3}
  NodePorts = {np1}
  HostSets <- ComesAndGoes
  MaxFaults = 0
  MaxEdits = 0
  MaxMoves = 1
INVARIANTS
  EveryNodeServed
CHECK_DEADLOCK FALSE
