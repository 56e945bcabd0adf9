SPECIFICATION FairSpec
CONSTANTS
  a1 = a1
  b6 = b6
  f = f
  inner = inner
  outer = outer
  subnet1 = subnet1
  subnet2 = subnet2
  None = None
  V6 = {b6}
  ServerIDs = {s1, s2}
  Ports <- TwoPorts
  Networks <- Sorted
  Floating = f
  Access4 = {None, a1, f}
  Access6 = {None, b6}
  Options <- AllOptions
  MaxPorts = 2
  MaxChanges = 2
  MaxFaults = 1
INVARIANTS
  TypeOK
  ListIsExact
  InterfaceOrderWins
  SubnetResolves
  RouteHopHasPort
  ZoneIsOwn
PROPERTIES
  LiveNodeStays
  AddressesConverge
CHECK_DEADLOCK FALSE
