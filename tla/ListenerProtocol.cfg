SPECIFICATION Spec
CONSTANTS
  t1 = t1
  t2 = t2
  TlsRefs = {t1, t2}
  Annotations <- Any
  None = None
INVARIANTS
  TypeOK
  SettlesInTwo
  PoolFollowsListener
