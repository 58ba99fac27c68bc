SPECIFICATION PoolSpec
CONSTANTS
  s1 = s1
  s2 = s2
  e1 = e1
  e2 = e2
  e3 = e3
  Session = {s1, s2}
  Element = {e1, e2, e3}
  SOCKET = {3, 4}
  WordBits = 4
  MaxMade = 3
  NULL = NULL
  FREED = FREED
INVARIANTS NoDanglingElement RecvNeverWaits
PROPERTY EverySessionServed
