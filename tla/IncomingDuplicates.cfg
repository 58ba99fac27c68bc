SPECIFICATION RecvSpec
CONSTANTS
  Source = {s1, me}
  LocalSSRC = me
  Addr = {a1}
  MaxN = 3
  MaxLinks = 3
  SEQNUMMOD = 4
  CountMod = 64
  MaxDropout = 2
  MaxMisorder = 2
  MinValid = 0
INVARIANT NotQueuedTwice
CHECK_DEADLOCK FALSE
