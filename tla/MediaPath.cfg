SPECIFICATION Spec
CONSTANTS
  Dest = {d1, d2}
  Receiver = d1
  FirstSeq = 4
  MaxPackets = 4
  SEQNUMMOD = 6
  RocMod = 4
  WindowSize = 4
  IntBits = 2
  CountMod = 4096
  MaxDropout = 3
  MaxMisorder = 2
  MinValid = 0
  MaxTaken = 5
INVARIANTS ReachesAll NewerAccepted NewestOnce LossIsReported
PROPERTIES QueueDrains
CHECK_DEADLOCK FALSE
