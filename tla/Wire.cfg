SPECIFICATION Spec
CONSTANTS
  WordBytes = 1
  BlockBytes = 4
  CountBytes = 1
  MessageBlocks = 2
  Uses <- MCUses
  Setups <- MCSetups
  FirstSequence = 2
  TagLength = 1
  MaxSent = 5
  SRTP_BLOCK_SIZE = 2
  SaltCells = 3
  KeyCells = 4
  PaddingBytes = {0, 1}
  SEQNUMMOD = 4
  RocMod = 4
  WindowSize = 8
  IntBits = 4
  PathMTU = 96
  LowerHeadersSize = 4
  Reserve = 8
  MaxBlocks = 2
  SenderInfoWords = 1
  ReceiverInfoWords = 1
  Leftover = {0, 201, 203}
  Configurations <- MCConfigurations
  Reasons <- MCReasons
  Source = {s1, me}
  LocalSSRC = me
  Addr = {a1, a2}
  MaxN = 3
  MaxLinks = 3
  CountMod = 64
  MaxDropout = 2
  MaxMisorder = 2
  MinValid = 0
INVARIANTS
  DigestOfMessage ArrivesAsSent KeystreamOnce CompoundIsRead EveryItemInTurn
  ListsAgree NoDanglingPointer
PROPERTY RestartNeedsTwo
CHECK_DEADLOCK FALSE
