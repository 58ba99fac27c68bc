SPECIFICATION Spec
CONSTANTS
  StationCount = 1
  MaxUrls = 1
  FdLimit = 4
  FrameChunks = 2
  ProbeChunks = 2
  AvioSize = 2
  MinPcmPerFrame = 3
  MaxPcmPerFrame = 3
  MinPcmPerSample = 1
  MaxPcmPerSample = 2
  LibraryFails = FALSE
  Garbage = Garbage
  HowMany = 1
  PayloadSize = 2
  SeqMod = 1
  TsMod = 1
  TsInc = 0
  McPipeCap = 1
  RtpPipeCap = 2
  CtlCap = 2
  FlushBuf = 1
INVARIANT OldStationFlushed
PROPERTIES HeardInOrder ComponentSpecs
\* The program ends on command.
CHECK_DEADLOCK FALSE
