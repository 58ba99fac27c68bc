SPECIFICATION FairSpec
CONSTANTS
  StationCount = 1
  MaxUrls = 2
  FdLimit = 3
  FrameChunks = 2
  ProbeChunks = 2
  AvioSize = 2
  MinPcmPerFrame = 1
  MaxPcmPerFrame = 1
  MinPcmPerSample = 1
  MaxPcmPerSample = 1
  LibraryFails = FALSE
  Garbage = Garbage
  HowMany = 0
  PayloadSize = 1
  SeqMod = 1
  TsMod = 1
  TsInc = 0
  McPipeCap = 1
  RtpPipeCap = 1
  CtlCap = 2
  FlushBuf = 1
PROPERTY SyncCompletes
\* The program ends on command.
CHECK_DEADLOCK FALSE
