SPECIFICATION FairSpec
CONSTANTS
  StationCount = 1
  MaxUrls = 1
  FdLimit = 2
  FrameChunks = 1
  ProbeChunks = 1
  AvioSize = 2
  MinPcmPerFrame = 3
  MaxPcmPerFrame = 3
  MinPcmPerSample = 2
  MaxPcmPerSample = 2
  LibraryFails = FALSE
  Garbage = Garbage
  HowMany = 1
  PayloadSize = 2
  SeqMod = 1
  TsMod = 1
  TsInc = 0
  McPipeCap = 1
  RtpPipeCap = 2
  CtlCap = 2
  FlushBuf = 1
PROPERTY PlayedIsHeard
\* The program ends on command.
CHECK_DEADLOCK FALSE
