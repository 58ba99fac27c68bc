SPECIFICATION FairSpec
CONSTANTS
  StationCount = 1
  MaxUrls = 1
  FdLimit = 4
  FrameChunks = 1
  ProbeChunks = 1
  AvioSize = 1
  MinPcmPerFrame = 1
  MaxPcmPerFrame = 1
  MinPcmPerSample = 1
  MaxPcmPerSample = 2
  LibraryFails = FALSE
  Garbage = Garbage
  HowMany = 0
  PayloadSize = 1
  SeqMod = 1
  TsMod = 1
  TsInc = 0
  McPipeCap = 1
  RtpPipeCap = 1
  CtlCap = 2
  FlushBuf = 1
PROPERTIES HandshakeEnds ExitEnds
\* The program ends on command.
CHECK_DEADLOCK FALSE
