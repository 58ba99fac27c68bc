SPECIFICATION Spec
CONSTANTS
  MaxSessions = 3
  FrameChunks = 2
  ProbeChunks = 2
  AvioSize = 3
  MinPcmPerFrame = 2
  MaxPcmPerFrame = 3
  MinPcmPerSample = 1
  MaxPcmPerSample = 3
  FlushBuf = 2
  McPipeCap = 3
  RtpPipeCap = 2
  CtlCap = 3
  LibraryFails = TRUE
INVARIANTS
  TypeOK
  FreshInput
  ResidueBelowASample
  AnswersOnlyRequests
  DecodesWithLiveContext
\* The transcoder ends on command and when the library fails.
CHECK_DEADLOCK FALSE
