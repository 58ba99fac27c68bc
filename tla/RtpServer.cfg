SPECIFICATION FairSpec
CONSTANTS
  Sample = {s1, s2}
  Garbage = Garbage
  HowMany = 2
  PayloadSize = 2
  SeqMod = 2
  TsMod = 8
  TsInc = 2
  FlushBuf = 2
  RtpPipeCap = 3
  CtlBound = 2
INVARIANTS AvailableStays OnlyFreshAudioSent
PROPERTIES StreamRefined ExitObeyed
\* The server exits on command.
CHECK_DEADLOCK FALSE
