CONSTANTS
  c1 = c1
  c2 = c2
  Channels <- MCTwo
  TcpChannels <- MCTwo
  MaxChunks = 3
  Sources <- MCFileAndRecorded
  MayFail = TRUE
  Interrupts = TRUE
  Spurious = TRUE
SPECIFICATION FairSpec
INVARIANTS TypeOK SlotIntact NoLostWakeup RecordingComplete ShutdownLosesOne
PROPERTY StreamSpec
