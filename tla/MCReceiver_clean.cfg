CONSTANTS
  c1 = c1
  Channels <- MCOne
  TcpChannels <- MCNone
  MaxChunks = 3
  Sources <- MCFile
  MayFail = FALSE
  Interrupts = FALSE
  Spurious = FALSE
SPECIFICATION FairSpec
CHECK_DEADLOCK FALSE
PROPERTY CleanShutdown
