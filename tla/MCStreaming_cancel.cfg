CONSTANTS
  c1 = c1
  Channels <- MCOne
  TcpChannels <- MCNone
  MaxChunks = 8
  Sources <- MCSources
  MayFail = FALSE
  Spurious = TRUE
  Libraries <- MCRtl
  CallSizes <- MCCallSizes
  CHUNK_SAMPLES = 2
  MAXIMUM_IQ_LENGTH = 3
  STARTUP_DROP_SAMPLES = 2
  MaxSamples = 8
SPECIFICATION FairSpec
 
PROPERTY StopsPromptly
