CONSTANTS
  c1 = c1
  Channels <- MCOne
  TcpChannels <- MCOne
  MaxChunks = 3
  Sources <- MCFileAndRecorded
  MayFail = TRUE
  Interrupts = TRUE
  Spurious = TRUE
SPECIFICATION CalmSpec
CHECK_DEADLOCK FALSE
INVARIANTS EndToEnd NoStandstill
PROPERTIES AudioSpec StreamingStops ChunksConsumed
