CONSTANTS
  c1 = c1
  Channels <- MCOne
  MaxBlocks = 4
  Spurious = TRUE
SPECIFICATION FairSpec
INVARIANTS TypeOK NoLostWakeup
PROPERTIES QueueSpec BlockEmitted
