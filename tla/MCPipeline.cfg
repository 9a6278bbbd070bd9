CONSTANTS
  Setups <- MCSetups
  Lengths <- MCLengths
  Reach = 8
  Turn = 16
  Bin = 4
  MaxSamples = 60
SPECIFICATION Spec
INVARIANTS TypeOK ChunkingInvisible AudioFaithful ReadsInBounds EveryTapOnce
