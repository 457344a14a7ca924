CONSTANTS
  G = G  B1 = B1  B2 = B2  C1 = C1  t1 = t1  t2 = t2  None = None
  Blocks <- MCBlocks
  Genesis = G
  Parent <- MCParent
  Bad <- MCBad
  Address <- MCAddress
  Threads <- MCThreads
  MaxParallelBlocks = 1
  MinBlocksToKeep = 1
  MaxCancels = 1
  MaxRpcs = 1
SPECIFICATION Spec
INVARIANT ActiveChainValid
CHECK_DEADLOCK FALSE
