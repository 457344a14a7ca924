CONSTANTS
  g = g  p = p  a1 = a1  a2 = a2  b1 = b1  b2 = b2  base = base  out = out  u = u  w = w
  Blocks = {g, p, a1, a2, b1, b2}
  Genesis = g
  None = None
  Parent <- MCParent
  Txs <- MCTxs
  MaxCrashes = 2
  Ids = {1, 2, 3}
  x = x  y = y  c = c  d = d
  External = {x, y}
  Confirmed <- MCConfirmed
  MaxTxns = 3
  MaxGroups = 3
  MaxMinSize = 2
  SigOpsLimits = {3, 4}
SPECIFICATION MCSpec
INVARIANTS MemoryConsistent CrashesSurvived GroupsSound VerdictSequential
PROPERTY RecoveryCompletes
