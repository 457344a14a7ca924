CONSTANTS
  Outpoints = {o1}
  Coins = {c1}
  NoCoin = NoCoin
  NoEntry = NoEntry
  Spans = {s1, s2}
  MaxBlocks = 1
  o1 = o1
  o2 = o2
  Inputs = {o1, o2}
  Size <- MCSize
  Threshold = 2
  Big = 7
  Readers = {r1, r2}
  Cachers = {b1}
SPECIFICATION MCSpec
CHECK_DEADLOCK FALSE
INVARIANT NoAssertFails
