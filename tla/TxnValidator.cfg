SPECIFICATION ValidatorFairSpec 
CONSTANTS
  p = p
  o = o
  d = d
  coin = coin
  a = a
  Transactions = {p, o, d}
  Spends <- MCSpends
  From <- MCFrom
  Submitted <- MCSubmitted
  Bad = {}
  MayTimeOut = {o}
  MaxQueue = 1
  MaxStd = 1
  MaxNonStd = 2
  MaxArrivals = 1
  MaxMishaps = 1
  MaxToSchedule = 3
  MaxOrphans = 1
  MaxOrphansInBatch = 2
INVARIANTS MempoolConsistent NoOrphanLeftBehind ParentsFirst BatchAccounted
PROPERTIES BatchEnds
CHECK_DEADLOCK FALSE
