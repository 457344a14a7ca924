SPECIFICATION ValidatorSpec 
CONSTANTS
  p = p
  o = o
  d = d
  coin = coin
  a = a
  Transactions = {p, o, d}
  Spends <- MCTwoParents
  From <- MCFrom
  Submitted = {}
  Bad = {}
  MayTimeOut = {o}
  MaxQueue = 1
  MaxStd = 1
  MaxNonStd = 1
  MaxArrivals = 1
  MaxMishaps = 0
  MaxToSchedule = 2
  MaxOrphans = 1
  MaxOrphansInBatch = 1
INVARIANT ScheduledOnce
CHECK_DEADLOCK FALSE
