CONSTANTS
  Threads = {t1, t2, t3}
  Queues = {q1, q2}
  Requesters = {r1, r2, r3}
  Values = {1, 2, 3}
  MaxRequests = 2
SPECIFICATION MCSpec
CHECK_DEADLOCK FALSE
INVARIANTS CountersExact HoldersSeeCurrentData NoLostWakeup PoolAccounting
PROPERTIES RequestsServed ImplementsUpgradableLock PreemptedForBetter PoolProgress
