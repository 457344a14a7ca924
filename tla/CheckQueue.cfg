CONSTANTS
  Workers = {w1, w2}
  Master = master
  BatchSize = 2
  MaxAdd = 3
  MaxChecks = 3
SPECIFICATION FairSpec
CHECK_DEADLOCK FALSE
INVARIANTS Accounting ResultsSound SessionsDoNotOverlap
PROPERTY QueueProgress
