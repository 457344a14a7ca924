CONSTANTS
  Peers = {p1, p2}
  Reliable = {p1}
  ProvidesCompact = {p1, p2}
  Length = 3
  Invalid = {3}
  Checkers = {c1}
  MaxInTransit = 2
  Window = 2
  LowerWindow = 2
  MaxParallelFetch = 2
  MaxAnnouncing = 1
  MaxRecords = 1
  MaxFailures = 1
SPECIFICATION DownloadFairSpec
CHECK_DEADLOCK FALSE
INVARIANTS TrackerConsistent LimitsKept
PROPERTY DownloadCompletes
