CONSTANTS
  t1 = t1
  t2 = t2
  n1 = n1
  Lxts = {t1, t2}
  Nids = {n1}
  MaxTraffic = 2
  MaxFaults = 1
  MaxRestarts = 1
  Schedules <- MCSchedules
  OwnSchedule <- MCOwnSchedule
  PutMayFail = TRUE
  ReadMayFail = TRUE
SPECIFICATION FairSpec
INVARIANT NeverOvercounts
INVARIANT StatusCounts
INVARIANT DeltaExact
PROPERTY CatchesUp
PROPERTY SettlesOnSchedule
