SPECIFICATION Spec
CONSTANTS
  Checks = {c1, c2, c3, c4}
  Concurrency = 2
  PersistEvery = 1
  MaxCancels = 1
  MaxFaults = 1
CHECK_DEADLOCK FALSE
INVARIANTS
  TypeOK
  FindingsComplete
  ReportStored
PROPERTY EveryRunEnds
