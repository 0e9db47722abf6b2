SPECIFICATION Spec
CONSTANTS
  Workers = {w1, w2}
  NoWorker = NoWorker
  Vis = 3
  LeaseTicks = 4
  MaxReceive = 5
  MsgUrl = TRUE
  EnvUrl = TRUE
  Faults = {"crash", "stop", "heartbeat", "write", "callback", "duplicate", "lease", "delete", "enqueue"}
  MaxFaults = 4
CHECK_DEADLOCK FALSE
INVARIANTS
  DeletedMeansDelivered
  VerdictIsFinal
  RunsAlone
PROPERTIES
  EveryJobSettles
  EveryJobIsDelivered
