SPECIFICATION LimiterSpec
CONSTANTS
  Callers = {c1, c2}
  Interval = 2
  MaxQueue = 10
  Base = 2
  MaxDelay = 4
  MaxAttempts = 2
  MaxTries = 2
  MaxGhosts = 1
  MaxTime = 8
SYMMETRY Symmetric
CHECK_DEADLOCK FALSE
INVARIANTS
  LimiterTypeOK
  SlotsSpaced
  RateBound
PROPERTY CooldownNeverShrinks
