SPECIFICATION ReviewSpec
CONSTANTS
  f = f
  e = e
  i = i
  r = r
  s = s
  d = d
  Jobs = {f, e, i, r, s, d}
  Kind <- MCKind
  Together = {"scrutiny", "edit"}
  MaxIds = 2
  MaxGen = 5
  Faults = {"crash", "job", "read", "write", "embed", "delete"}
  MaxFaults = 2
CHECK_DEADLOCK FALSE
INVARIANTS
  OneRecord
  ActiveIsComplete
  ReportHonest
  LeaksCounted
  DecisionStands
