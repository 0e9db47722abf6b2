SPECIFICATION Spec
CONSTANTS
  Ceiling = 3
  Narrow = 2
  Room = 3
  TopK = 2
  Cases <- MCCases
CHECK_DEADLOCK FALSE
INVARIANT TextInspected
