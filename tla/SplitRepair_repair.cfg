SPECIFICATION Spec
CONSTANTS
  PageCount <- N
  Stamps <- MCStamps
  Apps <- MCApps
  LeastFolio = 1
  Books <- MCBooks
CHECK_DEADLOCK FALSE
INVARIANTS
  CourtKept
  PetitionKept
  IndexHolds
  ClearIsWhole
