SPECIFICATION S3LeaseSpec
CONSTANTS
  Owners = {w1, w2}
  NoOwner = NoOwner
  Duration = 2
  Skew = 1
  MaxTries = 2
  MaxTime = 4
SYMMETRY Symmetric
CHECK_DEADLOCK FALSE
INVARIANTS
  LeaseTypeOK
  LeaseExclusion
  LostMeansExpired
PROPERTIES
  SupersededStaysOut
  ImplementsLeaseLock
