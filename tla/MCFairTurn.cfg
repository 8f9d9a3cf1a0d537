CONSTANTS
  RootCount = 3
  MaxWall = 4
  DayLen = 4
  Interval = 1
  Limits = {1, 2}
  ClaimWindow = 2
  RecoveryDelay = 2
  BackoffLimit = 1
  Percent = 2
  Measured <- MCMeasured
  Dues = {3, 5}
SPECIFICATION Spec
INVARIANTS
    WorkAccounted
    EligibleRootsServed
PROPERTIES
    ReceiptsPaced
    BackoffServed
