CONSTANTS
  MaxTime = 2
  HourLen = 1
  DayLen = 2
  Percent = 2
  BackoffLimit = 1
  UnknownDelay = 1
  Readings = {0, 1}
  Profiles <- MCProfiles
  MaxCharge = 3
  MaxSince = 1
  MaxSessions = 2
  MaxSamples = 2
  MaxRevisions = 3
SPECIFICATION ChargesSpec
INVARIANTS AccountingReadable
PROPERTIES WorkAdmittedByRows
