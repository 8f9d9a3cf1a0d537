SPECIFICATION Spec
CONSTANTS
  Times <- MCTimes
  DayLen = 4
  Work = 2
  Lease = 3
  StartupAllowance = 1
  NextAllowance = 2
  Limits <- MCLimits
  MaxCharge = 5
  MaxElapsed = 2
  MaxReservations = 4
INVARIANTS
    LedgerValid
    AttemptsCovered
    DailyLimit
    SettlementAccepted
    OneWorkWindow
PROPERTIES
    ChargesNeverRefunded
