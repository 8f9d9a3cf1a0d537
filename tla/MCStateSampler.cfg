CONSTANTS
  SampleWindow = 2
  RetryInterval = 3
  ClaimWindow = 2
  MaxWall = 4
  MaxElapsed = 5
  MaxTurns = 2
  Tickets = {1, 2}
SPECIFICATION Spec
CHECK_DEADLOCK FALSE
INVARIANTS SlotSound SourceScreened
