\* Two generations, so that listings can be told apart and can repeat one; three
\* listings, so that a request is interrupted and a later one runs to its end.
CONSTANTS
  ClockReadings = {1, 2}
  MaxChildren = 2
  MaxRequests = 2
  MaxPasses = 3
SPECIFICATION RefreshSpec
INVARIANT CompletedPass
