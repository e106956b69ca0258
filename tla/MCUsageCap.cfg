\* Two overlapping handlers around the turn of a month of three seconds.
CONSTANTS
  Requests = {r1, r2}
  Limit = 2
  TicksPerSecond = 2
  MonthLength = 6
  MaxTime = 7
  MaxAttempts = 3
  MaxFaults = 1
SPECIFICATION Spec
SYMMETRY Symmetry
INVARIANT TypeOK
INVARIANT CapUntilLastSecond
INVARIANT CounterCoversGrants
INVARIANT ExpiryFollows
CHECK_DEADLOCK FALSE
