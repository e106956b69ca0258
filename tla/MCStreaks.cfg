\* One pair, two overlapping handlers, days of two ticks.
CONSTANTS
  Pairs <- OnePair
  Requests = {r1, r2}
  DayLength = 2
  StaleWindow = 4
  Milestone = 2
  Award = 1
  Thresholds = {1, 2}
  MaxTime = 7
  MaxCrashes = 1
SPECIFICATION Spec
SYMMETRY Symmetry
INVARIANT TypeOK
INVARIANT MutualOptIn
INVARIANT OncePerDay
INVARIANT StreakCountsLog
INVARIANT AwardsAddUp
INVARIANT RankNotAhead
CHECK_DEADLOCK FALSE
