\* The same day, and a PATCH of an entry's start time alone.
CONSTANTS
  LastDay = 0
  StudyStart = 0
  StudyEnd = 6
  MinBlock = 2
  MaxBlock = 2
  DayBudget = 4
  UrgencyDays = 1
  LifeStart = 0
  LifeEnd = 7
  Handlers = {h1}
  Entries <- MCEntries
  Patches <- MCInvertedPatches
  RoutineLists <- MCRoutineLists
  Bodies <- MCBodies
  MaxEntries = 1
  MaxEdits = 2
  MaxCalls = 1
  MaxFaults = 0
SPECIFICATION Spec
INVARIANT PlanDisjoint
CHECK_DEADLOCK FALSE
