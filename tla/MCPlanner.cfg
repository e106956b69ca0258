\* Two calls at a time and three in all, over a day of six units with blocks
\* of two, a timetable of one entry and one routine.
CONSTANTS
  LastDay = 0
  StudyStart = 0
  StudyEnd = 6
  MinBlock = 2
  MaxBlock = 2
  DayBudget = 4
  UrgencyDays = 1
  LifeStart = 0
  LifeEnd = 7
  Handlers = {h1, h2}
  Entries <- MCEntries
  Patches <- MCPatches
  RoutineLists <- MCRoutineLists
  Bodies <- MCBodies
  MaxEntries = 1
  MaxEdits = 2
  MaxCalls = 3
  MaxFaults = 1
SPECIFICATION Spec
INVARIANT PlanDisjoint
INVARIANT StoresWhole
INVARIANT TellsOnce
CHECK_DEADLOCK FALSE
