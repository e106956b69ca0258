\* A unit is a quarter of an hour, so the lengths are the program's own; the
\* study window is 13 units of its 56.
CONSTANTS
  LastDay = 1
  StudyStart = 1
  StudyEnd = 14
  MinBlock = 2
  MaxBlock = 4
  DayBudget = 8
  UrgencyDays = 2
  LifeStart = 0
  LifeEnd = 14
  WeekDays = 3
  DayTicks = 4
  BusySets <- MCBusySets
  SubjectLists <- MCSubjectLists
  Replacements <- MCReplacements
  FixedLists <- MCFixedLists
  RoutineInputs <- MCRoutineInputs
  ReminderRuns <- MCReminderRuns
SPECIFICATION Solving
INVARIANT GenerateSound
INVARIANT ReplacementSound
INVARIANT LifeSound
INVARIANT RemindersSound
CHECK_DEADLOCK FALSE
