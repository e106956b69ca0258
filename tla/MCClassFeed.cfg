\* Two requests at a time, a rep and two students, one class at last; two posts that
\* may share a time, and pages of one.
CONSTANTS
  rep = rep
  ann = ann
  ben = ben
  Requests = {r1, r2}
  Users = {rep, ann, ben}
  Reps = {rep}
  Codes = {k1}
  MaxClasses = 2
  MaxJoins = 2
  MaxFaults = 1
  PostIds = {1, 2}
  PageSize = 1
  Times = {0, 1}
  MaxPins = 1
  MaxLost = 1
SPECIFICATION Spec
SYMMETRY Alike
INVARIANT CountExact
INVARIANT AnswersTrue
INVARIANT WalkComplete
INVARIANT PushesRight
CHECK_DEADLOCK FALSE
