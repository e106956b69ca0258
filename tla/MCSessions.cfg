\* Two users, two concurrent handlers, up to three sessions.
CONSTANTS
  Users = {u1, u2}
  Requests = {r1, r2}
  MaxSessions = 3
SPECIFICATION Spec
INVARIANT TypeOK
INVARIANT RotationOrder
INVARIANT OneExchangePerHandler
INVARIANT CondemnedStayDead
PROPERTY FamilyLifecycle
SYMMETRY Symmetry
