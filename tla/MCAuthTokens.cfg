\* Two users, one of them registered by Google, two overlapping handlers.
CONSTANTS
  Users = {u1, u2}
  GoogleUsers = {u2}
  Requests = {r1, r2}
  MaxTokens = 2
SPECIFICATION Spec
SYMMETRY Symmetry
INVARIANT TypeOK
INVARIANT IssueSupersedes
INVARIANT EffectsOwned
INVARIANT RedeemedTakesEffect
PROPERTY DeadStaysDead
