\* Two overlapping handlers of one user: is a refresh token exchanged once?
CONSTANTS
  Users = {u1}
  Requests = {r1, r2}
  MaxSessions = 3
SPECIFICATION Spec
INVARIANT ExchangedOnce
