\* A mail, or a push to a user with up to two devices, which another user may
\* take over (mails and pushes share nothing but the queue); two attempts before the dead letter and one more in the queue.
CONSTANTS
  e1 = e1
  p1 = p1
  u1 = u1
  u2 = u2
  EmailJobs = {e1}
  PushJobs = {p1}
  Users = {u1, u2}
  Recipient <- MCRecipient
  Devices = {d1, d2}
  NoUser = NoUser
  MaxTries = 2
  QueueTries = 3
  MaxJobs = 1
  MaxMoves = 3
SPECIFICATION FairSpec
INVARIANT TypeOK
INVARIANT MarkedNotMailed
INVARIANT DroppedAfterDeaths
INVARIANT PushesToOwnDevices
PROPERTY KeepsPromise
CHECK_DEADLOCK FALSE
