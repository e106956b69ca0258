\* Two users' handlers and two overlapping sweeps over two uploads.
CONSTANTS
  Requests = {r1, r2}
  Sweeps = {w1, w2}
  Images <- MCImages
  MaxBytes = 2
  MaxDimension = 3
  AbandonedTTL = 1
  SweepCap = 1
  MaxUploads = 2
  LastUpload = 1
  MaxTime = 3
  MaxFaults = 2
SPECIFICATION FairSpec
INVARIANT TypeOK
INVARIANT DocsBacked
INVARIANT OrphansExplained
PROPERTY EventuallyErased
CHECK_DEADLOCK FALSE
