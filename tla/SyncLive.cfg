SPECIFICATION LiveSpec
CONSTANTS
  None = None
  r1 = r1
  r2 = r2
  Users = {u1, u2}
  NumMessages = 1
  MaxBatch = 1
  MaxErrors = 0
  MaxCancels = 1
  MaxCrashes = 0
INVARIANT SyncAccounted
PROPERTIES
  CatchesUp
  JobTerminates
