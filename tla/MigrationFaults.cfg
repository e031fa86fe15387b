CONSTANTS
  b1 = b1
  b2 = b2
  NoHash = NoHash
  NoName = NoName
  Migrations = {m1}
  MaxInc = 1
  Batches = {b1}
  BatchOf <- SameBatch
  N = 2
  Rerunnable = {b1}
  BackoffLimit = 2
  Faults = {"crash", "evict", "flap", "restart", "api", "delete"}
  MaxFaults = 2
SPECIFICATION FairSpec
INVARIANT TypeOK
INVARIANT StatusSound
INVARIANT RecordedIsComplete
INVARIANT NoLostWakeup
PROPERTY AppliedOnce
PROPERTY EventuallyApplied
CHECK_DEADLOCK FALSE
