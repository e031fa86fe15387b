CONSTANTS
  b1 = b1
  b2 = b2
  NoHash = NoHash
  NoName = NoName
  Migrations = {m1}
  MaxInc = 1
  Batches = {b1}
  BatchOf <- SameBatch
  N = 1
  Rerunnable = {b1}
  BackoffLimit = 2
  Faults = {"flap"}
  MaxFaults = 1
SPECIFICATION FairSpec
PROPERTY ReasonIsCurrent
CHECK_DEADLOCK FALSE
