CONSTANTS
  b1 = b1
  b2 = b2
  NoHash = NoHash
  NoName = NoName
  Migrations = {m1}
  MaxInc = 2
  Batches = {b1, b2}
  BatchOf <- NewBatch
  N = 1
  Rerunnable = {b1}
  BackoffLimit = 2
  Faults = {"delete", "crash", "evict", "api"}
  MaxFaults = 2
SPECIFICATION Spec
INVARIANT StatusSound
PROPERTY NeverAdopt
CHECK_DEADLOCK FALSE
