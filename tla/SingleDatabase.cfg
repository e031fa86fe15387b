CONSTANTS
  Pods = {p1, broken}
  Broken = {broken}
  Claims = {c1, c2}
  NoClaim = NoClaim
  Faults = {"rotate", "pod", "storage", "delete", "restart", "api", "crash", "evict"}
  MaxFaults = 2
  MaxStale = 1
SPECIFICATION FairSpec
INVARIANT TypeOK
INVARIANT RunningIsCurrent
INVARIANT ReadyIsInitialised
INVARIANT NoLostWakeup
PROPERTY ImplementsDatabase
PROPERTY EventuallyCurrent
CHECK_DEADLOCK FALSE
