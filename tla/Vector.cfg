CONSTANTS
  MaxInc = 2
  Faults = {"create", "delete", "analytics", "peer", "project", "nodes", "rbac", "restart", "api"}
  MaxFaults = 2
  MaxStale = 0
SPECIFICATION FairSpec
INVARIANT TypeOK
INVARIANT NoOrphanedRBAC
PROPERTY EventuallySettled
CHECK_DEADLOCK FALSE
