CONSTANTS
  auth = auth
  envoy = envoy
  rest = rest
  rest2 = rest2
  storage = storage
  an1 = an1
  an2 = an2
  p1 = p1
  p2 = p2
  db = db
  Objs = {auth, envoy, rest, rest2, storage, an1, an2}
  KindOf <- MCKindOf
  ProjectOf <- MCProjectOf
  DatabaseOf <- MCDatabaseOf
  Worlds <- MCWorlds
  MaxInc = 2
  MaxStale = 0
SPECIFICATION FairSpec
INVARIANT TypeOK
INVARIANT AtMostOneActs
INVARIANT NoLostWakeup
PROPERTY ConflictsStop
PROPERTY EventuallySettled
CHECK_DEADLOCK FALSE
