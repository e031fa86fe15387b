CONSTANTS
  Exps = {e1, e2}
  NoExp = NoExp
  MaxPw = 2
  Faults = {"edit", "toggle", "migration", "flap", "restart", "api", "crash", "evict"}
  MaxFaults = 1
  MaxStale = 1
SPECIFICATION Spec
INVARIANT TypeOK
INVARIANT JwtHashSound
INVARIANT ReadyIsPrepared
SYMMETRY Expiries
CHECK_DEADLOCK FALSE
