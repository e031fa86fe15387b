CONSTANTS
  Exps = {e1}
  NoExp = NoExp
  MaxPw = 2
  Faults = {"rotate", "crash", "flap", "restart", "api", "evict"}
  MaxFaults = 2
  MaxStale = 0
SPECIFICATION Spec
INVARIANT NoLostWakeup
CHECK_DEADLOCK FALSE
