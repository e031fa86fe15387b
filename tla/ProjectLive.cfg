CONSTANTS
  Exps = {e1, e2}
  NoExp = NoExp
  MaxPw = 2
  Faults = {"rotate", "edit", "toggle", "migration", "flap", "restart", "api", "crash", "evict"}
  MaxFaults = 1
  MaxStale = 0
SPECIFICATION LiveSpec
PROPERTY EventuallyInSync
CHECK_DEADLOCK FALSE
