CONSTANTS
  Exps = {e1}
  NoExp = NoExp
  MaxPw = 2
  Faults = {"crash"}
  MaxFaults = 1
  MaxStale = 0
SPECIFICATION FairSpec
PROPERTY RunsAgain
CHECK_DEADLOCK FALSE
