CONSTANTS
  Sessions = {s1, s2}
  Terms = {x1, x2}
  MaxSession = 1
  MaxGlobal = 1
  Attempts = 2
  MaxFaults = 2
  MaxOps = 2
  None = None
SPECIFICATION FairSpec
CHECK_DEADLOCK FALSE
INVARIANTS
  TerminalsInv
PROPERTIES
  WaitReturns
