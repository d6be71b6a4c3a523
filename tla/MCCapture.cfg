CONSTANTS
  Fresh = s0
  Known = {s1}
  MaxUpdates = 4
  MaxPending = 3
  MaxPerSession = 2
  MaxKeys = 2
  MaxBudget = 2
  MaxFaults = 1
  MaxTurns = 2
  None = None
SPECIFICATION Spec
CHECK_DEADLOCK FALSE
INVARIANTS
  CaptureInv
  UpdatesExactlyOnce
  PublicationHonest
  RefusedUpdateFailsTurn
PROPERTIES
  DrainComplete
