CONSTANTS
  Size <- MCSize
  PageRows = 1
  PageBytes = 3
  MaxRows = 2
  MaxUpdates = 3
  MaxLoads = 2
  MaxRuns = 2
  MaxFaults = 1
  None = None
SPECIFICATION Spec
CHECK_DEADLOCK FALSE
PROPERTIES
  HistoryStable
  ReadsWhole
  ImplementsLayers
