CONSTANTS
  Convs = {c1}
  Runs = {t1, t2, t3}
  NoConv = NoConv
  NoTask = NoTask
  Agents = {a1}
  AgentOf <- OneAgent
  Kinds = {"send", "cancel"}
  StoreFaults = {}
  ClientAborts = FALSE
  MaxCrashes = 0
SPECIFICATION HubFairSpec
INVARIANTS
  CancelTidy
PROPERTIES
  CancelResolves
