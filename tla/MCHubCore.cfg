CONSTANTS
  Convs = {c1}
  Runs = {t1, t2, t3}
  NoConv = NoConv
  NoTask = NoTask
  Agents = {a1}
  AgentOf <- OneAgent
  Kinds = {"send", "set", "cancel", "close", "delete", "bind", "external"}
  StoreFaults = {}
  ClientAborts = FALSE
  MaxCrashes = 1
SYMMETRY Symmetry
SPECIFICATION Spec
INVARIANTS
  WorkOwned
  HubMatchesStore
PROPERTIES
  ImplementsTurns
