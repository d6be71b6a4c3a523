CONSTANTS
  Convs = {c1, c2}
  Runs = {t1, t2, t3}
  NoConv = NoConv
  NoTask = NoTask
  Agents = {a1}
  AgentOf <- OneAgent
  Kinds = {"send", "cancel", "delete", "external"}
  StoreFaults = {"begin", "refresh", "create", "message", "worker", "mark", "rollback", "sleeping", "expire", "close_run", "close_local", "delete_local", "ext_create", "ext_cas"}
  ClientAborts = TRUE
  MaxCrashes = 0
SYMMETRY Symmetry
SPECIFICATION Spec
INVARIANTS
  LeaseExclusive
  OneTurnPerAgent
  CurrentRunOwned
