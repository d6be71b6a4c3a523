CONSTANTS
  Agents = {a1}
  Chained = {a1}
  Confs = {f1, f2}
  NoConf = NoConf
  ProxyConfs = {p1, p2}
  Tasks = {t1, t2}
  NoTask = NoTask
  Mutator = Mutator
  Conns = {k1, k2}
  NoConn = NoConn
  Kinds = {"op", "query"}
  ClientAborts = TRUE
  MaxMutations = 1
SYMMETRY Symmetry
SPECIFICATION Spec
INVARIANTS
  RegistryInv
  CommandsCurrent
  ServedIsDisk
PROPERTIES
  NoCommitUnderCommand
