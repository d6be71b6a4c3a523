CONSTANTS
  Clients = {c1, c2}
  Daemons = {d1, d2}
  NoDaemon = NoDaemon
  Nobody = Nobody
  MaxClients = 1
  MaxFaults = 2
SPECIFICATION FairSpec
CHECK_DEADLOCK FALSE
INVARIANTS
  DaemonInv
  LiveRunKeepsRow
PROPERTIES
  IdleExitSparesWork
  StartupConverges
  ImplementsSingleton
