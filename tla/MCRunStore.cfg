CONSTANTS
  Convs = {c1}
  Runs = {r1, r2}
  NoConv = NoConv
SYMMETRY Symmetry
SPECIFICATION StoreSpec
INVARIANTS
  StoreConsistent
  OneActiveRun
PROPERTIES
  StatusKept
  TerminalRunsFrozen
  OriginNeverDowngraded
