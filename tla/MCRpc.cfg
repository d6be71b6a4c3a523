CONSTANTS
  k1 = k1
  k2 = k2
  r1 = r1
  r2 = r2
  p1 = p1
  Nothing = Nothing
  Conns = {k1, k2}
  Reqs = {r1, r2}
  Pushes = {p1}
  ConnOf <- MCConnOf
  Mutate = {r2}
  Long = {r1}
  Failing = {r2}
  Oversized = {r1}
  HugeId = {r1}
  PerClient = 1
  Global = 1
  FrameSlots = 1
  RequestBytes = 2
  ResponseBytes = 1
  FallbackBytes = 1
  PipeCap = 1
  MaxGone = 1
SPECIFICATION FairSpec
CHECK_DEADLOCK FALSE
INVARIANTS
  RpcInv
  OutcomeHonest
PROPERTIES
  CallsReturn
