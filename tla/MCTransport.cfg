CONSTANTS
  i1 = i1
  c1 = c1
  n1 = n1
  n2 = n2
  q1 = q1
  q2 = q2
  s1 = s1
  None = None
  In <- Messages
  Kind <- KindOf
  Ident <- IdentOf
  Size <- SizeOf
  ReqId <- IdOf
  StreamOf <- StreamFor
  Trigger <- TriggerOf
  Opens <- OpensFor
  Script <- Prompting
  Legs = {"stdio", "ws", "http"}
  Proxied = TRUE
  MaxFrames = 4
  MaxBytes = 4
  MaxRequests = 1
  MaxSse = 2
  SseDepth = 1
  MaxPosts = 1
SPECIFICATION FairSpec
CHECK_DEADLOCK FALSE
INVARIANTS
  BudgetsExact
  NeverUndercounts
  WithinLimitsKept
PROPERTIES
  CallbacksAnswered
