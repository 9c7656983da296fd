SPECIFICATION MCLinkedSpec
CONSTANTS
  None = None
  j1 = j1
  h1 = h1
  Jobs = {j1}
  Shares = {h1}
  Requests = {r1, r2}
  Ops = {"code", "verify", "watch", "delivered"}
  MaxSessions = 1
  MaxCodes = 1
  LockAt = 2
  CooldownEvery = 2
  MaxAccepted = 4
  MaxFailures = 1
CHECK_DEADLOCK FALSE
VIEW MCView
SYMMETRY MCSymmetry
INVARIANTS
  TypeOK
  SessionsCapped
  CodesCapped
  WatchIsDelivery
