SPECIFICATION Spec
CONSTANTS
  None = None
  j1 = j1
  h1 = h1
  Jobs = {j1}
  Shares = {h1}
  Requests = {r1}
  Ops = {"create", "link"}
  MaxSessions = 1
  MaxCodes = 1
  LockAt = 2
  CooldownEvery = 2
  MaxAccepted = 2
  MaxFailures = 0
CHECK_DEADLOCK FALSE
VIEW MCView
INVARIANT
  NothingKept
