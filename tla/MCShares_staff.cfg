SPECIFICATION FairSpec
CONSTANTS
  None = None
  j1 = j1
  h1 = h1
  Jobs = {j1}
  Shares = {h1, h2}
  Requests = {r1}
  Ops = {"create", "reissue", "revoke", "link"}
  MaxSessions = 1
  MaxCodes = 1
  LockAt = 2
  CooldownEvery = 2
  MaxAccepted = 3
  MaxFailures = 1
CHECK_DEADLOCK FALSE
VIEW MCView
PROPERTIES
  ContactsForgotten
