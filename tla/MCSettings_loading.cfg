SPECIFICATION FairSpec
CONSTANTS
  None = None
  t1 = t1  t2 = t2  b1 = b1  u1 = u1  u2 = u2  r1 = r1  r2 = r2
  Users = {u1, u2}
  Admins0 = {u1, u2}
  Tabs = {t1, t2}
  Browsers = {b1}
  BrowserOf <- MCBrowserOf
  Tab0 = t1
  User0 = u1
  Requests = {r1, r2}
  PageReads <- MCReads
  PageCommands <- MCCommands
  NeedsAdmin <- MCNeedsAdmin
  UserOps = {"disable", "reset"}
  MaxSessions = 2
  MaxSent = 2
  MaxLosses = 1
  Values <- MCValues
  Stored0 <- MCStored
  Environment <- MCEnvironment
  Imports = {}
  Profiles = {"p1"}
  Groups = {}
CHECK_DEADLOCK FALSE
PROPERTY LoadingEnds
