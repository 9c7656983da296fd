SPECIFICATION FairSpec
CONSTANTS
  c1 = c1
  Jobs = {j1}
  Clients = {c1}
  ClientOf <- MCClientOf
  Kinds = {"source", "video"}
  Users = {u1}
  Hourly = {r1}
  Manual = {r1}
  None = None
  Windows = {0, 1}
  HoldDays = 1
  Statuses = {"failed", "released"}
  MaxDay = 1
  MaxVersions = 1
  MaxRetries = 1
  MaxChanges = 1
  MaxFailures = 1
INVARIANTS
  TypeOK
  HoldsRespected
  PurgedIsShredded
PROPERTY DueIsPurged
CHECK_DEADLOCK FALSE
