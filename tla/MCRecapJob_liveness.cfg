SPECIFICATION FairSpec
CONSTANTS
  None = None
  s1 = s1  s2 = s2  e1 = e1  e2 = e2  c1 = c1
  Jobs = {j1}
  Workers = {w1}
  Requests = {r1, r2}
  Ops = {"retry", "revise"}
  Scripts = {s1, s2}
  Extractions = {e1, e2}
  Checks = {c1}
  Accepts <- MCAccepts
  Traces <- MCTraces
  Mismatches <- MCMismatches
  MaxStalled = 1
  MaxQueue = 2
  MaxAccepted = 2
  MaxWorkerCrashes = 1
  MaxApiCrashes = 0
CHECK_DEADLOCK FALSE
PROPERTIES
  EveryRunSettles
