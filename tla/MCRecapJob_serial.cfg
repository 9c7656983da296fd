SPECIFICATION Spec
CONSTANTS
  None = None
  s1 = s1  s2 = s2  e1 = e1  e2 = e2  c1 = c1
  Jobs = {j1}
  Workers = {w1}
  Requests = {r1}
  Ops = {"retry", "rerender", "edit", "regenerate", "reextract", "override", "exception",
         "approve", "reject", "release"}
  Scripts = {s1, s2}
  Extractions = {e1, e2}
  Checks = {c1}
  Accepts <- MCAccepts
  Traces <- MCTraces
  Mismatches <- MCMismatches
  MaxStalled = 1
  MaxQueue = 2
  MaxAccepted = 3
  MaxWorkerCrashes = 1
  MaxApiCrashes = 0
CHECK_DEADLOCK FALSE
VIEW MCView
INVARIANTS
  ApprovedIsCurrent
  NarratedIsVerified
PROPERTIES
  ImplementsLifecycle
  ReleasedIsLeft
