CONSTANTS
  Users = {u1}
  Sessions = {s1, s2}
  Tokens = {t1}
  Requests = {r1, r2}
  None = None
  MaxFailures = 2
  MaxPassword = 2
SYMMETRY Symmetry
SPECIFICATION Spec
INVARIANTS TypeOK TokenUsedOnce OldSessionsEnd
CHECK_DEADLOCK FALSE
