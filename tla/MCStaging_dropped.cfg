CONSTANTS
  s1 = s1
  s2 = s2
  smith = smith
  n1 = n1
  None = None
  Staging = staging
  Files = {1, 2, 3}
  Doubtful = {3}
  Sessions = {s1}
  SessionOf <- OneUpload
  Taxpayer <- TwoOfThree
  DetectedYear <- TwoYears
  Match <- OneName
  Names = {n1}
  Edits = {e1, e2}
  Queueings = {q1}
SPECIFICATION Spec
INVARIANT PairedWithReturn
CHECK_DEADLOCK FALSE
