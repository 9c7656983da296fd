CONSTANTS
  s1 = s1
  s2 = s2
  smith = smith
  n1 = n1
  None = None
  Staging = staging
  Files = {1, 2, 3}
  Doubtful = {3}
  Sessions = {s1}
  SessionOf <- OneUpload
  Taxpayer <- TwoOfThree
  DetectedYear <- TwoYears
  Match <- OneName
  Names = {n1}
  Edits = {r1, r2}
  Queueings = {r2, r3}
SPECIFICATION FairSpec
INVARIANTS TypeOK JobHasFiles PairingConsistent StagedIsStored
PROPERTY StagingEmpties
CHECK_DEADLOCK FALSE
