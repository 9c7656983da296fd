CONSTANTS
  Blobs = {b1, b2}
  Api = api
  Worker = worker
  None = None
  Zeroed = Zeroed
  MaxMaster = 1
  MaxStops = 1
SYMMETRY Symmetry
SPECIFICATION Spec
INVARIANTS TypeOK Recoverable Queueable ShredIsFinal QuarantinedIsUnnamed
CHECK_DEADLOCK FALSE
