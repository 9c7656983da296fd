CONSTANTS
  Blobs = {b1}
  Api = api
  Worker = worker
  None = None
  Zeroed = Zeroed
  MaxMaster = 0
  MaxStops = 4
SYMMETRY Symmetry
SPECIFICATION Spec
INVARIANTS AlwaysRecoverable
CHECK_DEADLOCK FALSE
