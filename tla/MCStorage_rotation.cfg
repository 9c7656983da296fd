CONSTANTS
  Blobs = {b1}
  Api = api
  Worker = worker
  None = None
  Zeroed = Zeroed
  MaxMaster = 1
  MaxStops = 0
SYMMETRY Symmetry
SPECIFICATION Spec
INVARIANTS AlwaysFinal
CHECK_DEADLOCK FALSE
