CONSTANTS
  Users = {u1, u2, u3, bg}
  Breakglass = bg
  Requests = {r1, r2}
  None = None
SYMMETRY Symmetry
SPECIFICATION Spec
INVARIANTS TypeOK SetupOnce
PROPERTIES AdminStays BreakglassStays
CHECK_DEADLOCK FALSE
