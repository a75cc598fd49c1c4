CONSTANTS
  None = None
  Keys = {k1, k2}
  Callers = {g1, g2}
  Limit = 2
  Duration = 2
  Cap = 1
  MaxTime = 6
  MaxCount = 3
SPECIFICATION Spec
SYMMETRY Symmetry
PROPERTY ImplementsFixedWindow
PROPERTY RefusedForCause
CHECK_DEADLOCK FALSE
