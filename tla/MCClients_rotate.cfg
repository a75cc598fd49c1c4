CONSTANTS
  None = None
  Forms = {f1, f2}
  Rotations = {r1, r2, r3}
  Emails = {e1}
  Overlap = 1
  MaxTime = 3
SPECIFICATION Spec
SYMMETRY Symmetry
INVARIANT OneUnending
INVARIANT SupersededDies
INVARIANT ShownServes
INVARIANT ShownIsListed
CHECK_DEADLOCK FALSE
