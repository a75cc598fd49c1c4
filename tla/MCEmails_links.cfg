CONSTANTS
  Null = Null
  Users = {u1, u2}
  Emails = {e1, e2, e3}
  Links = {l1, l2, l3}
  Requests = {p1, p2}
SYMMETRY Symmetry
SPECIFICATION EmailsSpec
INVARIANT EmailsTypeOK
INVARIANT ProvenAddress
PROPERTY LoserIsTold
CHECK_DEADLOCK FALSE
