CONSTANTS
  None = None
  Users = {u1}
  Clients = {c1}
  Emails = {e1}
  Sessions = {s1}
  Authz = {a1}
  Redeems = {r1}
  Txs = {x1, x2}
  Trusted = {}
  Editors = {u1}
SPECIFICATION Spec
SYMMETRY Symmetry
INVARIANT AdmittedUnlessLate
PROPERTY WithdrawalCovers
