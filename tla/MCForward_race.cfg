CONSTANTS
  None = None
  Users = {u1}
  Hosts = {h1, h2}
  Emails = {e1}
  Sessions = {s1}
  Tickets = {t1}
  Cookies = {k1, k2}
  Requests = {v1}
  Txs = {x1, x2}
  Editors = {u1}
SPECIFICATION Spec
SYMMETRY Symmetry
INVARIANT AdmittedUnlessLate
PROPERTY ImplementsOneTimeGrant
PROPERTY PassNeedsOwnTicket
PROPERTY SignedOutIsOut
