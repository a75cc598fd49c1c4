CONSTANTS
  None = None
  Users = {u1}
  Clients = {c1, c2}
  Emails = {}
  Sessions = {s1}
  Authz = {a1}
  Redeems = {r1, r2}
  Txs = {x1}
  Trusted = {c1}
  Editors = {}
SPECIFICATION Spec
SYMMETRY Symmetry
INVARIANT TokenStaysWithClient
PROPERTY ImplementsOneTimeGrant
