CONSTANTS
  None = None
  Users = {u1}
  Clients = {c1}
  Emails = {e1}
  Sessions = {s1}
  Authz = {a1}
  Redeems = {r1}
  Txs = {x1}
  Trusted = {}
  Editors = {}
SPECIFICATION Spec
PROPERTY TokensDieWithSession
