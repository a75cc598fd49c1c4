CONSTANTS
  None = None
  Servers = {s1}
  Operators = {o1}
  token = token
  code = code
  link = link
  Rows = {token, code, link}
  Table <- RowTable
  Latest = 2
  MaxFaults = 3
SPECIFICATION FairSpec
INVARIANT OnceInOrder
INVARIANT PastMigrateSeesAll
INVARIANT RestoredIsDead
PROPERTY ServersServe
CHECK_DEADLOCK FALSE
