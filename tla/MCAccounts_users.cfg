CONSTANTS
  None = None
  Users = {u1, u2}
  Links = {b1, b2}
  Requests = {p1, p2}
SPECIFICATION FairSpec
PROPERTY DemotionKeepsOne
PROPERTY DeletionHappens
PROPERTY LastAdminLeaves
PROPERTY LinkMakesOne
PROPERTY ImplementsGracePeriod
CHECK_DEADLOCK FALSE
