CONSTANTS
  None = None
  Users = {u1, u2, u3}
  Start = {u1, u2}
  Challenges = {c1, c2, c3}
  Finishes = {f1, f2, f3}
  Mails = {m1, m2}
SYMMETRY Symmetry
SPECIFICATION Spec
INVARIANT MadeAsBegun
PROPERTY RestoredStartsClean
PROPERTY ImplementsOneTimeGrant
PROPERTY ImplementsGracePeriod
CHECK_DEADLOCK FALSE
