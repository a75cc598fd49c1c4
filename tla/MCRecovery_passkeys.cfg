CONSTANTS
  None = None
  Creds = {k1, k2, k3}
  Recoveries = {i1, i2}
  Sessions = {s1}
  Requests = {p1, p2}
SPECIFICATION FairSpec
INVARIANT OneRecoveryUnderway
INVARIANT ReplacementWaits
INVARIANT RevokedPasskeySignsOut
PROPERTY RecoveryEnds
PROPERTY LastPasskeyGoes
PROPERTY ImplementsGracePeriod
