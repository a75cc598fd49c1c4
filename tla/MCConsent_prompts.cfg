CONSTANTS
  Null = Null
  Requests = {a1, a2}
  Scopes = {s1}
  Asks <- Asked
SPECIFICATION ConsentFairSpec
INVARIANT PromptsKept
INVARIANT OneSubject
PROPERTY SilentOnlyAgreed
PROPERTY RequestsEnd
CHECK_DEADLOCK FALSE
