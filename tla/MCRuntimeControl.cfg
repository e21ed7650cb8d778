SPECIFICATION Spec
CONSTANTS
  None = None
  Boots = {b1, b2}
  Requests = {r1, r2}
  Integrations = {i1, i2}
  Sessions = {s1}
  Methods = {"acquire", "renew", "release", "forget", "submit", "approve", "cool", "start", "resume"}
  Window = 1
  Skew = 1
  Lifetime = 1
  Rows = 1
  MaxTime = 2
  MaxTokens = 2
  MaxStreams = 2
SYMMETRY SameNames
INVARIANTS TypeOK LeaseNamesItsProcess RepeatedOnlyIfEarly OutcomesAreTrue
PROPERTIES ControlPassesFairly
CHECK_DEADLOCK FALSE
