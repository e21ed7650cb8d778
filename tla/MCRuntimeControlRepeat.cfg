SPECIFICATION Spec
CONSTANTS
  None = None
  Boots = {b1, b2}
  Requests = {r1}
  Integrations = {i1, i2}
  Sessions = {s1}
  Methods = {"acquire", "renew", "release", "forget", "submit", "approve", "cool", "start", "resume"}
  Window = 1
  Skew = 1
  Lifetime = 1
  Rows = 2
  MaxTime = 4
  MaxTokens = 2
  MaxStreams = 2
SYMMETRY SameNames
INVARIANT NeverRepeated
CHECK_DEADLOCK FALSE
