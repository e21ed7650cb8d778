SPECIFICATION Spec
CONSTANTS
  None = None
  Generations = {g1, g2}
  Sessions = {s1}
  Terminals = {t1, t2}
  Natives = {n1}
  Stored = {}
  Folders = {f1}
  Patience = 2
  Rechecks = FALSE
  MaxWork = 2
  Crashes = TRUE
  Unreadable = FALSE
SYMMETRY SameNames
INVARIANTS TypeOK ClaimsAreTrue SoleOwner
PROPERTIES HandoverHolds BarrierRunsOut
CHECK_DEADLOCK FALSE
