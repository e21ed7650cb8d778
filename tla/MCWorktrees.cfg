SPECIFICATION Spec
CONSTANTS
  None = None
  Runtimes = {g1, g2}
  Worker = Worker
  Resumes = {t1, t2}
  Sessions = {s1, s2}
  Kinds = {"chat", "worker"}
  Keepers = TRUE
SYMMETRY SameNames
INVARIANTS TypeOK OccupancyIsTrue RowIsTrue
PROPERTIES RemovedOnlyWhenVacant
CHECK_DEADLOCK FALSE
