SPECIFICATION Spec
CONSTANTS
  s1 = s1
  s2 = s2
  s3 = s3
  p1 = p1
  p2 = p2
  Sessions <- MCSessions
  Providers = {p1}
  ProviderOf <- OneProvider
  Tasks = {t1, t2}
  None = None
  Beside <- Everywhere
  Asks = {"open", "close", "send", "clean", "update"}
  Accesses = {"Shared", "Exclusive"}
  MaxHot = 2
  MaxGeneration = 4
SYMMETRY SameTasksAndSessions
INVARIANTS TypeOK HoldsAreExact ProcessesAreExact ChangesRunAlone
PROPERTIES WriterAlone
VIEW WithoutHistory
