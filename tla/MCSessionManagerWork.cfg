SPECIFICATION Spec
CONSTANTS
  s1 = s1
  s2 = s2
  s3 = s3
  p1 = p1
  p2 = p2
  Sessions <- MCSessions
  Providers <- MCProviders
  ProviderOf <- OneProvider
  Tasks = {t1}
  None = None
  Beside <- Apart
  Asks = {"open", "send"}
  Accesses = {"Shared"}
  MaxHot = 1
  MaxGeneration = 4
PROPERTIES WorkIsNotEvicted
