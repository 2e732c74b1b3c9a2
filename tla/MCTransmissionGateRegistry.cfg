CONSTANTS
  MinFallbackDelay = 1
  MaxFallbackDelay = 2
  Tenants = {1, 2, 3}
  Sends = {s1, s2}
  Incarnations = {1, 2}
  Capacity = 1
  IdleTimeout = 2
  RetryAfters = {0}
  MaxTime = 4
  MaxGeneration = 1
  None = None
SYMMETRY SendSymmetry
SPECIFICATION Spec
INVARIANT RegistryInv
PROPERTIES NoSendDuringBackoff CapacityAfterEachCall
