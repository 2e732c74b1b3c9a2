CONSTANTS
  Keys = {k1}
  Calls = {c1, c2}
  MaxCacheSize = 1
  MaxRetries = 1
  Skew = 1
  MaxTokenAge = 2
  MaxExp = 2
  Lifetimes = {2}
  MaxTime = 3
  None = None
SPECIFICATION Spec
INVARIANT FallbackTtl
CHECK_DEADLOCK FALSE
