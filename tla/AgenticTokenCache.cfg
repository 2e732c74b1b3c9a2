CONSTANTS
  Keys = {k1, k2}
  Calls = {c1, c2, c3}
  MaxCacheSize = 1
  MaxRetries = 1
  Skew = 1
  MaxTokenAge = 2
  MaxExp = 2
  Lifetimes = {1, 3}
  MaxTime = 3
  None = None
SPECIFICATION Spec
INVARIANTS LimitsAreKept OneExchangePerKey InvalidateAllIsFinal
PROPERTIES RefreshesEnd
CHECK_DEADLOCK FALSE
