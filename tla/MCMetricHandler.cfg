CONSTANTS
  e1 = e1
  e2 = e2
  Etags = {e1, e2}
  NoEtag = NoEtag
  None = None
  MaxPosts = 1
  MaxChains = 2
  MaxValue = 1000
  DocumentLimit = 1
  MaxItems = 2
  Numbers <- MCNumbers
  Timestamps <- MCTimestamps
  Paths <- MCPaths
  Configurations <- MCConfigurations
  Spans <- MCSpans
  Logs <- MCLogs
SPECIFICATION HandlerSpec
INVARIANTS ProviderOnlyWhileSubscribed NeverAsleep ReportsOwnConfiguration RatesAreExact DerivedMetricsAreExact
PROPERTIES SubscriptionTakesEffect
CHECK_DEADLOCK FALSE
