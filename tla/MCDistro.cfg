SPECIFICATION Spec
CONSTANTS
  MaxInits = 2
  MaxShutdowns = 2
  MaxRequests = 1
  MaxRuns = 3
  RunsApart = TRUE
  Statuses = {200}
  Options <- MCOptions
  Setups <- MCSetups
  Inherited <- MCInherited
INVARIANTS
  WellFormed
  ShutdownLeavesNothing
  ReinitialisationIsServed
  LangChainRunsAreServed
  EachRequestReportedOnce
PROPERTIES
  ShutdownsSettle
CHECK_DEADLOCK FALSE
