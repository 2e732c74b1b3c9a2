SPECIFICATION Spec
CONSTANTS
  Runs <- MCRuns
  MaxRuns = 3
  MaySuppress <- MCMaySuppress
  NewFlags = {FALSE}
  OneFramework = TRUE
  AgentsSpans <- MCAgentsSpans
  MaxSpans = 4
  MaxHandoffs = 1
  SuppressInput = FALSE
  Objects <- MCObjects
  Turns <- MCTurns
  Scopes <- MCScopes
  Sends <- MCSends
  Hostings <- MCHostings
INVARIANTS
  OpenSpansAreTracked
  IdentitiesAreTrue
PROPERTIES
  LineageIsTrue
  RecordsAreFaithful
CHECK_DEADLOCK FALSE
