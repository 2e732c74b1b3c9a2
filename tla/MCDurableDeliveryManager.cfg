CONSTANTS
  Records = {1, 2}
  Tenants = {1, 2}
  Scenarios <- BothScenarios
  NoToken = {1}
  MaxReplayBatchSize = 2
  ScanFactor = 2
  NoAnswer = NoAnswer
  NoRecord = NoRecord
SPECIFICATION Spec
INVARIANTS ManagerInv ShutdownIsQuiet FlushCoversDeliveries
PROPERTIES AtLeastOnce HealthyRecordsLeave
CHECK_DEADLOCK FALSE
