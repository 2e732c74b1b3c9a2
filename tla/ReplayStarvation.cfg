CONSTANTS
  Records = {1, 2}
  Tenants = {1, 2}
  Scenarios <- OnlyOneEach
  NoToken = {1}
  MaxReplayBatchSize = 1
  ScanFactor = 2
  NoAnswer = NoAnswer
  NoRecord = NoRecord
SPECIFICATION Spec
PROPERTY HealthyRecordsLeave
CHECK_DEADLOCK FALSE
