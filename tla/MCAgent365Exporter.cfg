CONSTANTS
  Exports = {1, 2, 3}
  Batch <- Batches
  GroupsOf <- BatchGroups
  Chunks <- ChunkCounts
  MaxRetries = 1
  MaxPayloadBytes = 390000
SPECIFICATION Spec
INVARIANTS CleanShutdown SuccessIsComplete PayloadsFit
  SpansAreCutAsNeeded
PROPERTIES EverythingEnds
CHECK_DEADLOCK FALSE
