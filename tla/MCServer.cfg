CONSTANTS
  Key = {1, 2}
  Value = {v1}
  Deleted = deleted
  CompactChunk = 1
  MaxBatch = 2
  MaxWrites = 3
  Faults = {"compact", "crash"}
  MaxFaults = 2
  MaxCompactions = 1
  CompactLag = 1
SPECIFICATION ServerSpec
INVARIANTS
  ServerTypeOK
  ToldReadable
  LogCoversStore
  OpensOwnLog
CHECK_DEADLOCK FALSE
