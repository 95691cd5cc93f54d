CONSTANTS
  Key = {1, 2}
  Value = {v1}
  Deleted = deleted
  CompactChunk = 1
  MaxBatch = 1
  MaxWrites = 4
  Faults = {"compact", "crash"}
  MaxFaults = 2
  MaxCompactions = 2
SPECIFICATION Spec
INVARIANT
  ReadsExact
CHECK_DEADLOCK FALSE
