CONSTANTS
  Key = {1, 2}
  Value = {v1}
  Deleted = deleted
  CompactChunk = 1
  MaxBatch = 1
  MaxWrites = 3
  Faults = {"crash"}
  MaxFaults = 1
  MaxCompactions = 1
  CompactLag = 0
SPECIFICATION ServerSpec
INVARIANTS
  ToldApart
CHECK_DEADLOCK FALSE
