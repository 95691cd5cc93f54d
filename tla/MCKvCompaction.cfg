CONSTANTS
  Key = {1, 2}
  Value = {v1}
  Deleted = deleted
  CompactChunk = 1
  MaxBatch = 2
  MaxWrites = 4
  Faults = {"transaction", "compact", "crash"}
  MaxFaults = 1
  MaxCompactions = 2
SPECIFICATION Spec
INVARIANTS
  TypeOK
  ReadsExact
  CompactedRefused
  IncarnationKept
  IndexMatchesBackend
PROPERTY
  ImplementsAppliedStore
CHECK_DEADLOCK FALSE
