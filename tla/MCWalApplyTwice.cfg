CONSTANTS
  None = None
  Width <- MCWidth
  Request = {w1, w2}
  Checkpoint = {c1}
  Wide = {}
  Unencodable = {}
  SegmentLimit = 2
  CheckpointInterval = 3
  MaxBatch = 2
  QueueDepth = 2
  Faults = {"apply"}
  MaxFaults = 1
  MaxRestarts = 1
SPECIFICATION Spec
INVARIANTS
  AppliedOnce
