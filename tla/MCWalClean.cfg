CONSTANTS
  None = None
  Width <- MCWidth
  Request = {w1, w2, w3, w4}
  Checkpoint = {}
  Wide = {w2}
  Unencodable = {w4}
  SegmentLimit = 2
  CheckpointInterval = 3
  MaxBatch = 2
  QueueDepth = 2
  Faults = {"create", "write", "flush", "remove"}
  MaxFaults = 1
  MaxRestarts = 2
SPECIFICATION Spec
SYMMETRY WriteSymmetry
INVARIANTS
  RevisionsHold
  AppliedOnce
  RefusedInvisible
  ReopensAfterCrash
  NamesFree
  SeenSurvives
PROPERTY
  ImplementsDurableLog
