CONSTANTS
  None = None
  Width <- MCWidth
  Request = {w1, w2, w3}
  Checkpoint = {c1}
  Wide = {}
  Unencodable = {}
  SegmentLimit = 1
  CheckpointInterval = 2
  MaxBatch = 1
  QueueDepth = 1
  Faults = {"create", "write", "rewind", "sync", "apply", "flush", "remove", "open"}
  MaxFaults = 1
  MaxRestarts = 1
SPECIFICATION FairSpec
INVARIANTS
  CheckpointFindsSealed
  LogBounded
PROPERTIES
  EveryoneAnswered
