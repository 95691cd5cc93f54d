CONSTANTS
  None = None
  Width <- MCWidth
  Request = {w1, w2, w3}
  Checkpoint = {}
  Wide = {w2}
  Unencodable = {}
  SegmentLimit = 2
  CheckpointInterval = 3
  MaxBatch = 2
  QueueDepth = 2
  Faults = {"create", "write", "rewind", "sync", "apply", "flush", "remove", "open"}
  MaxFaults = 2
  MaxRestarts = 2
SPECIFICATION Spec
SYMMETRY WriteSymmetry
INVARIANTS
  TypeOK
  AckedRecoverable
  AckedVisible
  WalInv
