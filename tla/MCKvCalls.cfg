CONSTANTS
  Thread = {t1, t2, t3}
  NoThread = NoThread
  Key <- MCKeys
  UserKey = {a, b}
  MaxBatch = 3
  CompactChunk = 1
  MaxCalls = 3
SPECIFICATION FairSpec
INVARIANTS
  CallsTypeOK
  RangesExact
  SharedSeesWhole
PROPERTIES
  EveryCallReturns
CHECK_DEADLOCK FALSE
