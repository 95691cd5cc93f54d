CONSTANTS
  Thread = {t1, t2, t3}
  Key <- MCKey
  Ask <- MCAsk
  ByteMax = 1
  PageLimit = 1
  MaxChanges = 3
SPECIFICATION FairSpec
INVARIANTS
  MemInv
  NoLostWakeup
  ScanExact
PROPERTIES
  SlotTaken
  ImplementsEngine
CHECK_DEADLOCK FALSE
