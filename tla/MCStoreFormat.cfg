CONSTANTS
  ByteMax = 2
  Width = 2
  LenWidth = 1
  WireMax = 3
  RevisionPrefix = 1
  Separator = 1
  TombstoneByte = 1
  AppliedKey <- MCAppliedKey
  MaxPayload = 2
  ScanPage = 2
  UserKey <- MCUserKey
  Value <- MCValue
  Foreign <- MCForeign
  MaxForeign = 2
  MaxAdvance = 2
SPECIFICATION Spec
INVARIANTS
  OpenedExact
  OpeningJudges
  RecordsKept
CHECK_DEADLOCK FALSE
