CONSTANTS
  Key <- MCKey
  Value <- MCValue
  MaxPayload = 5
  Damage = {0, 1, 2, 3, 4, 5, 6}
  MaxRecords = 3
  MaxCrashes = 2
SPECIFICATION Spec
INVARIANTS
  TypeOK
  ReadsWhatWasWritten
  CutEndsLog
  DamageReported
CHECK_DEADLOCK FALSE
