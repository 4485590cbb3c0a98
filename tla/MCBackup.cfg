SPECIFICATION Spec
CONSTANTS
  LastNight = 4
  RETENTION_DAYS = 3
  MaxRunDays = 3
INVARIANTS
  TypeOK
  Restorable
  CatchesUp
CHECK_DEADLOCK FALSE
