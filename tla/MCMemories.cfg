SPECIFICATION MSpec
CONSTANTS
  Memories = {"m1", "m2", "m3"}
  Callers = {p, q}
  MaxDelete = 1
  MaxFailures = 1
  Requests = {"put", "del"}
  Op <- MCOp
  Target <- MCTarget
INVARIANTS
  MTypeOK
  DonePurged
  AnswersTrue
PROPERTIES
  LoopEnds
CHECK_DEADLOCK FALSE
