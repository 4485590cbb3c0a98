SPECIFICATION Spec
CONSTANTS
  Memories = {1, 2}
  Untimed = {2}
  MaxFetched = 1
  Window = 5
  Period = 2
  Slack = 1
  SendEmpty = FALSE
  Webhook = TRUE
  MaxStarts = 1
  MaxTime = 10
INVARIANTS
  TypeOK
  WindowTold
  ToldAll
  RepeatsBounded
CHECK_DEADLOCK FALSE
