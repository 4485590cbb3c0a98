SPECIFICATION ListSpec
CONSTANTS
  Ids = {1, 2, 3, 4, 5}
  Limit = 2
  MaxOffset = 2
INVARIANTS
  ListTypeOK
  EnumerationBounded
CHECK_DEADLOCK FALSE
