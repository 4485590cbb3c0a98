SPECIFICATION MCSpec
CONSTANTS
  Memories = {1, 2}
  Workers = {"w"}
  Searches = {"s1", "s2"}
  On <- MCOn
  Limit = 2
  ScanLimit = 2
  MaxTime = 2
  Unit = 3
  Decay <- MCDecay
  Undated = 9
INVARIANTS
  RecallNeverWorse
CHECK_DEADLOCK FALSE
