SPECIFICATION MCSpec
CONSTANTS
  Memories = {1, 2, 3}
  Workers = {"w"}
  Searches = {"s1", "s2"}
  On <- MCOn
  Limit = 1
  ScanLimit = 2
  MaxTime = 2
  Unit = 3
  Decay <- MCDecay
  Undated = 9
INVARIANTS
  TypeOK
  WholeWordsFound
  NothingMeansNothing
PROPERTIES
  EverySearchEnds
CHECK_DEADLOCK FALSE
