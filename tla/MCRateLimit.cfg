SPECIFICATION Spec
CONSTANTS
  Workers = {w1}
  Surfaces = {"rest", "oauth_token"}
  Keys = {a, b}
  Slots = {r1, r2}
  MaxFailures <- MCMaxFailures
  WindowTicks <- MCWindowTicks
  MaxTracked = 1
  TicksPerSecond = 2
  MaxTime = 4
SYMMETRY Symmetry
INVARIANTS
  TypeOK
  OvershootBounded
  RetryAfterHonest
PROPERTIES
  LiveWindowsKept
  ImplementsLockout
