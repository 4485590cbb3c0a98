SPECIFICATION GateSpec
CONSTANTS
  Workers = {w1}
  Surfaces = {"mcp"}
  Keys = {home, away}
  Slots = {h1, h2, o1}
  Honest = {h1, h2}
  Home = home
  Ttl = 2
  MaxFailures <- MCMaxFailures
  WindowTicks <- MCWindowTicks
  MaxTracked = 1
  TicksPerSecond = 1
  MaxTime = 6
SYMMETRY Symmetry
INVARIANTS
  GateTypeOK
  HonestNeverLocked
