SPECIFICATION Spec
CONSTANTS
  Clients = {c1, c2}
  Uris = {u1, u2}
  AllowedUris = {u1}
  Challenges = {p1, p2}
  Codes = {x1, x2}
  Tokens = {t1, t2, t3}
  Slots = {r1, r2}
  CodeTTL = 0
  TokenTTL = 0
  MaxTime = 1
  None = None
SYMMETRY Symmetry
INVARIANTS
  TypeOK
  CodeReuseBounded
  ChainIsSingle
  TokensAsConsented
PROPERTIES
  LiveCodesKept
  ChainsEndForAReason
CHECK_DEADLOCK FALSE
