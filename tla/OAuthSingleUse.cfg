SPECIFICATION Spec
CONSTANTS
  Clients = {c1}
  Uris = {u1}
  AllowedUris = {u1}
  Challenges = {p1}
  Codes = {x1}
  Tokens = {t1, t2}
  Slots = {r1, r2}
  CodeTTL = 0
  TokenTTL = 0
  MaxTime = 1
  None = None
INVARIANTS
  CodeSingleUse
CHECK_DEADLOCK FALSE
