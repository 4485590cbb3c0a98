SPECIFICATION Spec
CONSTANTS
  Requests <- MCRequests
  Contents = {"text"}
  Fingerprints = {"f1"}
  ContentOf <- MCContentOf
  FingerprintOf <- MCFingerprintOf
  DedupOn <- MCDedupOn
  MaxFacts <- MCMaxFacts
  NoFingerprint = "none"
  Updates = {1, 2, 3, 4}
  Kind <- MCKind
  Chat <- MCChat
  Allowed = {"mine"}
  Post <- MCPost
  BatchSize = 2
  MaxRestarts = 1
INVARIANTS
  TypeOK
  SavedIsStored
  NoneLostSilently
  PostedOncePerRun
PROPERTIES
  EveryMessageDropped
CHECK_DEADLOCK FALSE
