SPECIFICATION ImportSpec
CONSTANTS
  Requests <- MCRequests
  Contents = {"text", "TEXT", "other"}
  Fingerprints = {"f1", "f2"}
  ContentOf <- MCContentOf
  FingerprintOf <- MCFingerprintOf
  DedupOn <- MCDedupOn
  MaxFacts <- MCMaxFacts
  NoFingerprint = "none"
  Callers = {"import", "agent"}
  Script <- MCScript
  Retries <- MCRetries
  RequestOf <- MCRequestOf
INVARIANTS
  ImportTypeOK
  AnsweredIsStored
  ExtractedTwiceOnlyWhenOverlapping
  SentIsStored
PROPERTIES
  EveryImportEnds
CHECK_DEADLOCK FALSE
