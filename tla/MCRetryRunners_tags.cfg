\* TaggingRetryRunner: what is left in the registry.
SPECIFICATION Spec
CONSTANTS
  Runners = {"tagging"}
  Msgs = {1, 2, 3}
  MaxAttempts <- TwoOrNone
  Predicates = {{1, 2}, {2, 3}}
  High = 2
  Low = 0
  Fingerprint <- TwoAlike
  TTL = 2
  MaxBatch = 3
  MaxTime = 4
INVARIANTS
  TagsPurged
CHECK_DEADLOCK FALSE
