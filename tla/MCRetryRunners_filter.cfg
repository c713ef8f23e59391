\* FilteredRetryRunner: what becomes of skipped messages.
SPECIFICATION Spec
CONSTANTS
  Runners = {"filtered"}
  Msgs = {1, 2, 3}
  MaxAttempts <- TwoOrNone
  Predicates = {{1, 2}, {2, 3}}
  High = 2
  Low = 0
  Fingerprint <- TwoAlike
  TTL = 2
  MaxBatch = 3
  MaxTime = 4
PROPERTIES
  SkippedNotLost
CHECK_DEADLOCK FALSE
