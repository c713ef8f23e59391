\* All runners, three messages with two, two and no attempts.
SPECIFICATION Spec
CONSTANTS
  Runners = {"retry", "filtered", "observable", "circuit", "throttled",
             "dedup", "tagging", "watermark", "batch", "chained"}
  Msgs = {1, 2, 3}
  MaxAttempts <- TwoOrNone
  Predicates = {{1, 2}, {2, 3}}
  High = 2
  Low = 0
  Fingerprint <- TwoAlike
  TTL = 2
  MaxBatch = 3
  MaxTime = 4
INVARIANTS
  OnePlace
  CallsExact
  RetriesCounted
  AlarmWhenHigh
  AcceptedApart
PROPERTIES
  DropsDuplicatesOnly
  KeepsPromise
CHECK_DEADLOCK FALSE
