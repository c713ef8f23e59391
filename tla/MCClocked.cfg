\* Threads of a breaker: two, three failures to open.  Requests: five that overlap.
\* Limiter: one caller, two slots per window of three ticks, seven ticks.
\* Bucket: a bucket of three, one amount larger than it.
\* Sliding window: two threads.  Alarm: two calls deep, with two limits.
SPECIFICATION FairClockedSpec
CONSTANTS
  Threads = {t1, t2}
  Threshold = 3
  Recovery = 4
  Requests = {r1, r2, r3, r4, r5}
  Callers = {c1}
  Limit = 2
  Window = 3
  MaxTime = 7
  Capacity = 3
  Rate = 1
  Amounts = {1, 2, 4}
  BucketTime = 4
  Span = 2
  MaxEvents = 3
  WindowTime = 3
  Limits = {1, 2}
  Depth = 2
  AlarmTime = 5
INVARIANTS
  TypeOK
  TypesOK
  FieldsAgree
  LimitHeld
  ThrottleHeld
  NoStrayAlarm
PROPERTIES
  ActsAtomically
  ShutUntilRecovery
  FailedProbeReopens
  Recovers
  RefusesOnlyWhenFull
  RejectsOnlyWhenShort
  StatsExact
  FlaggedByOwnAlarm
  LateIsNoticed
