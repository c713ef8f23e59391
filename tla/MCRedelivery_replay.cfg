\* A message that is replayed a second time, after it was given up again.
SPECIFICATION Spec
CONSTANTS
  Threads = {t1}
  Replayers = {t1}
  Msgs = {m1}
  MaxAttempts <- TwoEach
  Strategies = {"constant"}
  Base = 1
  Multiplier = 2
  MaxDelay = 1
  MaxTime = 1
  MaxSchedules = 1
  MaxReplays = 2
PROPERTIES
  AttemptsPreserved
CHECK_DEADLOCK FALSE
