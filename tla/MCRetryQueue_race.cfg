\* Two threads race for the last message.
SPECIFICATION Spec
CONSTANTS
  Threads = {t1, t2}
  MsgLimit = 1
  MaxAttempts <- OneEach
  OverflowAt = 9
  HasCallback = TRUE
INVARIANTS
  NoIndexError
