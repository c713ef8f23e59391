\* Two threads on three messages with budgets of two, none and three attempts;
\* the delay of a third attempt overflows.
SPECIFICATION FairSpec
CONSTANTS
  Threads = {t1, t2}
  MsgLimit = 3
  MaxAttempts <- MixedBudgets
  OverflowAt = 2
  HasCallback = TRUE
INVARIANTS
  TypeOK
  OnePlace
  AttemptsHonest
  QueuedHaveAttempts
  NoSecondTurn
  OverflowSkipsDeadLetter
PROPERTIES
  KeepsPromise
  DrainReturns
  DrainResolves
