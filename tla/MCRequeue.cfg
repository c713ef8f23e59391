\* The priority queue: three messages, one of them enqueued twice, handlers
\* nested two deep.  Redelivery: two threads flush, one of them replays once;
\* "linear" and "jittered" pass as well.
SPECIFICATION FairRequeueSpec
CONSTANTS
  Msgs = {1, 2, 3}
  Priorities = {0, 10, 11}
  Default = 0
  MaxAttempts = 2
  Copies <- OneTwice
  Depth = 2
  Threads = {t1, t2}
  Replayers = {t2}
  Letters = {m1, m2}
  Attempts <- SomeNone
  Strategies = {"constant", "exponential"}
  Base = 2
  Multiplier = 2
  MaxDelay = 2
  MaxTime = 2
  MaxSchedules = 2
  MaxReplays = 1
INVARIANTS
  HeapOK
  AttemptsShared
  OneCopy
  NotEarly
  AttemptsBounded
PROPERTIES
  PriorityThenFifo
  KeepsPromise
  EveryMessageEnds
  EventuallyQueued
CHECK_DEADLOCK FALSE
