\* Two threads, one failure to open.
SPECIFICATION Spec
CONSTANTS
  Threads = {t1, t2}
  Threshold = 1
  Recovery = 1
INVARIANTS
  OpenHasTimeAtRest
