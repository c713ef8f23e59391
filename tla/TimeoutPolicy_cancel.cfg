SPECIFICATION Spec
CONSTANTS
  Limits = {1, 2}
  Depth = 2
  MaxTime = 5
INVARIANTS
  CancelledInTime
