\* An outer call whose alarm rings while an inner one is being set up.
SPECIFICATION Spec
CONSTANTS
  Limits = {1, 2}
  Depth = 2
  MaxTime = 5
PROPERTIES
  TimeoutMeansOverrun
