SPECIFICATION Spec
CONSTANTS
  Ids = {x}
  MaxSlots = 2
  MaxBuilds = 2
INVARIANT RemovedMeansReleased
CHECK_DEADLOCK FALSE
