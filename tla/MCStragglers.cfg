SPECIFICATION Spec
CONSTANTS
  MaxEpoch = 2
  Callers = {c1}
  Observer = observer
  Watchers <- MCWatchers
  Roles = {"Nested"}
PROPERTY StragglersAreTargets
CHECK_DEADLOCK FALSE
