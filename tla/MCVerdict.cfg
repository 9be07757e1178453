SPECIFICATION Spec
CONSTANTS
  MaxEpoch = 2
  Callers = {c1}
  Observer = observer
  Watchers <- MCWatchers
  Roles = {"Nested"}
INVARIANT SameVerdictAlways
CHECK_DEADLOCK FALSE
