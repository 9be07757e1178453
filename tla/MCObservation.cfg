SPECIFICATION Spec
CONSTANTS
  Readers = {r1}
  Kinds = {"Stream", "Watch"}
  Capacity = 1
  MaxBehind = 2
  MaxIncarnation = 2
  MaxSubscriptions <- WatchTwice
INVARIANTS StreamsTellTheTruth SnapshotCurrent
PROPERTY ReadersAwake
CHECK_DEADLOCK FALSE
