SPECIFICATION MCSpec
CONSTANTS
  Tasks = {t1, t2}
  Notifiers = {n1, n2}
  Offloads = {o1, o2}
  MaxVersion = 1
INVARIANTS WatcherIsCurrent ValueCustody VerdictIsTrue OffloadsAccounted
PROPERTIES WaitsEnd
CHECK_DEADLOCK FALSE
