SPECIFICATION FairSpec
CONSTANTS
  MaxEpoch = 2
  Callers = {c1}
  Observer = observer
  Watchers <- MCWatchers
  Roles = {"Nested", "Root"}
INVARIANTS PlanesAgree StopConstructsNothing ReturnedMeansGone VerdictFinal
PROPERTIES NoPhantomStraggler StopReturns
CHECK_DEADLOCK FALSE
