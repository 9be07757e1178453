SPECIFICATION MCSpec
CONSTANTS
  MaxKey = 2
  Flavor = "Ordered"
  Role = "Nested"
  Initial = 2
  Options <- RestartOptions
  MaxRestarts = 1
  MaxIncarnation = 2
  Actors = {"Ancestor"}
INVARIANTS ReducerAgrees AssertionsHold ExitsJoined ReverseTeardown
  WaitsOnlySettled
PROPERTIES StartupVerdictHolds RemovalAnswersHold
ACTION_CONSTRAINT Late
