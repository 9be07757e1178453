SPECIFICATION MCSpec
CONSTANTS
  MaxKey = 2
  Flavor = "Ordered"
  Role = "Root"
  Initial = 2
  Options <- OrderedOptions
  MaxRestarts = 1
  MaxIncarnation = 1
  Actors = {"Shutdown"}
INVARIANTS TypeOK
PROPERTIES ShutdownStops RemovalAnswered
ACTION_CONSTRAINT Late
