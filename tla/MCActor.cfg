SPECIFICATION Spec
CONSTANTS
  Policies <- MCPolicies
  Keys = {k1}
  MaxBox = 2
  MaxConts = 1
  MaxOffloads = 1
  MaxDelay = 1
INVARIANTS SourcesSound StopsInOrder
PROPERTIES NoSourceStarves StopEndsLoop
CHECK_DEADLOCK FALSE
