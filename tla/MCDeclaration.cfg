SPECIFICATION MCSpec
CONSTANTS
  Ids = {x}
  MaxSlots = 2
  MaxBuilds = 2
INVARIANTS IdentityFenced OneConstruction AdmissionHonest NearestWins
  DeadlinesArmed JudgedByTime
PROPERTIES DeadlinesKept
CHECK_DEADLOCK FALSE
