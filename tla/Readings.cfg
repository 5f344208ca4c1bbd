SPECIFICATION Spec
CONSTANTS
  DefaultLimit = 1
  MaxLimit = 2
  Readings <- AllReadings
  MaxRows = 3
  MaxKey = 2
  MaxChanges = 2
  MaxFailures = 1
INVARIANTS FollowedIsExact
CHECK_DEADLOCK FALSE
