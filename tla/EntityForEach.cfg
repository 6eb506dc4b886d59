SPECIFICATION WalkSpec
CONSTANTS
  Limit = 4
  ComponentTypes = {position}
  MaxEntities = 3
  MaxComponents = 3
  MaxCalls = 5
INVARIANT
  VisitedOnce
PROPERTIES
  CausesOfWalkUB
  CausesOfMisreads
CHECK_DEADLOCK FALSE
