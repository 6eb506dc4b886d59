SPECIFICATION WalkSpec
CONSTANTS
  Limit = 4
  ComponentTypes = {position}
  MaxEntities = 3
  MaxComponents = 3
  MaxCalls = 3
PROPERTY
  EachOnce
CHECK_DEADLOCK FALSE
