SPECIFICATION Spec
CONSTANTS
  Limit = 4
  ComponentTypes = {position}
  MaxEntities = 3
  MaxComponents = 2
INVARIANT
  CreateIsNew
CHECK_DEADLOCK FALSE
