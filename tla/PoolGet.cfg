SPECIFICATION Spec
CONSTANTS
  Limit = 4
  Entities = {0, 1, 2}
  Components = {c1, c2}
  MaxComponents = 5
INVARIANT
  ReadsBack
CHECK_DEADLOCK FALSE
