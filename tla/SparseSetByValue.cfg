SPECIFICATION ByValueSpec
CONSTANTS
  Limit = 4
  Keys = {0, 1, 2, 3}
INVARIANTS
  TypeOK
  IterationExact
  NoOverrun
PROPERTY
  CallsExact
CHECK_DEADLOCK FALSE
