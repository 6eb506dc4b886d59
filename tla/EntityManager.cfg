SPECIFICATION Spec
CONSTANTS
  Limit = 4
  ComponentTypes = {position}
  MaxEntities = 3
  MaxComponents = 2
INVARIANTS
  TypeOK
  OwnersLive
  IdsAccounted
  FreeIdsUnused
  IdsNotShared
  DestroyAllExact
PROPERTIES
  CausesOfUB
  LostForGood
CHECK_DEADLOCK FALSE
