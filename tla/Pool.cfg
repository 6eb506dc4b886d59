SPECIFICATION WalkSpec
CONSTANTS
  Limit = 4
  Entities = {1, 2, 3}
  Components = {c1, c2}
  MaxComponents = 4
INVARIANTS
  TypeOK
  OwnersExact
  UnspoiledReadsBack
  VisitedAsListed
PROPERTIES
  ReferencesKept
  OnlyDeletedSlotsMislead
  ImplementsComponentMap
  MissedOnlyIfTakenBack
  CausesOfWalkUB
CHECK_DEADLOCK FALSE
