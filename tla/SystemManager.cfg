SPECIFICATION FairSpec
CONSTANTS
  Types = {window, physics, sound}
  MaxSystems = 4
INVARIANTS
  TypeOK
  IdsApart
  OncePerUpdate
PROPERTY
  SteadyUpdated
