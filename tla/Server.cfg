SPECIFICATION Spec
CONSTANTS
  Clients = {c1, c2, c3}
  MaxFds = 2
INVARIANTS
  TypeOK
  OneAccept
PROPERTIES
  ImplementsReception
  StopsWhenAsked
  DescriptorsFreed
  EveryoneServed
  ComesToRest
CHECK_DEADLOCK FALSE
