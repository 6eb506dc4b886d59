SPECIFICATION TidySpec
CONSTANTS
  Limit = 3
  ComponentTypes = {position, speed}
  MaxEntities = 2
  MaxComponents = 2
INVARIANTS
  NoUB
  CreateIsNew
PROPERTY
  ImplementsRegistry
