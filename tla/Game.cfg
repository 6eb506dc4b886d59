SPECIFICATION GameSpec
CONSTANTS
  window = window
  Types = {window}
  MaxSystems = 1
PROPERTY
  ExitsWhenClosed
CHECK_DEADLOCK FALSE
