SPECIFICATION Spec
CONSTANTS
  Base = 2
  Level = 2
  Letters = {"{", "}", "1", "x"}
  Texts <- MCTexts
  MaxPieces = 3
  MaxArgs = 3
INVARIANT
  FilledAtOnce
CHECK_DEADLOCK FALSE
