\* Types inferred from the first row, which an UPDATE and a checkpoint change.
SPECIFICATION Spec
CONSTANTS
  NULL = NULL
  Dead = Dead
  NoTypes = NoTypes
  NCols = 2
  MaxField = 3
  Symbol <- Symbols
  Seeds <- TwoRows
  MaxText = 0
  MaxLoaded = 4
  Schemas <- Inferred
  Values <- Plain
  MaxRow = 3
  MaxFrame = 2
CHECK_DEADLOCK FALSE
PROPERTIES LoadGivesBack
