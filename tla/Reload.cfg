\* A file typed symbol by symbol; a short one is loaded under declared types,
\* changed, checkpointed and loaded again.
SPECIFICATION Spec
CONSTANTS
  NULL = NULL
  Dead = Dead
  NoTypes = NoTypes
  NCols = 2
  MaxField = 3
  Symbol <- Symbols
  Seeds <- Mixed
  MaxText = 6
  MaxLoaded = 2
  Schemas <- TextAndDouble
  Values <- Awkward
  MaxRow = 2
  MaxFrame = 2
CHECK_DEADLOCK FALSE
INVARIANTS TypeOK ReadsLines
PROPERTIES LoadGivesBack
