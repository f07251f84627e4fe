\* The same file loaded with its first column declared TEXT, and without.
SPECIFICATION Spec
CONSTANTS
  NULL = NULL
  Dead = Dead
  NoTypes = NoTypes
  NCols = 2
  MaxField = 3
  Symbol <- Symbols
  Seeds <- Numbers
  MaxText = 0
  MaxLoaded = 4
  Schemas <- TextOrInferred
  Values <- Plain
  MaxRow = 3
  MaxFrame = 2
CHECK_DEADLOCK FALSE
INVARIANTS DecodedAsEncoded
