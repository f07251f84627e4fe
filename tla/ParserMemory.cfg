\* Statements, and an arena that grants any number of allocations.
\* Statements are bounded: no deadlock check.
SPECIFICATION Spec
CONSTANTS
  Char <- NoChars
  Keyword <- Keywords
  MaxText = 5
  Ident = {"a", "t", "e", "s", "int", "count", "sum", "avg"}
  TypeName = {"int"}
  IntLit = {"1", "9", "6"}
  FloatLit = {"1000000.0"}
  StringLit = {"'s'", "'it''s'", "'it'"}
  TooBig = {"9"}
  Seeds <- Beginnings
  Vocabulary <- Words
  MaxTokens <- ShortLengths
  Rooms = {0, 1, 2, 3, 4, 5, 6, 7, 8}
CHECK_DEADLOCK FALSE
INVARIANTS WholeOrRefused
