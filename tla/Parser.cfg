\* A text typed character by character, or a statement token by token.
\* Texts and statements are bounded: no deadlock check.
SPECIFICATION Spec
CONSTANTS
  Char <- Chars
  Keyword <- Keywords
  MaxText = 5
  Ident = {"a", "t", "e", "s", "int", "count", "sum", "avg"}
  TypeName = {"int"}
  IntLit = {"1", "9", "6"}
  FloatLit = {"1000000.0"}
  StringLit = {"'s'", "'it''s'", "'it'"}
  TooBig = {"9"}
  Seeds <- Beginnings
  Vocabulary <- Words
  MaxTokens <- Lengths
  Rooms = {1000}
CHECK_DEADLOCK FALSE
INVARIANTS TokensRight WhereAsGrammar NothingSkipped PrintsBack
