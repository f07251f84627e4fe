\* Rows of which one may hold a NaN, grouped by it.
SPECIFICATION Spec
CHECK_DEADLOCK FALSE
CONSTANTS
  Columns <- MCColumns
  PkCol <- MCPkCol
  Hash <- MCHash
  Bits = 3
  Inf = 100
  NaN = 101
  Families <- NaNOnly
INVARIANT GroupsAreThoseAsked
