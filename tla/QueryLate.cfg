\* Three tables, with ON conditions about a table that is joined later.
SPECIFICATION Spec
CHECK_DEADLOCK FALSE
CONSTANTS
  Columns <- MCColumns
  PkCol <- MCPkCol
  Hash <- MCHash
  Bits = 3
  Inf = 100
  NaN = 101
  Families <- LateOnly
INVARIANT ColumnsResolve
