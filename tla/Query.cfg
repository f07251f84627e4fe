\* Every family of statements, over small tables.
SPECIFICATION Spec
CHECK_DEADLOCK FALSE
CONSTANTS
  Columns <- MCColumns
  PkCol <- MCPkCol
  Hash <- MCHash
  Bits = 3
  Inf = 100
  NaN = 101
  Families <- AllFamilies
INVARIANTS TypeOK RowsAreThoseAsked InOrderAndCut GroupsAreThoseAsked TypesHold KnownDespiteNull
