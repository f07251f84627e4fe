\* A .load over a referenced table: the foreign key names a column of another type.
SPECIFICATION Spec
CONSTANTS
  Name = {n1, n2}
  Path = {f1, f2}
  NULL = NULL
  int = int
  text = text
  Type = {int, text}
  NoKey = NoKey
  Shape <- Shapes
  Row = {}
  Content = {}
  NoRow = NoRow
  Dead = Dead
  Faults = {}
  MaxLog = 0
CHECK_DEADLOCK FALSE
INVARIANTS RefsAreKeys
