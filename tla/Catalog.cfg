\* Three tables without rows, loaded and created over each other; and two tables
\* with rows: transactions over them, failing commits, loads in between.
SPECIFICATION Spec
CONSTANTS
  Name = {n1, n2, n3}
  Path = {f1, f2}
  NULL = NULL
  int = int
  text = text
  Type = {int, text}
  NoKey = NoKey
  Shape <- Shapes
  Row = {r1, r2}
  Content = {v}
  NoRow = NoRow
  Dead = Dead
  Faults = {"append", "path", "crash"}
  MaxLog = 2
SYMMETRY Symmetric
CONSTRAINT RowsOrReferences
CHECK_DEADLOCK FALSE
INVARIANTS TypeOK Acyclic ChainIsExact
PROPERTIES OnlyReloadBreaksRefs RollbackRestoresTables CommitWritesAll
