\* Two tables and a COMMIT that fails at the second: ROLLBACK comes too late for the first.
SPECIFICATION Spec
CONSTANTS
  Name = {n1, n2}
  Path = {f1, f2}
  NULL = NULL
  int = int
  text = text
  Type = {int, text}
  NoKey = NoKey
  Shape <- Alone
  Row = {r1}
  Content = {v}
  NoRow = NoRow
  Dead = Dead
  Faults = {"append"}
  MaxLog = 2
CHECK_DEADLOCK FALSE
PROPERTIES NothingDurableUntilCommit
