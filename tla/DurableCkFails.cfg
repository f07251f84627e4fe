\* A checkpoint fails after renumbering the rows in memory.
\* Values and checkpoints run out, and a process may stop working: no deadlock check.
SPECIFICATION Spec
CONSTANTS
  Nobody = Nobody
  Blank = Blank
  Dead = Dead
  Header = Header
  Torn = Torn
  a = a
  b = b
  p1 = p1
  p2 = p2
  Proc = {p1}
  Writers = {p1}
  Start <- TwoRows
  Val = {a, b, c}
  Ops = {"delete", "update", "checkpoint"}
  Faults = {"dump", "checkpoint"}
  MaxRow = 3
  MaxGen = 1
  MaxTxn = 2
CHECK_DEADLOCK FALSE
INVARIANTS NothingLost
