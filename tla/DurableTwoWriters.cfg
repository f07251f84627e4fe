\* Two processes insert and commit: both use the same row number.
\* Values and checkpoints run out, and a process may stop working: no deadlock check.
SPECIFICATION Spec
CONSTANTS
  Nobody = Nobody
  Blank = Blank
  Dead = Dead
  Header = Header
  Torn = Torn
  a = a
  b = b
  p1 = p1
  p2 = p2
  Proc = {p1, p2}
  Writers = {p1, p2}
  Start <- TwoRows
  Val = {a, b, c, d}
  Ops = {"insert"}
  Faults = {}
  MaxRow = 3
  MaxGen = 1
  MaxTxn = 2
CHECK_DEADLOCK FALSE
INVARIANTS NothingLost
