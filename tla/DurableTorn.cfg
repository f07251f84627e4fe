\* A crash tears a frame: what is committed after it is not read again.  A crash between
\* two frames of a transaction: a part of it is (another invariant, seen with -continue).
\* Values and checkpoints run out, and a process may stop working: no deadlock check.
SPECIFICATION Spec
CONSTANTS
  Nobody = Nobody
  Blank = Blank
  Dead = Dead
  Header = Header
  Torn = Torn
  a = a
  b = b
  p1 = p1
  p2 = p2
  Proc = {p1}
  Writers = {p1}
  Start <- TwoRows
  Val = {a, b, c, d}
  Ops = {"insert"}
  Faults = {"crash", "torn"}
  MaxRow = 3
  MaxGen = 1
  MaxTxn = 2
CHECK_DEADLOCK FALSE
INVARIANTS NothingLost CommitIsAtomic
