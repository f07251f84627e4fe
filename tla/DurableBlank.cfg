\* A rolled back INSERT leaves a gap in the row numbers, which replay fills.  A table
\* checkpointed without rows cannot be loaded (another invariant, seen with -continue).
\* Values and checkpoints run out, and a process may stop working: no deadlock check.
SPECIFICATION Spec
CONSTANTS
  Nobody = Nobody
  Blank = Blank
  Dead = Dead
  Header = Header
  Torn = Torn
  a = a
  b = b
  p1 = p1
  p2 = p2
  Proc = {p1}
  Writers = {p1}
  Start <- TwoRows
  Val = {a, b, c, d}
  Ops = {"insert", "rollback", "delete", "checkpoint"}
  Faults = {}
  MaxRow = 4
  MaxGen = 1
  MaxTxn = 2
CHECK_DEADLOCK FALSE
INVARIANTS NoBlankRow StaysLoadable
