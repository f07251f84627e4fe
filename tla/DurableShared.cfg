\* Two writers that load, commit and checkpoint the same file: the locks, what a
\* load sees, and the row numbers that frames go out under.
\* Values and checkpoints run out, and a process may stop working: no deadlock check.
SPECIFICATION FairSpec
CONSTANTS
  Nobody = Nobody
  Blank = Blank
  Dead = Dead
  Header = Header
  Torn = Torn
  a = a
  b = b
  p1 = p1
  p2 = p2
  Proc = {p1, p2}
  Writers = {p1, p2}
  Start <- TwoRows
  Val = {a, b, c, d}
  Ops = {"insert", "checkpoint"}
  Faults = {"append", "dump", "crash", "torn"}
  MaxRow = 4
  MaxGen = 2
  MaxTxn = 1
CHECK_DEADLOCK FALSE
INVARIANTS MutualExclusion LoadIsSnapshot NoStaleFrame
PROPERTIES LocksReleased
