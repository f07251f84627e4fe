\* Two handles, one table, a budget that a load or a second statement can exhaust.
SPECIFICATION Spec
CONSTANTS
  Limit = 34
  BlockSize = 2
  Header = 1
  HogFactor = 2
  Handle = {s1, s2}
  Kinds = {"select", "insert", "update", "delete", "begin", "commit", "rollback", "garbage"}
  Text = {a}
  NULL = NULL
  Freed = Freed
  FileTexts <- FileRows
  AstSizes = {3}
  FileSize = 3
  Reserve = 8
  FirstRows = 1
  FirstHeap = 1
  MaxRow = 2
  MaxHeap = 4
  Malloc = {TRUE, FALSE}
SYMMETRY Alike
INVARIANTS Accounted ServesWhatItSaw
PROPERTIES RunsOnce
