\* An allocation fails: no statement changes a cell of the table afterwards.
SPECIFICATION Spec
CONSTANTS
  NULL = NULL
  NoCol = NoCol
  Solo = t
  Parent = parent
  Child = child
  Id = id
  Ref = v
  Table = {t}
  Col = {id, v}
  Val = {1, 2}
  Pk <- SoloPk
  Fk = {}
  Dom <- SoloDom
  Faults = {"heap"}
  MaxRow = 2
  MaxLog = 2
  MaxSet = 2
PROPERTIES LatchedTableKeepsCells
