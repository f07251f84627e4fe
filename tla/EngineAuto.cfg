\* An autocommitted statement whose commit fails: its implicit transaction stays open.
SPECIFICATION Spec
CONSTANTS
  NULL = NULL
  NoCol = NoCol
  Solo = t
  Parent = parent
  Child = child
  Id = id
  Ref = v
  Table = {t}
  Col = {id, v}
  Val = {1, 2}
  Pk <- SoloPk
  Fk = {}
  Dom <- SoloDom
  Faults = {"commit"}
  MaxRow = 2
  MaxLog = 2
  MaxSet = 2
PROPERTIES AutocommitCloses
