\* One keyed table, two rows, two columns: undo log, savepoints, failed commits.
SPECIFICATION Spec
CONSTANTS
  NULL = NULL
  NoCol = NoCol
  Solo = t
  Parent = parent
  Child = child
  Id = id
  Ref = v
  Table = {t}
  Col = {id, v}
  Val = {1, 2}
  Pk <- SoloPk
  Fk = {}
  Dom <- SoloDom
  Faults = {"log", "commit"}
  MaxRow = 2
  MaxLog = 3
  MaxSet = 2
INVARIANTS TypeOK UndoExact
PROPERTIES FailedStatementChangesNothing RollbackRestores
