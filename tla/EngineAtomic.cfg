\* A parent and a child table, two rows each: the refinement, keys and foreign keys.
SPECIFICATION Spec
CONSTANTS
  NULL = NULL
  NoCol = NoCol
  Solo = t
  Parent = parent
  Child = child
  Id = id
  Ref = ref
  Table = {parent, child}
  Col = {id, ref}
  Val = {1, 2}
  Pk <- PairPk
  Fk <- PairFk
  Dom <- PairDom
  Faults = {}
  MaxRow = 2
  MaxLog = 2
  MaxSet = 1
INVARIANTS Integrity
PROPERTIES ImplementsAtomic
