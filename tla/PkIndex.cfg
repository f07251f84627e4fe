\* The index of a table of two rows over colliding keys, growing once, allocations failing.
SPECIFICATION Spec
CONSTANTS
  NULL = NULL
  Free = Free
  a = a
  b = b
  c = c
  Key <- Keys
  Hash <- Colliding
  Image <- Exact
  INITIAL_CAP = 4
  Faults = {"oom"}
  MaxRow = 2
  MaxCap = 8
SYMMETRY Symmetric
INVARIANTS TypeOK RoomToInsert ConstraintsAgree LookupMissesNothing
