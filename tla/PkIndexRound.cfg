\* Two INT keys equal as doubles: the index selects one, a scan both.  A key updated to
\* itself: selected twice (another invariant, seen with -continue).
SPECIFICATION Spec
CONSTANTS
  NULL = NULL
  Free = Free
  a = a
  b = b
  c = c
  Key <- Keys
  Hash <- Colliding
  Image <- Rounded
  INITIAL_CAP = 4
  Faults = {}
  MaxRow = 2
  MaxCap = 8
INVARIANTS LookupMissesNothing LookupSelectsOnce
