\* Four rows in six units of time, two to a millisecond, every page size.
SPECIFICATION Spec
CONSTANTS
  r1 = r1
  r2 = r2
  r3 = r3
  r4 = r4
  Rows = {r1, r2, r3, r4}
  MaxTime = 5
  Milli = 2
SYMMETRY Symmetry
INVARIANTS ListMissesOnlyTies
CHECK_DEADLOCK FALSE
