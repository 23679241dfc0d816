\* Two users with a page each; three of two clicks, one reload and one failing
\* statement between them.
SPECIFICATION Spec
CONSTANTS
  u1 = u1
  u2 = u2
  Users = {u1, u2}
  MaxClicks = 2
  MaxReloads = 1
  MaxFailures = 1
SYMMETRY Symmetry
ACTION_CONSTRAINT ThreeEvents
INVARIANTS PagesSettle
CHECK_DEADLOCK FALSE
