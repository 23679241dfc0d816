\* Two users and two rooms whose history holds one message.
SPECIFICATION Spec
CONSTANTS
  Users = {u1, u2}
  Rooms = {r1, r2}
  NoRoom = NoRoom
  HistoryLimit = 1
  MaxRequests = 6
SYMMETRY Symmetry
INVARIANTS TypeOK PageAgrees MissedOnlyWhileJoining SenderOrderKept
CHECK_DEADLOCK FALSE
