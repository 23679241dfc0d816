\* One user, whose second connection replaces the first, pushes from a
\* separate goroutine, two rooms, and one fault: a crash or a failed command.
SPECIFICATION Spec
CONSTANTS
  u1 = u1
  u2 = u2
  a1 = a1
  a2 = a2
  b1 = b1
  r1 = r1
  r2 = r2
  Users = {u1}
  Clients = {a1, a2}
  Uid <- OneUser
  Rooms = {r1, r2}
  Pushers = {p1}
  SendCap = 1
  MaxFaults = 1
  Hub = Hub
  NoClient = NoClient
  NoRoom = NoRoom
SYMMETRY Symmetry
ACTION_CONSTRAINT RoomsOrPushes
INVARIANTS TypeOK SupersededIsClosed RoomsAgree OnlineMirrorsClients
PROPERTIES StaleCannotRemoveReplacement
CHECK_DEADLOCK FALSE
