\* One user, two connections, no topic rooms: whoever waits is served.
SPECIFICATION FairSpec
CONSTANTS
  u1 = u1
  u2 = u2
  a1 = a1
  a2 = a2
  b1 = b1
  r1 = r1
  r2 = r2
  Users = {u1}
  Clients = {a1, a2}
  Uid <- OneUser
  Rooms = {}
  Pushers = {}
  SendCap = 1
  MaxFaults = 0
  Hub = Hub
  NoClient = NoClient
  NoRoom = NoRoom
PROPERTIES DisconnectedGoesOffline ClosedIsUnregisteredOrStuck RendezvousHappens
CHECK_DEADLOCK FALSE
