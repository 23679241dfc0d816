\* The members push of a disconnection meets a full channel.
SPECIFICATION OnlyTopics
CONSTANTS
  u1 = u1
  u2 = u2
  a1 = a1
  a2 = a2
  b1 = b1
  r1 = r1
  r2 = r2
  Users = {u1, u2}
  Clients = {a1, b1}
  Uid <- TwoUsers
  Rooms = {r1}
  Pushers = {}
  SendCap = 1
  MaxFaults = 0
  Hub = Hub
  NoClient = NoClient
  NoRoom = NoRoom
PROPERTIES DisconnectedGoesOffline
CHECK_DEADLOCK FALSE
