CONSTANTS
  u1 = u1  u2 = u2  p1 = p1  p2 = p2  c1 = c1  c2 = c2
  Users = {u1, u2}
  Requests = {p1, p2}
  Convs = {c1, c2}
  FreeMessages = 1
  MaxSent = 2
  Free = Free
  Nobody = Nobody
SPECIFICATION Spec
SYMMETRY Symmetry
INVARIANT TypeOK BlockStops FollowNeeded LimitPerConversation
