\* Two users, two requests at a time, a history of up to two messages.
CONSTANTS
  u1 = u1  u2 = u2  p1 = p1  p2 = p2
  Users = {u1, u2}
  Requests = {p1, p2}
  PageSize = 1
  MaxMessages = 2
  Free = Free
  Nobody = Nobody
  NotMember = NotMember
SPECIFICATION Spec
SYMMETRY Symmetry
INVARIANTS TypeOK MembersGetTheirMessages WalkIsComplete
PROPERTIES ImplementsConversationLog UnreadNeverOverstated
