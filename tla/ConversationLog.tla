---------------------------- MODULE ConversationLog ----------------------------
(***************************************************************************)
(* What a group conversation promises, whoever serves the requests: a log  *)
(* that grows at its end by one message of a member at a time, and for     *)
(* every member a position in it that only advances.  Messages implements  *)
(* it with rows, row locks and statements of several transactions.         *)
(***************************************************************************)
EXTENDS Naturals

CONSTANTS Users, NotMember

VARIABLES log,        \* the sender of each message, by its local ID
          newest,     \* local ID of the last message
          position,   \* how far each member has read, or NotMember
          closed      \* the group is dissolved

vars == <<log, newest, position, closed>>

Members == {u \in Users : position[u] # NotMember}

Init ==
  /\ log = <<>> /\ newest = 0 /\ closed = FALSE
  /\ position \in [Users -> {0, NotMember}]

Post(u) ==
  /\ ~closed /\ u \in Members
  /\ newest' = newest + 1
  /\ log' = [i \in 1 .. newest + 1 |-> IF i = newest + 1 THEN u ELSE log[i]]
  /\ UNCHANGED <<position, closed>>

Advance(u) ==
  /\ u \in Members
  /\ \E i \in position[u] + 1 .. newest : position' = [position EXCEPT ![u] = i]
  /\ UNCHANGED <<log, newest, closed>>

Enter(u) ==
  /\ ~closed /\ u \notin Members
  /\ position' = [position EXCEPT ![u] = 0]
  /\ UNCHANGED <<log, newest, closed>>

Exit(u) ==
  /\ ~closed /\ u \in Members
  /\ position' = [position EXCEPT ![u] = NotMember]
  /\ UNCHANGED <<log, newest, closed>>

Close ==
  /\ ~closed /\ closed' = TRUE
  /\ UNCHANGED <<log, newest, position>>

Next ==
  \/ \E u \in Users : Post(u) \/ Advance(u) \/ Enter(u) \/ Exit(u)
  \/ Close

Spec == Init /\ [][Next]_vars
=============================================================================
