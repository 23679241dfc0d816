------------------------------- MODULE MCHub -------------------------------
(* Connections a1 and a2 are the first user's, b1 is the second user's. *)
EXTENDS Hub, TLC

CONSTANTS u1, u2, a1, a2, b1, r1, r2

\* One user's connections are interchangeable, and so are the rooms.
Symmetry == Permutations({a1, a2}) \cup Permutations({r1, r2})

OneUser  == [cl \in Clients |-> u1]
TwoUsers == [cl \in Clients |-> IF cl = b1 THEN u2 ELSE u1]

\* Bound: no goroutine of a relation push runs while anybody is in a room.
RoomsOrPushes == ~ \E p \in Pushers, u \in Users : pc'[p] # "idle" /\ topicUserRoom'[u] # NoRoom

\* Behaviours of FairSpec in which the only requests are those of topic rooms,
\* and no peer goes away but by falling silent.  The whole of Fairness is kept:
\* whatever refutes a property here refutes it of FairSpec.
OnlyTopics ==
  /\ Init
  /\ [][Next /\ ~ \E cl \in Clients : PeerClose(cl) \/ HandleQuery(cl) \/ HandleRequest(cl)]_vars
  /\ Fairness
=============================================================================
