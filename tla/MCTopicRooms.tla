---------------------------- MODULE MCTopicRooms ----------------------------
(* TopicRooms with two users and two rooms, for TLC. *)
EXTENDS TopicRooms, TLC

Symmetry == Permutations(Users) \cup Permutations(Rooms)
=============================================================================
