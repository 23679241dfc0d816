---------------------------- MODULE MCPrivateChat ----------------------------
EXTENDS PrivateChat, TLC

CONSTANTS u1, u2, p1, p2, c1, c2

\* Users, goroutines and primary keys are interchangeable.
Symmetry == Permutations(Users) \cup Permutations(Requests) \cup Permutations(Convs)
=============================================================================
