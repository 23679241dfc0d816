------------------------------ MODULE MCMessages ------------------------------
EXTENDS Messages, TLC

CONSTANTS u1, u2, p1, p2

\* Users and goroutines are interchangeable.
Symmetry == Permutations(Users) \cup Permutations(Requests)
=============================================================================
