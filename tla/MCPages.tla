------------------------------- MODULE MCPages -------------------------------
EXTENDS RelationPages, TLC

CONSTANTS u1, u2

Symmetry == Permutations(Users)

\* Bound: at most three clicks, reloads and failures together.
ThreeEvents == clicks' + reloads' + failures' <= 3
=============================================================================
