------------------------------- MODULE MCLists -------------------------------
EXTENDS ConversationList

CONSTANTS r1, r2, r3, r4

Symmetry == Permutations(Rows)
=============================================================================
