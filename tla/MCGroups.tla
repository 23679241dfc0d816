------------------------------ MODULE MCGroups ------------------------------
(* Groups on small tables, for TLC. *)
EXTENDS Groups, TLC

Symmetry == Permutations(Users) \cup Permutations(Convs)
              \cup Permutations(Reqs) \cup Permutations(Invs)
=============================================================================
