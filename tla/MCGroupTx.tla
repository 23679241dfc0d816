----------------------------- MODULE MCGroupTx -----------------------------
(* GroupTx with two transactions at a time, for TLC. *)
EXTENDS GroupTx, TLC

Symmetry == Permutations(Users) \cup Permutations(Reqs)
              \cup Permutations(Invs) \cup Permutations(Txs)
=============================================================================
