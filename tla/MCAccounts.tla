------------------------------ MODULE MCAccounts ------------------------------
(* UID 1 is the whitelist; the sequence begins at 2; two IDs a millisecond. *)
EXTENDS Accounts, TLC

CONSTANTS legacy, p, q

\* The names that users choose here are those the server and the seeding tool
\* would give to the whitelist user; until then they are names like any other.
Chosen == {Digits(1), SeedName(1)}
=============================================================================
