----------------------------- MODULE MCAccounts -----------------------------
(* Small instances of Accounts for TLC. *)
EXTENDS AccountsInvariant, TLC

CONSTANTS p1, p2, p3, p4, r1, r2, r3

Symmetry == Permutations(Passwords) \cup Permutations(Requests)
=============================================================================
