------------------------------- MODULE MCGate -------------------------------
(* A small instance of Gate for TLC. *)
EXTENDS Gate, TLC

CONSTANTS i1, i2, u1, t1, c1, c2, c3

Symmetry == Permutations(Addresses) \cup Permutations(Tabs) \cup Permutations(Calls)
=============================================================================
