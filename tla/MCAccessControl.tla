-------------------------- MODULE MCAccessControl --------------------------
(* A small instance of AccessControl for TLC. *)
EXTENDS AccessControl, TLC

CONSTANTS u1, u2, r1, r2

Symmetry == Permutations(Users) \cup Permutations(Requests)

(* `since` only matters while a token says what its user may no longer do. *)
Stale(u) == \E x \in Roles : life[u][x] > 0 /\ x # Authority(u) /\ <<u, x>> \notin late
StaleRows == <<users, life, signing, acting, late,
               [u \in Users |-> IF Stale(u) THEN since[u] ELSE Ttl]>>
=============================================================================
