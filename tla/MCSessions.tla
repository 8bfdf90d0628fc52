----------------------------- MODULE MCSessions -----------------------------
(* Small instances of Sessions for TLC. *)
EXTENDS SessionsInvariant, TLC

CONSTANTS u1, u2, p1, p2, t1, t2, t3, t4, r1, r2, r3

RequestsOf(ops) == {w \in RequestData : w.op \in ops}

RotationWorkload == RequestsOf({"login", "verify_mfa", "refresh", "logout"})
AccountWorkload  == RequestsOf(Operations \ {"verify_mfa"})

Symmetry == Permutations(Requests) \cup Permutations(Tokens) \cup Permutations(Passwords)
=============================================================================
