------------------------------- MODULE MCMfa -------------------------------
(* Small instances of Mfa for TLC. *)
EXTENDS MfaInvariant, TLC

CONSTANTS s1, s2, s3, c1, c2, c3, c4, r1, r2, r3

Symmetry == Permutations(Secrets) \cup Permutations(Codes) \cup Permutations(Requests)

(* One recovery code of all is enough to be used twice. *)
OneCodeUsed == Cardinality(admitted) <= 1
=============================================================================
