--------------------------- MODULE MCProfilePage ---------------------------
(* A small instance of ProfilePage for TLC. *)
EXTENDS ProfilePage, TLC

CONSTANTS u1, u2, plain, other, markup, r1, r2

(* a text with markup loses it *)
Stripped == [n \in {plain, other, markup} |-> IF n = markup THEN other ELSE n]

Symmetry == Permutations(Requests)

(* Codes that are not in force make no difference. *)
InForce == <<stored, owner, screen, request, concurrent, unanswered, crossed, missed,
             told \cap {stored[u].codes : u \in Users}>>

(* One kind of trouble at a time: two would excuse each other.  A tab that shows another
   user than its session's is not followed further. *)
OneTrouble == /\ ~(concurrent /\ unanswered)
              /\ shown = Nobody \/ owner = Nobody \/ shown.id = owner
=============================================================================
