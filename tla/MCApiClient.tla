---------------------------- MODULE MCApiClient ----------------------------
(* Small instances of ApiClient for TLC. *)
EXTENDS ApiClient, TLC

CONSTANTS t1, t2, c1, c2

Symmetry == Permutations(Tabs) \cup Permutations(Calls)

(* Rows nobody holds a token of make no difference. *)
HeldRows == <<live \cap Held, [k \in Tokens |-> IF k \in Held THEN family[k] ELSE 0],
              cookies, page, call, refreshing, ref, history>>

(* One kind of trouble at a time: two would excuse each other. *)
OneTrouble == Cardinality({i \in 1..3 : <<overlapped, lost, ended>>[i]}) <= 1
=============================================================================
