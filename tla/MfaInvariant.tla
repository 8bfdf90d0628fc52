---------------------------- MODULE MfaInvariant ----------------------------
(* What Mfa's steps preserve: its properties, strengthened until each step  *)
(* from a state that has them leads to one that has them.                  *)
EXTENDS Mfa

(* Who is about to turn MFA on confirmed the secret that is in force. *)
Confirmed ==
  \A r \in Requests : pc[r] = "enable_write" /\ ~torn => factor[r] = secret /\ secret \in proven

(* A code that admitted a login is not unused, and two logins about to use the
   same one, or one about to use it again, are recorded. *)
Spent ==
  /\ \A c \in admitted : code[c] \in {"used", "deleted"}
  /\ \A r \in Requests : pc[r] = "consume" =>
       /\ code[factor[r]] # "none"
       /\ factor[r] \in admitted => factor[r] \in shared
       /\ \A q \in Requests \ {r} :
            pc[q] = "consume" /\ factor[q] = factor[r] => factor[r] \in shared

(* Who inserts codes does so alone, after the old ones are gone. *)
InsertsAlone ==
  ~mixed => \A r \in Requests : pc[r] = "insert_code" =>
              /\ Rows = made[r]
              /\ \A q \in Requests \ {r} : pc[q] # "insert_code"

(* With MFA on and nobody replacing them, all codes are there, and the user
   knows them or is about to. *)
CompleteWhenOn ==
  ~mixed /\ enabled /\ ~At("delete_codes") /\ ~At("insert_code") =>
    /\ Cardinality(Rows) = CodeCount
    /\ Rows \subseteq given \/ \E r \in Requests : pc[r] = "tell" /\ Rows = made[r]

(* With MFA off and nobody about to delete them, there are no codes. *)
NoneWhenOff == ~mixed /\ ~enabled /\ ~At("delete_for_disable") => Rows = {}

IInv == /\ TypeOK /\ Confirmed /\ ProvenUnlessTorn /\ Spent /\ CodeAdmitsOnce
        /\ InsertsAlone /\ CompleteWhenOn /\ NoneWhenOff
=============================================================================
