-------------------------- MODULE SessionsInvariant --------------------------
(* The inductive invariant behind the properties of Sessions: what requests
   between two of their statements may still do to the tokens. *)
EXTENDS Sessions

(* An operation is only at its own statements. *)
PcOfOperation(r) ==
  /\ pc[r] = "login_find" => Op(r) = "login"
  /\ pc[r] = "mfa_find" => Op(r) = "verify_mfa"
  /\ pc[r] \in {"rotate_find", "family_revoke", "rotate_user", "rotate_revoke"}
       => Op(r) = "refresh"
  /\ pc[r] = "issue" => Op(r) \in {"login", "verify_mfa", "refresh"}
  /\ pc[r] = "logout" => Op(r) = "logout"
  /\ pc[r] = "change_find" => Op(r) = "change_password"
  /\ pc[r] = "write" => Op(r) \in {"change_password", "change_role", "suspend", "reactivate"}
  /\ pc[r] = "revoke_all" => Op(r) \in {"change_password", "change_role", "suspend",
                                        "delete_account"}
  /\ pc[r] = "erase" => Op(r) = "delete_account"

(* Tokens in cookies and families in tokens were issued; only users with MFA
   ever get a challenge. *)
Grounded ==
  /\ \A r \in Requests : /\ PcOfOperation(r)
                         /\ pc[r] # "idle" /\ Op(r) \in CookieOperations =>
                              row[Token(r)] # "unissued"
                         /\ pc[r] # "idle" /\ Op(r) = "verify_mfa" => User(r) \in MfaUsers
                         /\ pc[r] = "issue" /\ Op(r) = "login" => User(r) \notin MfaUsers
  /\ \A t \in Tokens : IF row[t] = "unissued" THEN holder[t] = NoUser
                                               ELSE row[family[t]] # "unissued"
  /\ \A f \in alarmed : row[f] # "unissued"
  /\ \A u \in Users : challenge[u] # {} => u \in MfaUsers

(* In a family without overlapping rotations the one rotation on its way has
   the one live token, and none is live once it has revoked it. *)
OneLineage ==
  \A f \in Tokens : f \notin raced =>
    /\ \A s, t \in Live(f) : s = t
    /\ \A q, r \in Requests : Rotating(q, f) /\ Rotating(r, f) => q = r
    /\ \A r \in Requests : Rotating(r, f) =>
         Live(f) \subseteq (IF pc[r] = "issue" THEN {} ELSE {Token(r)})

AlarmedIsDead == \A f \in alarmed \ raced : Dead(f)

(* the password behind the session a request is about to issue *)
OpenedBy(r) == IF Op(r) = "refresh" THEN opened[Token(r)] ELSE Password(r)

(* Sessions that exist, or are on their way, were opened with the password of
   today, or the change that will end them is about to. *)
SessionsCurrent ==
  \A u \in Users \ (MfaUsers \cup loose) : ~Changing(u) =>
    /\ \A t \in LiveOf(u) : opened[t] = password[u]
    /\ \A r \in Requests : Issuing(r, u) => OpenedBy(r) = password[u]

(* A suspended account has no session and none on its way, or the suspension
   is about to end them. *)
SuspendedIsOut ==
  \A u \in Users \ (MfaUsers \cup loose) : status[u] = "suspended" /\ ~Suspending(u) =>
    /\ LiveOf(u) = {}
    /\ \A r \in Requests : ~Issuing(r, u)

IInv == /\ TypeOK /\ Grounded /\ OneLineage /\ AlarmedIsDead
        /\ SessionsCurrent /\ SuspendedIsOut /\ DeletionEndsSessions
=============================================================================
