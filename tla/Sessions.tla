------------------------------ MODULE Sessions ------------------------------
(***************************************************************************)
(* Refresh tokens: how sessions start, rotate and end.                     *)
(*                                                                         *)
(* tokenService.js keeps one refresh_tokens row per issued token.  Every   *)
(* operation is a chain of SQL statements, each committed by itself, so    *)
(* two requests interleave between any two statements; an action is one    *)
(* statement and the code up to the next.  Names of a family and of a      *)
(* token coincide: a family is named by the first token issued in it.      *)
(*                                                                         *)
(* The last three variables are not in the code: they record what happened *)
(* between statements so that the properties can tell it apart.            *)
(***************************************************************************)
EXTENDS Naturals, FiniteSets

CONSTANTS
  Users,        \* accounts, verified and active at the start
  MfaUsers,     \* those with TOTP switched on
  Passwords,    \* passwords a user may choose
  Tokens,       \* refresh tokens that may ever be issued: bounds the sessions
  Requests,     \* request slots
  Workload,     \* the requests clients may send
  NoToken,      \* a token's family before the token is issued
  NoUser,       \* its holder
  NoPassword,   \* the password of its family
  NoRequest     \* content of an idle slot

Operations == {"login", "verify_mfa", "refresh", "logout", "change_password",
               "change_role", "suspend", "reactivate", "delete_account"}

CookieOperations   == {"refresh", "logout"}
PasswordOperations == {"login", "verify_mfa", "change_password"}

(* user: the account logging in or acted on; password: the one sent with a
   login, or chosen in change_password; token: the refresh cookie *)
RequestData ==
  {w \in [op       : Operations,
          user     : Users \cup {NoUser},
          password : Passwords \cup {NoPassword},
          token    : Tokens \cup {NoToken}] :
     /\ w.op \in CookieOperations <=> w.token # NoToken
     /\ w.op \in CookieOperations <=> w.user = NoUser
     /\ w.op \in PasswordOperations <=> w.password # NoPassword}

ASSUME MfaUsersTyped == MfaUsers \subseteq Users
ASSUME WorkloadData == Workload \subseteq RequestData
ASSUME NothingIsNothing == /\ NoToken \notin Tokens
                           /\ NoUser \notin Users
                           /\ NoPassword \notin Passwords
                           /\ NoRequest \notin RequestData

VARIABLES
  status,     \* users.status, or "gone" without a row
  password,   \* what users.password_hash accepts
  challenge,  \* the passwords behind the MFA challenges handed out
  row,        \* refresh_tokens: "unissued", "live", "revoked" or "gone"
  holder,     \* refresh_tokens.user_id
  family,     \* refresh_tokens.family_id
  pc,         \* the next statement of a request
  req,        \* what it asks for
  result,     \* what the client is told
  opened,     \* the password the family of a token was opened with
  alarmed,    \* families revoked because of reuse
  raced,      \* families two rotations of which, or a rotation and the
              \* revocation of the family, overlapped
  loose       \* users a revocation of all sessions of whom was overtaken by a
              \* session being issued, or was cut short

accounts == <<status, password, challenge>>
tokens   == <<row, holder, family, opened>>
history  == <<alarmed, raced, loose>>
vars     == <<accounts, tokens, pc, req, result, history>>

Pcs == {"idle", "login_find", "mfa_find", "rotate_find", "family_revoke",
        "rotate_user", "rotate_revoke", "issue", "logout", "change_find",
        "write", "revoke_all", "erase", "done"}

(* the statement that opens each operation *)
First == [login           |-> "login_find",
          verify_mfa      |-> "mfa_find",
          refresh         |-> "rotate_find",
          logout          |-> "logout",
          change_password |-> "change_find",
          change_role     |-> "write",
          suspend         |-> "write",
          reactivate      |-> "write",
          delete_account  |-> "revoke_all"]

Results == {"none", "ok", "challenge", "bad_request", "unauthorized", "forbidden",
            "not_found", "server_error", "lost"}

(* errorHandler keeps the status of an HttpError only.  tokenService throws
   plain Errors with a status of 401, and the database its own. *)
ErrorReply(isHttpError, kind) == IF isHttpError THEN kind ELSE "server_error"

Op(r)       == req[r].op
User(r)     == req[r].user
Password(r) == req[r].password
Token(r)    == req[r].token

(* SELECT ... FROM users WHERE id = $1 returns a row; a mistake: always *)
ExistsAlways(u) == TRUE
Exists(u) == status[u] # "gone"

Live(f)    == {t \in Tokens : row[t] = "live" /\ family[t] = f}
LiveOf(u)  == {t \in Tokens : row[t] = "live" /\ holder[t] = u}

(* rotations of family f that found their token live and have not answered *)
Rotating(r, f) == /\ pc[r] \in {"rotate_user", "rotate_revoke", "issue"}
                  /\ Op(r) = "refresh"
                  /\ family[Token(r)] = f
(* requests that will issue a token to u unless something stops them *)
Account(r) == IF Op(r) = "refresh" THEN holder[Token(r)] ELSE User(r)
Issuing(r, u) == /\ pc[r] \in {"rotate_user", "rotate_revoke", "issue"}
                 /\ Account(r) = u

Init ==
  /\ status = [u \in Users |-> "active"]
  /\ password \in [Users -> Passwords]
  /\ challenge = [u \in Users |-> {}]
  /\ row = [t \in Tokens |-> "unissued"]
  /\ holder = [t \in Tokens |-> NoUser]
  /\ family = [t \in Tokens |-> NoToken]
  /\ opened = [t \in Tokens |-> NoPassword]
  /\ pc = [r \in Requests |-> "idle"]
  /\ req = [r \in Requests |-> NoRequest]
  /\ result = [r \in Requests |-> "none"]
  /\ alarmed = {} /\ raced = {} /\ loose = {}

-----------------------------------------------------------------------------

Goto(r, next) == pc' = [pc EXCEPT ![r] = next]

Answer(r, what) ==
  /\ Goto(r, "done")
  /\ result' = [result EXCEPT ![r] = what]

(* A client can only send a cookie or a challenge it was given. *)
Start(r) ==
  /\ pc[r] = "idle"
  /\ \E w \in Workload :
       /\ w.op \in {"refresh", "logout"} => row[w.token] # "unissued"
       /\ w.op = "verify_mfa" => w.password \in challenge[w.user]
       /\ req' = [req EXCEPT ![r] = w]
       /\ Goto(r, First[w.op])
  /\ UNCHANGED <<accounts, tokens, result, history>>

Reply(r) ==
  /\ pc[r] = "done"
  /\ Goto(r, "idle")
  /\ req' = [req EXCEPT ![r] = NoRequest]
  /\ result' = [result EXCEPT ![r] = "none"]
  /\ UNCHANGED <<accounts, tokens, history>>

-----------------------------------------------------------------------------
(* Login: authService.login and verifyMfa, tokenService.startSession. *)

(* the checks of login on the row it found, the lockout left to another
   module; a mistake: it does not look at the status *)
LoginRefusalUnsuspended(r) ==
  IF ~Exists(User(r)) \/ Password(r) # password[User(r)] THEN "unauthorized" ELSE "none"
LoginRefusal(r) ==
  CASE status[User(r)] = "suspended" -> "forbidden"
    [] status[User(r)] = "gone" -> "unauthorized"
    [] status[User(r)] = "active" ->
         IF Password(r) # password[User(r)] THEN "unauthorized" ELSE "none"

(* findByEmail, the checks, and what follows without another statement on the
   tables modelled here: a challenge or a new session *)
LoginFind(r) ==
  /\ pc[r] = "login_find"
  /\ LET u == User(r)
     IN \/ /\ LoginRefusal(r) # "none"
           /\ Answer(r, LoginRefusal(r))
           /\ UNCHANGED challenge
        \/ /\ LoginRefusal(r) = "none"
           /\ u \in MfaUsers
           /\ Answer(r, "challenge")
           /\ challenge' = [challenge EXCEPT ![u] = @ \cup {Password(r)}]
        \/ /\ LoginRefusal(r) = "none"
           /\ u \notin MfaUsers
           /\ Goto(r, "issue")
           /\ UNCHANGED <<challenge, result>>
  /\ UNCHANGED <<status, password, tokens, req, history>>

(* findById by the user the challenge names, and a code that is right or not *)
MfaFind(r) ==
  /\ pc[r] = "mfa_find"
  /\ \/ Answer(r, IF Exists(User(r)) THEN "bad_request" ELSE "unauthorized")
     \/ /\ Exists(User(r))
        /\ Goto(r, "issue")
        /\ UNCHANGED result
  /\ UNCHANGED <<accounts, tokens, req, history>>

(* INSERT INTO refresh_tokens: into the presented token's family when rotating,
   into one of its own otherwise.  The foreign key refuses a user who is gone. *)
Issue(r) ==
  /\ pc[r] = "issue"
  /\ \/ /\ ~Exists(Account(r))
        /\ Answer(r, ErrorReply(FALSE, "unauthorized"))
        /\ UNCHANGED tokens
     \/ \E t \in Tokens :
          /\ row[t] = "unissued"
          /\ Exists(Account(r))
          /\ row' = [row EXCEPT ![t] = "live"]
          /\ holder' = [holder EXCEPT ![t] = Account(r)]
          /\ family' = [family EXCEPT ![t] =
                          IF Op(r) = "refresh" THEN family[Token(r)] ELSE t]
          /\ opened' = [opened EXCEPT ![t] =
                          IF Op(r) = "refresh" THEN opened[Token(r)] ELSE Password(r)]
          /\ Answer(r, "ok")
  /\ UNCHANGED <<accounts, req, history>>

-----------------------------------------------------------------------------
(* tokenService.rotate *)

(* a token that may be rotated; a mistake: revoked_at is not looked at *)
UsableThoughRevoked(t) == row[t] \in {"live", "revoked"}
Usable(t) == row[t] = "live"

(* jwt.verify, then SELECT by hash: refused when the JWT has expired or the row
   is gone, an alarm when the row is revoked. *)
RotateFind(r) ==
  /\ pc[r] = "rotate_find"
  /\ \/ /\ Answer(r, ErrorReply(FALSE, "unauthorized"))
        /\ UNCHANGED history
     \/ /\ row[Token(r)] = "revoked"
        /\ Goto(r, "family_revoke")
        /\ UNCHANGED <<result, history>>
     \/ /\ Usable(Token(r))
        /\ Goto(r, "rotate_user")
        /\ raced' = IF \E q \in Requests : Rotating(q, family[Token(r)])
                      THEN raced \cup {family[Token(r)]} ELSE raced
        /\ UNCHANGED <<result, alarmed, loose>>
  /\ UNCHANGED <<accounts, tokens, req>>

(* the rows UPDATE ... WHERE family_id = $1 AND revoked_at IS NULL changes; a
   mistake: WHERE id = $1 *)
PresentedAlone(r) == {Token(r)}
Lineage(r) == Live(family[Token(r)])

(* UPDATE refresh_tokens SET revoked_at = now() WHERE family_id = $1 *)
FamilyRevoke(r) ==
  /\ pc[r] = "family_revoke"
  /\ LET f == family[Token(r)]
     IN /\ row' = [t \in Tokens |-> IF t \in Lineage(r) THEN "revoked" ELSE row[t]]
        /\ alarmed' = alarmed \cup {f}
        /\ raced' = IF \E q \in Requests : Rotating(q, f) THEN raced \cup {f} ELSE raced
  /\ Answer(r, ErrorReply(FALSE, "unauthorized"))
  /\ UNCHANGED <<accounts, holder, family, opened, req, loose>>

(* loadUser and the check of its status *)
RotateUser(r) ==
  /\ pc[r] = "rotate_user"
  /\ IF status[Account(r)] # "active"
       THEN Answer(r, ErrorReply(FALSE, "unauthorized"))
       ELSE Goto(r, "rotate_revoke") /\ UNCHANGED result
  /\ UNCHANGED <<accounts, tokens, req, history>>

(* a mistake: the old token stays as it was *)
RotateWithoutRevoke(r) ==
  /\ pc[r] = "rotate_revoke"
  /\ Goto(r, "issue")
  /\ UNCHANGED <<accounts, tokens, req, result, history>>

(* UPDATE refresh_tokens SET revoked_at = now() WHERE id = $1, revoked or not *)
RotateRevoke(r) ==
  /\ pc[r] = "rotate_revoke"
  /\ row' = [row EXCEPT ![Token(r)] = IF @ = "gone" THEN @ ELSE "revoked"]
  /\ Goto(r, "issue")
  /\ UNCHANGED <<accounts, holder, family, opened, req, result, history>>

(* tokenService.revoke *)
Logout(r) ==
  /\ pc[r] = "logout"
  /\ row' = [row EXCEPT ![Token(r)] = IF @ = "live" THEN "revoked" ELSE @]
  /\ Answer(r, "ok")
  /\ UNCHANGED <<accounts, holder, family, opened, req, history>>

-----------------------------------------------------------------------------
(* What ends all sessions of a user. *)

(* authService.changePassword: findById, the current password, the policy and
   the recent passwords, of which the current one is always one *)
ChangeFind(r) ==
  /\ pc[r] = "change_find"
  /\ \/ /\ ~Exists(User(r))
        /\ Answer(r, "unauthorized")
     \/ /\ Exists(User(r))
        /\ Answer(r, "bad_request")
     \/ /\ Exists(User(r))
        /\ Password(r) # password[User(r)]
        /\ Goto(r, "write")
        /\ UNCHANGED result
  /\ UNCHANGED <<accounts, tokens, req, history>>

(* only reactivateUser leaves the sessions alone; a mistake: so does
   changePassword *)
KeepsSessionsToo(op) == op \in {"reactivate", "change_password"}
KeepsSessions(op) == op = "reactivate"

(* userModel.setPassword, setStatus or setRole; without a row the first fails
   on the foreign key of password_history, the others find nothing *)
Write(r) ==
  /\ pc[r] = "write"
  /\ LET u == User(r)
     IN \/ /\ ~Exists(u)
           /\ Answer(r, ErrorReply(Op(r) # "change_password", "not_found"))
           /\ UNCHANGED accounts
        \/ /\ Exists(u)
           /\ status' = [status EXCEPT ![u] =
                            CASE Op(r) = "suspend"    -> "suspended"
                              [] Op(r) = "reactivate" -> "active"
                              [] OTHER                -> @]
           /\ password' = [password EXCEPT ![u] =
                              IF Op(r) = "change_password" THEN Password(r) ELSE @]
           /\ UNCHANGED challenge
           /\ IF KeepsSessions(Op(r))
                THEN Answer(r, "ok")
                ELSE Goto(r, "revoke_all") /\ UNCHANGED result
  /\ UNCHANGED <<tokens, req, history>>

(* tokenService.revokeAllForUser *)
RevokeAll(r) ==
  /\ pc[r] = "revoke_all"
  /\ row' = [t \in Tokens |-> IF t \in LiveOf(User(r)) THEN "revoked" ELSE row[t]]
  /\ loose' = IF \E q \in Requests : Issuing(q, User(r))
                THEN loose \cup {User(r)} ELSE loose
  /\ IF Op(r) = "delete_account"
       THEN Goto(r, "erase") /\ UNCHANGED result
       ELSE Answer(r, "ok")
  /\ UNCHANGED <<accounts, holder, family, opened, req, alarmed, raced>>

(* DELETE FROM users, and its tokens with it *)
Erase(r) ==
  /\ pc[r] = "erase"
  /\ status' = [status EXCEPT ![User(r)] = "gone"]
  /\ row' = [t \in Tokens |-> IF holder[t] = User(r) THEN "gone" ELSE row[t]]
  /\ Answer(r, "ok")
  /\ UNCHANGED <<password, challenge, holder, family, opened, req, history>>

(* The connection breaks, the pool times out or the process dies between two
   statements.  A change of an account whose sessions are not revoked then
   leaves them as they are; for change_password the INSERT into
   password_history between the two is one more statement to fail. *)
Lose(r) ==
  /\ pc[r] \notin {"idle", "done"}
  /\ Answer(r, "lost")
  /\ loose' = IF pc[r] = "revoke_all" THEN loose \cup {User(r)} ELSE loose
  /\ UNCHANGED <<accounts, tokens, req, alarmed, raced>>

-----------------------------------------------------------------------------

Login(r)  == LoginFind(r) \/ MfaFind(r) \/ Issue(r)
Rotate(r) == RotateFind(r) \/ FamilyRevoke(r) \/ RotateUser(r) \/ RotateRevoke(r)
End(r)    == Logout(r) \/ ChangeFind(r) \/ Write(r) \/ RevokeAll(r) \/ Erase(r)

Next == \E r \in Requests :
          Start(r) \/ Login(r) \/ Rotate(r) \/ End(r) \/ Lose(r) \/ Reply(r)

Spec == Init /\ [][Next]_vars

-----------------------------------------------------------------------------
(* Properties. *)

(* Types; a token that was issued has a holder, and a family opened by a token
   of the same holder. *)
TypeOK ==
  /\ status \in [Users -> {"active", "suspended", "gone"}]
  /\ password \in [Users -> Passwords]
  /\ challenge \in [Users -> SUBSET Passwords]
  /\ row \in [Tokens -> {"unissued", "live", "revoked", "gone"}]
  /\ holder \in [Tokens -> Users \cup {NoUser}]
  /\ family \in [Tokens -> Tokens \cup {NoToken}]
  /\ opened \in [Tokens -> Passwords \cup {NoPassword}]
  /\ pc \in [Requests -> Pcs]
  /\ req \in [Requests -> Workload \cup {NoRequest}]
  /\ result \in [Requests -> Results]
  /\ alarmed \subseteq Tokens /\ raced \subseteq Tokens /\ loose \subseteq Users
  /\ \A r \in Requests : req[r] = NoRequest <=> pc[r] = "idle"
  /\ \A t \in Tokens : row[t] # "unissued" => holder[t] \in Users /\ family[t] \in Tokens

(* "Every refresh issues a new refresh token and revokes the old one"
   (tokenService.js:15): unless rotations overlapped, a family never has two
   live tokens, whatever else happens to them meanwhile. *)
OneLiveToken ==
  \A f \in Tokens : f \notin raced => Cardinality(Live(f)) <= 1

(* A family revoked for reuse has no live token any more, unless a rotation
   was on its way when it was revoked (tokenService.js:84-94). *)
AlarmEndsFamily ==
  \A f \in alarmed \ raced : Live(f) = {}

(* A session opened with an old password is over once the change of the
   password is, unless the revocation was overtaken or cut short
   (authService.js:183-184). *)
Changing(u) == \E r \in Requests :
  pc[r] = "revoke_all" /\ Op(r) = "change_password" /\ User(r) = u
OldPasswordEndsSessions ==
  \A u \in Users \ (MfaUsers \cup loose) : \A t \in LiveOf(u) :
    opened[t] = password[u] \/ Changing(u)

(* The same of a suspension (adminController.js:29-31). *)
Suspending(u) == \E r \in Requests :
  pc[r] = "revoke_all" /\ Op(r) = "suspend" /\ User(r) = u
SuspensionEndsSessions ==
  \A u \in Users \ (MfaUsers \cup loose) :
    status[u] = "suspended" => LiveOf(u) = {} \/ Suspending(u)

(* An account that is deleted leaves no session behind, even one that was
   being issued (profileService.js:86-90). *)
DeletionEndsSessions ==
  \A u \in Users : status[u] = "gone" => LiveOf(u) = {}

(* A family that is dead, without a live token and without a rotation that
   found one, stays dead. *)
Dead(f) == Live(f) = {} /\ \A r \in Requests : ~Rotating(r, f)
FamilyStaysDead ==
  [][\A f \in Tokens : row[f] # "unissued" /\ Dead(f) => Dead(f)']_vars
=============================================================================
