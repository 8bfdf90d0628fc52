--------------------------- MODULE AccessControl ---------------------------
(***************************************************************************)
(* Who may administrate: the role and status of a user in the database,    *)
(* and the role its access tokens were signed with (tokenService.js,       *)
(* authenticate.js, authorize.js, adminController.js).                     *)
(*                                                                         *)
(* A token is believed until it expires; authenticate does not look into   *)
(* the database.  Of two tokens of a user that name the same role only the *)
(* younger matters, so `life` is the time that one has left.               *)
(***************************************************************************)
EXTENDS Naturals

CONSTANTS
  Users,
  Admins,     \* the administrators there are at first
  Roles,
  Ttl,        \* the lifetime of an access token, in ticks of the clock
  Requests,   \* slots for requests under way
  NoUser

ASSUME RolesTyped == {"admin", "user"} \subseteq Roles
ASSUME UsersTyped == /\ Admins \subseteq Users /\ Admins # {}
                     /\ NoUser \notin Users
ASSUME TtlTyped == Ttl \in Nat \ {0}

VARIABLES
  role,     \* users.role
  status,   \* users.status; "deleted" when the row is gone
  life,     \* what is left of the youngest access token of a user that names a role
  signing,  \* a login or refresh has loaded its user and not signed yet
  acting,   \* an administrator's request that has passed requireRole
  since,    \* ticks since what a user may do was last changed
  late      \* tokens that were signed for what their user may no longer do

users   == <<role, status>>
history == <<since, late>>
vars    == <<users, life, signing, acting, history>>

NoLoad   == [user |-> NoUser, role |-> "user"]
NoAction == [actor |-> NoUser, op |-> "role", target |-> NoUser, canonical |-> TRUE, role |-> "user"]

Ops == {"role", "suspend", "reactivate"}

Unknown == "unknown"   \* a role that is none

(* what the database says a user may do *)
Authority(u) == IF status[u] = "active" THEN role[u] ELSE "none"

ActiveAdmins == {u \in Users : Authority(u) = "admin"}

Init ==
  /\ role = [u \in Users |-> IF u \in Admins THEN "admin" ELSE "user"]
  /\ status = [u \in Users |-> "active"]
  /\ life = [u \in Users |-> [x \in Roles |-> 0]]
  /\ signing = [r \in Requests |-> NoLoad]
  /\ acting = [r \in Requests |-> NoAction]
  /\ since = [u \in Users |-> Ttl]
  /\ late = {}

-----------------------------------------------------------------------------
(* login and refresh *)

(* A login and a refresh want an active user; the second step of a login does not look at
   the status, and its challenge may be older than a suspension. *)
MaySign(u, secondStep) == status[u] = "active" \/ (secondStep /\ status[u] = "suspended")

(* the user's row, as findById or findByEmail read it *)
LoadUser(r) ==
  /\ signing[r] = NoLoad /\ acting[r] = NoAction
  /\ \E u \in Users, secondStep \in BOOLEAN :
       /\ MaySign(u, secondStep)
       /\ signing' = [signing EXCEPT ![r] = [user |-> u, role |-> role[u]]]
  /\ UNCHANGED <<users, life, acting, history>>

(* signAccessToken, statements later, with the role of that row *)
Sign(r) ==
  /\ signing[r] # NoLoad
  /\ LET u == signing[r].user
         x == signing[r].role IN
       /\ life' = [life EXCEPT ![u][x] = Ttl]
       /\ late' = IF Authority(u) = x THEN late ELSE late \cup {<<u, x>>}
  /\ signing' = [signing EXCEPT ![r] = NoLoad]
  /\ UNCHANGED <<users, acting, since>>

(* it fails, or is refused after all *)
GiveUp(r) ==
  /\ signing[r] # NoLoad
  /\ signing' = [signing EXCEPT ![r] = NoLoad]
  /\ UNCHANGED <<users, life, acting, history>>

-----------------------------------------------------------------------------
(* administration *)

(* verifyAccessToken: the signature holds and the token has not expired *)
Verified(u, x) == life[u][x] > 0

requireRole(allowed, x) == x = "admin" \/ x \in allowed

roleChangeRules(x) == x \in Roles

(* a mistake: administrators may change themselves *)
AnyTarget(actor, target, canonical, op) == TRUE

(* "You cannot change your own role", "You cannot suspend yourself": the identifiers are
   compared as texts.  The database compares them as uuids, which have a text with
   capitals as well, and isUUID() lets it through. *)
Allowed(actor, target, canonical, op) == op = "reactivate" \/ ~canonical \/ target # actor

(* authenticate, requireRole('admin'), and the checks of the route and the handler *)
Administrate(r) ==
  /\ signing[r] = NoLoad /\ acting[r] = NoAction
  /\ \E a \in Users, u \in Users, canonical \in BOOLEAN, op \in Ops,
       x \in Roles \cup {Unknown}, y \in Roles :
       /\ Verified(a, y) /\ requireRole({"admin"}, y)
       /\ IF op = "role" THEN roleChangeRules(x) ELSE x = "user"
       /\ Allowed(a, u, canonical, op)
       /\ acting' = [acting EXCEPT ![r] = [actor |-> a, op |-> op, target |-> u,
                                          canonical |-> canonical, role |-> x]]
  /\ UNCHANGED <<users, life, signing, history>>

(* what is done to the row of u begins a new time for its tokens: those that said what
   u may do are no longer counted as late, those that do not are counted from now *)
Changed(u) ==
  /\ since' = [since EXCEPT ![u] = 0]
  /\ late' = {p \in late : p[1] # u}

Finish(r) == acting' = [acting EXCEPT ![r] = NoAction]

(* setRole *)
changeRole(r) ==
  /\ acting[r] # NoAction /\ acting[r].op = "role"
  /\ status[acting[r].target] # "deleted"
  /\ role' = [role EXCEPT ![acting[r].target] = acting[r].role]
  /\ Changed(acting[r].target)
  /\ Finish(r)
  /\ UNCHANGED <<status, life, signing>>

(* setStatus('suspended') *)
suspendUser(r) ==
  /\ acting[r] # NoAction /\ acting[r].op = "suspend"
  /\ status[acting[r].target] # "deleted"
  /\ status' = [status EXCEPT ![acting[r].target] = "suspended"]
  /\ Changed(acting[r].target)
  /\ Finish(r)
  /\ UNCHANGED <<role, life, signing>>

(* setStatus('active') *)
reactivateUser(r) ==
  /\ acting[r] # NoAction /\ acting[r].op = "reactivate"
  /\ status[acting[r].target] # "deleted"
  /\ status' = [status EXCEPT ![acting[r].target] = "active"]
  /\ Changed(acting[r].target)
  /\ Finish(r)
  /\ UNCHANGED <<role, life, signing>>

(* "User not found", or a lost connection *)
Fail(r) ==
  /\ acting[r] # NoAction
  /\ Finish(r)
  /\ UNCHANGED <<users, life, signing, history>>

(* DELETE /users/me: any valid token of the user will do *)
deleteAccount(u) ==
  /\ status[u] # "deleted" /\ \E x \in Roles : Verified(u, x)
  /\ status' = [status EXCEPT ![u] = "deleted"]
  /\ Changed(u)
  /\ UNCHANGED <<role, life, signing, acting>>

-----------------------------------------------------------------------------

(* a mistake: a token is renewed by being used *)
NeverOlder(n) == n
Older(n) == IF n > 0 THEN n - 1 ELSE 0

(* Time passes.  Of a token that has expired nothing needs to be known. *)
Tick ==
  /\ life' = [u \in Users |-> [x \in Roles |-> Older(life[u][x])]]
  /\ since' = [u \in Users |-> IF since[u] < Ttl THEN since[u] + 1 ELSE Ttl]
  /\ late' = {p \in late : life'[p[1]][p[2]] > 0}
  /\ UNCHANGED <<users, signing, acting>>

Next ==
  \/ \E r \in Requests :
       \/ LoadUser(r) \/ Sign(r) \/ GiveUp(r)
       \/ Administrate(r) \/ changeRole(r) \/ suspendUser(r) \/ reactivateUser(r) \/ Fail(r)
  \/ \E u \in Users : deleteAccount(u)
  \/ Tick

Spec == Init /\ [][Next]_vars

-----------------------------------------------------------------------------
TypeOK ==
  /\ role \in [Users -> Roles]
  /\ status \in [Users -> {"active", "suspended", "deleted"}]
  /\ life \in [Users -> [Roles -> 0..Ttl]]
  /\ signing \in [Requests -> [user : Users, role : Roles] \cup {NoLoad}]
  /\ acting \in [Requests -> [actor : Users, op : Ops, target : Users, canonical : BOOLEAN,
                              role : Roles] \cup {NoAction}]
  /\ since \in [Users -> 0..Ttl]
  /\ late \subseteq Users \X Roles

(* A role that was taken away, a suspension and a deletion are ignored by no access token
   for longer than a token lives (authenticate.js:22 takes the role out of the token),
   unless it was signed afterwards, by a login or a refresh that had read the row before,
   or by the second step of a login. *)
StaleAtMostTtl ==
  \A u \in Users, x \in Roles :
    life[u][x] > 0 /\ x # Authority(u) => life[u][x] + since[u] <= Ttl \/ <<u, x>> \in late

(* The last administrator is lost only by deleting the own account, by the request of one
   who is no longer administrator and whose token still says so, or by one that
   writes the own identifier in capitals (adminController.js:15 and :28). *)
LastAdminLeaves(r) ==
  /\ acting[r] # NoAction /\ acting'[r] = NoAction
  /\ Authority(acting[r].actor) # "admin" \/ ~acting[r].canonical
AnAdminRemains ==
  [][ActiveAdmins # {} /\ ActiveAdmins' = {} =>
       \/ \E u \in Users : status[u] # "deleted" /\ status'[u] = "deleted"
       \/ \E r \in Requests : LastAdminLeaves(r)]_vars
=============================================================================
