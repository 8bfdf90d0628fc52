------------------------ MODULE AccessControlProofs ------------------------
(* Proofs about AccessControl, for any number of users, roles and requests
   and any lifetime of the tokens. *)
EXTENDS AccessControl, TLAPS

LEMMA InitTyped == Init => TypeOK
BY RolesTyped, UsersTyped, TtlTyped DEF Init, TypeOK, NoLoad, NoAction, Ops

(* What a request carries, while it carries something. *)
LEMMA SlotsTyped ==
  ASSUME TypeOK, NEW r \in Requests
  PROVE  /\ signing[r] # NoLoad => signing[r].user \in Users /\ signing[r].role \in Roles
         /\ acting[r] # NoAction => /\ acting[r].actor \in Users /\ acting[r].target \in Users
                                   /\ acting[r].role \in Roles
BY DEF TypeOK

LEMMA NextTyped == TypeOK /\ [Next]_vars => TypeOK'
<1> SUFFICES ASSUME TypeOK, [Next]_vars PROVE TypeOK'
  OBVIOUS
<1> USE TtlTyped, RolesTyped, UsersTyped DEF TypeOK, users, history
<1>1. ASSUME NEW r \in Requests, LoadUser(r) PROVE TypeOK'
  BY <1>1 DEF LoadUser
<1>2. ASSUME NEW r \in Requests, Sign(r) PROVE TypeOK'
  <2>1. signing[r].role \in Roles /\ signing[r].user \in Users
    BY <1>2, SlotsTyped DEF Sign
  <2>2. life' \in [Users -> [Roles -> 0..Ttl]]
    BY <1>2, <2>1 DEF Sign
  <2>3. signing' \in [Requests -> [user : Users, role : Roles] \cup {NoLoad}]
    BY <1>2 DEF Sign
  <2>4. late' \subseteq Users \X Roles
    BY <1>2, <2>1 DEF Sign
  <2> QED
    BY <1>2, <2>2, <2>3, <2>4 DEF Sign
<1>3. ASSUME NEW r \in Requests, GiveUp(r) PROVE TypeOK'
  BY <1>3 DEF GiveUp, NoLoad
<1>4. ASSUME NEW r \in Requests, Administrate(r) PROVE TypeOK'
  BY <1>4 DEF Administrate, roleChangeRules
<1>5. ASSUME NEW r \in Requests, changeRole(r) \/ suspendUser(r) \/ reactivateUser(r) PROVE TypeOK'
  <2>0. acting[r] # NoAction
    BY <1>5 DEF changeRole, suspendUser, reactivateUser
  <2>1. acting' \in [Requests -> [actor : Users, op : Ops, target : Users, canonical : BOOLEAN,
                                  role : Roles] \cup {NoAction}]
    BY <1>5 DEF changeRole, suspendUser, reactivateUser, Finish
  <2>4. Changed(acting[r].target)
    BY <1>5 DEF changeRole, suspendUser, reactivateUser
  <2>2. since' \in [Users -> 0..Ttl] /\ late' \subseteq Users \X Roles
    <3>1. since' \in [Users -> 0..Ttl]
      <4>1. 0 \in 0..Ttl /\ since' = [since EXCEPT ![acting[r].target] = 0]
        BY <2>4 DEF Changed
      <4>2. since \in [Users -> 0..Ttl]
        OBVIOUS
      <4> QED
        BY <4>1, <4>2
    <3>2. late' \subseteq late
      BY <2>4 DEF Changed
    <3> QED
      BY <3>1, <3>2
  <2>3. role' \in [Users -> Roles] /\ status' \in [Users -> {"active", "suspended", "deleted"}]
    BY <1>5, <2>0, SlotsTyped DEF changeRole, suspendUser, reactivateUser
  <2> QED
    BY <1>5, <2>1, <2>2, <2>3 DEF changeRole, suspendUser, reactivateUser
<1>6. ASSUME NEW r \in Requests, Fail(r) PROVE TypeOK'
  BY <1>6 DEF Fail, Finish, NoAction, Ops
<1>7. ASSUME NEW u \in Users, deleteAccount(u) PROVE TypeOK'
  BY <1>7 DEF deleteAccount, Changed
<1>8. CASE Tick
  <2>1. \A n \in 0..Ttl : Older(n) \in 0..Ttl
    BY DEF Older
  <2>2. life' \in [Users -> [Roles -> 0..Ttl]]
    BY <1>8, <2>1 DEF Tick
  <2>3. since' \in [Users -> 0..Ttl]
    BY <1>8 DEF Tick
  <2> QED
    BY <1>8, <2>2, <2>3 DEF Tick
<1>9. CASE UNCHANGED vars
  BY <1>9 DEF vars
<1> QED
  BY <1>1, <1>2, <1>3, <1>4, <1>5, <1>6, <1>7, <1>8, <1>9 DEF Next

THEOREM TypesHold == Spec => []TypeOK
BY InitTyped, NextTyped, PTL DEF Spec

-----------------------------------------------------------------------------
(* How long a token is believed. *)

StaleBound(u, x) ==
  life[u][x] > 0 /\ x # Authority(u) => life[u][x] + since[u] <= Ttl \/ <<u, x>> \in late

(* A change of a row begins a new time for the tokens of its user. *)
LEMMA ChangeBounds ==
  ASSUME TypeOK, StaleAtMostTtl, NEW t \in Users, Changed(t), UNCHANGED life,
         \A u \in Users \ {t} : role'[u] = role[u] /\ status'[u] = status[u]
  PROVE  StaleAtMostTtl'
<1> SUFFICES ASSUME NEW u \in Users, NEW x \in Roles PROVE StaleBound(u, x)'
  BY DEF StaleAtMostTtl, StaleBound
<1>1. CASE u = t
  <2>1. since'[u] = 0 /\ life'[u][x] \in 0..Ttl
    BY <1>1 DEF Changed, TypeOK
  <2> QED
    BY <2>1, TtlTyped DEF StaleBound
<1>2. CASE u # t
  <2>1. since'[u] = since[u] /\ (<<u, x>> \in late => <<u, x>> \in late')
    BY <1>2 DEF Changed, TypeOK
  <2>2. Authority(u)' = Authority(u)
    BY <1>2 DEF Authority
  <2> QED
    BY <2>1, <2>2 DEF StaleAtMostTtl, StaleBound
<1> QED
  BY <1>1, <1>2

(* A login or refresh names the role of now, or is counted as late. *)
LEMMA SignBounds ==
  ASSUME TypeOK, StaleAtMostTtl, NEW r \in Requests, Sign(r)
  PROVE  StaleAtMostTtl'
<1> SUFFICES ASSUME NEW u \in Users, NEW x \in Roles PROVE StaleBound(u, x)'
  BY DEF StaleAtMostTtl, StaleBound
<1> DEFINE t == signing[r].user
           y == signing[r].role
<1>0. t \in Users /\ y \in Roles
  BY SlotsTyped DEF Sign
<1>1. /\ life' = [life EXCEPT ![t][y] = Ttl]
      /\ late' = IF Authority(t) = y THEN late ELSE late \cup {<<t, y>>}
      /\ UNCHANGED <<users, since>>
  BY DEF Sign
<1>2. Authority(u)' = Authority(u) /\ since' = since
  BY <1>1 DEF Authority, users
<1> HIDE DEF t, y
<1>3. CASE u = t /\ x = y
  BY <1>1, <1>2, <1>3 DEF StaleBound
<1>4. CASE ~(u = t /\ x = y)
  <2>1. life'[u][x] = life[u][x]
    BY <1>0, <1>1, <1>4 DEF TypeOK
  <2>2. <<u, x>> \in late => <<u, x>> \in late'
    BY <1>1
  <2> QED
    BY <1>2, <2>1, <2>2 DEF StaleAtMostTtl, StaleBound
<1> QED
  BY <1>3, <1>4

LEMMA TickBounds ==
  ASSUME TypeOK, StaleAtMostTtl, Tick
  PROVE  StaleAtMostTtl'
<1> SUFFICES ASSUME NEW u \in Users, NEW x \in Roles PROVE StaleBound(u, x)'
  BY DEF StaleAtMostTtl, StaleBound
<1>1. /\ life'[u][x] = Older(life[u][x])
      /\ since'[u] = IF since[u] < Ttl THEN since[u] + 1 ELSE Ttl
      /\ life[u][x] \in 0..Ttl /\ since[u] \in 0..Ttl
  BY DEF Tick, TypeOK
<1>2. Authority(u)' = Authority(u)
  BY DEF Tick, Authority, users
<1>3. life'[u][x] > 0 /\ <<u, x>> \in late => <<u, x>> \in late'
  BY DEF Tick
<1>4. life'[u][x] \in Nat /\ (life'[u][x] > 0 => life[u][x] = life'[u][x] + 1)
  BY <1>1, TtlTyped DEF Older
<1>5. StaleBound(u, x)
  BY DEF StaleAtMostTtl, StaleBound
<1>6. CASE life'[u][x] > 0 /\ x # Authority(u) /\ <<u, x>> \notin late
  <2>1. life[u][x] + since[u] <= Ttl
    BY <1>1, <1>4, <1>5, <1>6, TtlTyped DEF StaleBound
  <2>2. life'[u][x] + since'[u] <= Ttl
    BY <1>1, <1>4, <1>6, <2>1, TtlTyped
  <2> QED
    BY <2>2 DEF StaleBound
<1> QED
  BY <1>2, <1>3, <1>6 DEF StaleBound

LEMMA NextBounds == TypeOK /\ StaleAtMostTtl /\ [Next]_vars => StaleAtMostTtl'
<1> SUFFICES ASSUME TypeOK, StaleAtMostTtl, [Next]_vars PROVE StaleAtMostTtl'
  OBVIOUS
<1>1. CASE UNCHANGED <<users, life, history>>
  BY <1>1 DEF users, history, StaleAtMostTtl, Authority
<1>2. ASSUME NEW r \in Requests, changeRole(r) \/ suspendUser(r) \/ reactivateUser(r)
      PROVE  StaleAtMostTtl'
  <2>1. acting[r].target \in Users
    BY <1>2, SlotsTyped DEF changeRole, suspendUser, reactivateUser
  <2>2. /\ Changed(acting[r].target) /\ UNCHANGED life
        /\ \A u \in Users \ {acting[r].target} : role'[u] = role[u] /\ status'[u] = status[u]
    BY <1>2 DEF changeRole, suspendUser, reactivateUser, TypeOK
  <2> QED
    BY <2>1, <2>2, ChangeBounds
<1>3. ASSUME NEW u \in Users, deleteAccount(u) PROVE StaleAtMostTtl'
  BY <1>3, ChangeBounds DEF deleteAccount, TypeOK
<1> QED
  BY <1>1, <1>2, <1>3, SignBounds, TickBounds
     DEF Next, vars, LoadUser, GiveUp, Administrate, Fail

(* An access token ignores what became of its user for no longer than its lifetime,
   unless it was signed for a row read before (tokenService.js:20, authenticate.js:22). *)
THEOREM TokensAgeOut == Spec => []StaleAtMostTtl
<1>1. Init => StaleAtMostTtl
  BY DEF Init, StaleAtMostTtl
<1> QED
  BY <1>1, InitTyped, NextTyped, NextBounds, PTL DEF Spec

-----------------------------------------------------------------------------
(* The last administrator. *)

(* What an administrator does passed the check of the handler. *)
OthersOnly ==
  \A r \in Requests : acting[r] # NoAction =>
    Allowed(acting[r].actor, acting[r].target, acting[r].canonical, acting[r].op)

LEMMA OthersOnlyKept == TypeOK /\ OthersOnly /\ [Next]_vars => OthersOnly'
<1> SUFFICES ASSUME TypeOK, OthersOnly, [Next]_vars PROVE OthersOnly'
  OBVIOUS
<1> USE DEF OthersOnly
<1>1. CASE UNCHANGED acting
  BY <1>1
<1>2. ASSUME NEW r \in Requests,
             changeRole(r) \/ suspendUser(r) \/ reactivateUser(r) \/ Fail(r)
      PROVE  OthersOnly'
  BY <1>2 DEF changeRole, suspendUser, reactivateUser, Fail, Finish, TypeOK
<1>3. ASSUME NEW r \in Requests, Administrate(r) PROVE OthersOnly'
  BY <1>3 DEF Administrate, TypeOK
<1> QED
  BY <1>1, <1>2, <1>3 DEF Next, vars, LoadUser, Sign, GiveUp, deleteAccount, Tick

(* Somebody else's row changed, so who did it is an administrator still. *)
LEMMA ActorRemains ==
  ASSUME TypeOK, OthersOnly, NEW r \in Requests,
         changeRole(r) \/ suspendUser(r) \/ reactivateUser(r),
         ActiveAdmins # {}, ActiveAdmins' = {}
  PROVE  LastAdminLeaves(r)
<1> DEFINE a == acting[r].actor
           t == acting[r].target
<1>0. acting[r] # NoAction
  BY DEF changeRole, suspendUser, reactivateUser
<1>1. /\ a \in Users /\ t \in Users
      /\ Allowed(a, t, acting[r].canonical, acting[r].op)
  BY <1>0, SlotsTyped DEF OthersOnly
<1>2. acting'[r] = NoAction
  BY DEF changeRole, suspendUser, reactivateUser, Finish, TypeOK
<1>3. SUFFICES ASSUME Authority(a) = "admin", acting[r].canonical PROVE FALSE
  BY <1>0, <1>2 DEF LastAdminLeaves
<1>4. CASE a = t
  <2>1. reactivateUser(r)
    BY <1>1, <1>3, <1>4 DEF Allowed, changeRole, suspendUser
  <2>2. role' = role /\ status'[a] = "active"
    BY <1>1, <1>4, <2>1 DEF reactivateUser, TypeOK
  <2> QED
    BY <1>1, <1>3, <2>2 DEF ActiveAdmins, Authority
<1>5. CASE a # t
  <2>1. role'[a] = role[a] /\ status'[a] = status[a]
    BY <1>1, <1>5 DEF changeRole, suspendUser, reactivateUser, TypeOK
  <2> QED
    BY <1>1, <1>3, <2>1 DEF ActiveAdmins, Authority
<1> QED
  BY <1>4, <1>5

(* adminController.js:15, :28: administrators cannot leave the platform without one,
   but for the ways the property names. *)
THEOREM AdministratorsRemain == Spec => AnAdminRemains
<1>1. Init => OthersOnly
  BY DEF Init, OthersOnly
<1>2. TypeOK /\ OthersOnly /\ [Next]_vars =>
        [ActiveAdmins # {} /\ ActiveAdmins' = {} =>
           \/ \E u \in Users : status[u] # "deleted" /\ status'[u] = "deleted"
           \/ \E r \in Requests : LastAdminLeaves(r)]_vars
  <2> SUFFICES ASSUME TypeOK, OthersOnly, [Next]_vars, ActiveAdmins # {}, ActiveAdmins' = {}
               PROVE  \/ \E u \in Users : status[u] # "deleted" /\ status'[u] = "deleted"
                      \/ \E r \in Requests : LastAdminLeaves(r)
    OBVIOUS
  <2>1. ~UNCHANGED users
    BY DEF users, ActiveAdmins, Authority
  <2>2. \/ \E r \in Requests : changeRole(r) \/ suspendUser(r) \/ reactivateUser(r)
        \/ \E u \in Users : deleteAccount(u)
    BY <2>1 DEF Next, vars, LoadUser, Sign, GiveUp, Administrate, Fail, Tick
  <2>3. ASSUME NEW u \in Users, deleteAccount(u)
        PROVE  status[u] # "deleted" /\ status'[u] = "deleted"
    BY <2>3 DEF deleteAccount, TypeOK
  <2> QED
    BY <2>2, <2>3, ActorRemains
<1> QED
  BY <1>1, <1>2, InitTyped, NextTyped, OthersOnlyKept, PTL DEF Spec, AnAdminRemains
=============================================================================
