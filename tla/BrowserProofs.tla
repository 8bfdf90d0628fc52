---------------------------- MODULE BrowserProofs ----------------------------
(***************************************************************************)
(* Proofs about the browser's side: ApiClient, for any number of tabs,     *)
(* calls and tokens, and ProfilePage, for any number of users and calls.   *)
(***************************************************************************)
EXTENDS ApiClient, ProfilePage, TLAPS

-----------------------------------------------------------------------------
(* ApiClient: the invariant *)

UnderWayAt(t, c) == ref[t][c].stage # "none"

(* A token that was found is one; what is answered is a logout. *)
Presented ==
  \A t \in Tabs, c \in Calls :
    /\ ref[t][c].stage \in {"revoke", "insert", "answer"} => ref[t][c].token \in Tokens
    /\ ref[t][c].stage = "answer" => ref[t][c].new \in Tokens
    /\ call[t][c].stage = "answered" => call[t][c].kind = "logout"

(* The promise of a tab stands for the refresh under way, and the call that asked for it
   waits for it. *)
Promised ==
  \A t \in Tabs, c \in Calls :
    /\ UnderWayAt(t, c) <=> refreshing[t] = c
    /\ UnderWayAt(t, c) => call[t][c].stage = "waiting" /\ call[t][c].on = c

(* Without overlap a refresh is the only request that changes the session ... *)
OneAtATime ==
  ~overlapped => \A t \in Tabs, c \in Calls : UnderWayAt(t, c) => ~Busy({t})

(* ... so it presents the cookie, is refused a cookie that is gone, and gets a token of the
   same family. *)
InTune ==
  ~overlapped =>
    \A t \in Tabs, c \in Calls :
      /\ UnderWayAt(t, c) => ref[t][c].token = cookie
      /\ ref[t][c].stage = "refused" => cookie \notin live
      /\ ref[t][c].stage = "answer" => family[ref[t][c].new] = family[cookie]

(* The server has ended the session the cookie stands for, or given it another token, and
   the browser does not know yet. *)
Changing ==
  \E t \in Tabs, c \in Calls :
    ref[t][c].stage \in {"insert", "answer"} \/ call[t][c].stage = "answered"

Trouble == overlapped \/ lost \/ ended

(* Without trouble the cookie is in force, or the next one is. *)
InForceUnlessTrouble ==
  ~Trouble =>
    /\ cookie # NoToken /\ ~Changing => cookie \in live
    /\ \A t \in Tabs, c \in Calls : ref[t][c].stage = "answer" => ref[t][c].new \in live

ClientInv ==
  /\ TypeOK /\ Presented
  /\ Promised /\ WaitsForARefresh
  /\ OneAtATime /\ InTune /\ InForceUnlessTrouble
  /\ CookieOfSession /\ AlarmUnlessOverlap

-----------------------------------------------------------------------------
(* ApiClient: types *)

Cookie == Tokens \cup {NoToken}
CallData == [kind : Kinds, stage : Stages, auth : BOOLEAN, token : Cookie, on : Calls \cup {NoCall}]
RefStages == {"none", "find", "revoke", "insert", "answer", "refused"}
RefData == [stage : RefStages, token : Cookie, new : Cookie]

OnlyLogoutsBringTheToken == \A t \in Tabs, c \in Calls : call[t][c].token # NoToken => call[t][c].kind = "logout"

CallsTyped == call \in [Tabs -> [Calls -> CallData]] /\ OnlyLogoutsBringTheToken

LEMMA TypesOf ==
  TypeOK <=>
    /\ live \subseteq Tokens
    /\ family \in [Tokens -> 0..MaxLogins]
    /\ access \in BOOLEAN
    /\ cookie \in Cookie
    /\ user \in [Tabs -> BOOLEAN] /\ atLogin \in [Tabs -> BOOLEAN]
    /\ CallsTyped
    /\ refreshing \in [Tabs -> Calls \cup {NoCall}]
    /\ ref \in [Tabs -> [Calls -> RefData]]
    /\ logins \in 0..MaxLogins /\ session \in 0..MaxLogins
    /\ overlapped \in BOOLEAN /\ lost \in BOOLEAN /\ ended \in BOOLEAN /\ alarmed \in BOOLEAN
BY DEF TypeOK, CallsTyped, OnlyLogoutsBringTheToken, CallData, RefData, RefStages, Cookie

LEMMA TypesKept ==
  ASSUME live' \subseteq Tokens, family' \in [Tokens -> 0..MaxLogins],
         access' \in BOOLEAN, cookie' \in Cookie,
         user' \in [Tabs -> BOOLEAN], atLogin' \in [Tabs -> BOOLEAN], CallsTyped',
         refreshing' \in [Tabs -> Calls \cup {NoCall}], ref' \in [Tabs -> [Calls -> RefData]],
         logins' \in 0..MaxLogins, session' \in 0..MaxLogins,
         overlapped' \in BOOLEAN, lost' \in BOOLEAN, ended' \in BOOLEAN, alarmed' \in BOOLEAN
  PROVE  TypeOK'
BY DEF TypeOK, CallsTyped, OnlyLogoutsBringTheToken, CallData, RefData, RefStages, Cookie

LEMMA IdleTyped ==
  /\ Idle \in CallData /\ Idle.token = NoToken /\ Idle.kind = "api" /\ Idle.stage = "idle"
  /\ NoRefresh \in RefData /\ NoRefresh.stage = "none"
BY DEF Idle, NoRefresh, CallData, RefData, RefStages, Cookie, Kinds, Stages

LEMMA RequestIs ==
  ASSUME NEW kind \in Kinds, NEW stage \in Stages, NEW auth \in BOOLEAN, NEW token \in Cookie
  PROVE  /\ Request(kind, stage, auth, token) \in CallData
         /\ Request(kind, stage, auth, token).kind = kind
         /\ Request(kind, stage, auth, token).stage = stage
         /\ Request(kind, stage, auth, token).auth = auth
         /\ Request(kind, stage, auth, token).token = IF kind = "logout" THEN token ELSE NoToken
BY IdleTyped DEF Request, CallData, Cookie

Retry == Request("api", "retried", TRUE, NoToken)

LEMMA RetryTyped ==
  /\ Retry \in CallData
  /\ Retry.kind = "api" /\ Retry.stage = "retried" /\ Retry.token = NoToken
BY IdleTyped DEF Retry, Request, CallData, Kinds, Stages, Cookie

(* One call of a tab changes. *)
LEMMA OneCallTyped ==
  ASSUME CallsTyped, NEW t \in Tabs, NEW c \in Calls, NEW x \in CallData,
         x.token # NoToken => x.kind = "logout",
         call' = [call EXCEPT ![t][c] = x]
  PROVE  CallsTyped'
BY DEF CallsTyped, OnlyLogoutsBringTheToken

LEMMA OneRefTyped ==
  ASSUME ref \in [Tabs -> [Calls -> RefData]], NEW t \in Tabs, NEW c \in Calls, NEW x \in RefData,
         ref' = [ref EXCEPT ![t][c] = x]
  PROVE  ref' \in [Tabs -> [Calls -> RefData]]
OBVIOUS

(* The calls of a tab change. *)
LEMMA TabTyped ==
  ASSUME CallsTyped, NEW t \in Tabs, NEW f \in [Calls -> CallData],
         \A c \in Calls : f[c].token # NoToken => f[c].kind = "logout",
         call' = [call EXCEPT ![t] = f]
  PROVE  CallsTyped'
BY DEF CallsTyped, OnlyLogoutsBringTheToken

LEMMA LoadTyped ==
  ASSUME TypeOK, NEW t \in Tabs, NEW c \in Calls, Load(t, c)
  PROVE  /\ CallsTyped'
         /\ refreshing' \in [Tabs -> Calls \cup {NoCall}]
         /\ ref' \in [Tabs -> [Calls -> RefData]]
         /\ user' \in [Tabs -> BOOLEAN]
<1>1. CallsTyped /\ access \in BOOLEAN /\ cookie \in Cookie
  BY TypesOf
<1> DEFINE f == [d \in Calls |-> IF d = c THEN Request("boot", "sent", access, cookie) ELSE Idle]
<1>2. /\ f \in [Calls -> CallData]
      /\ \A d \in Calls : f[d].token # NoToken => f[d].kind = "logout"
  BY <1>1, IdleTyped, RequestIs DEF Kinds, Stages
<1>3. call' = [call EXCEPT ![t] = f]
  BY DEF Load
<1> HIDE DEF f
<1>4. CallsTyped'
  BY <1>1, <1>2, <1>3, TabTyped
<1> QED BY <1>4, IdleTyped, TypesOf DEF Load

LEMMA FailTyped ==
  ASSUME TypeOK, NEW t \in Tabs, NEW c \in Calls, Fail(t, c)
  PROVE  /\ CallsTyped'
         /\ refreshing' \in [Tabs -> Calls \cup {NoCall}]
         /\ ref' \in [Tabs -> [Calls -> RefData]]
         /\ user' \in [Tabs -> BOOLEAN] /\ atLogin' \in [Tabs -> BOOLEAN]
<1>0. /\ CallsTyped /\ refreshing \in [Tabs -> Calls \cup {NoCall}]
      /\ ref \in [Tabs -> [Calls -> RefData]]
      /\ user \in [Tabs -> BOOLEAN] /\ atLogin \in [Tabs -> BOOLEAN]
  BY TypesOf
<1>1. CASE atLogin[t]
  <2> DEFINE f == [d \in Calls |-> IF d \in Waiters(t, c) THEN Idle ELSE call[t][d]]
  <2>1. /\ f \in [Calls -> CallData]
        /\ \A d \in Calls : f[d].token # NoToken => f[d].kind = "logout"
    BY <1>0, IdleTyped DEF CallsTyped, OnlyLogoutsBringTheToken
  <2>2. call' = [call EXCEPT ![t] = f]
    BY <1>1 DEF Fail
  <2> HIDE DEF f
  <2>3. CallsTyped'
    BY <1>0, <2>1, <2>2, TabTyped
  <2>4. /\ refreshing' = [refreshing EXCEPT ![t] = NoCall]
        /\ ref' = [ref EXCEPT ![t][c] = NoRefresh]
        /\ user' = user /\ atLogin' = atLogin
    BY <1>1 DEF Fail, page
  <2> QED BY <1>0, <2>3, <2>4, IdleTyped
<1>2. CASE ~atLogin[t]
  BY <1>0, <1>2, LoadTyped DEF Fail
<1> QED BY <1>1, <1>2

LEMMA SettleTyped ==
  ASSUME TypeOK, Presented, NEW t \in Tabs, NEW c \in Calls, Settle(t, c)
  PROVE  TypeOK'
<1> USE DEF server, cookies, page, history
<1>0. /\ live \subseteq Tokens /\ family \in [Tokens -> 0..MaxLogins]
      /\ access \in BOOLEAN /\ cookie \in Cookie
      /\ user \in [Tabs -> BOOLEAN] /\ atLogin \in [Tabs -> BOOLEAN]
      /\ CallsTyped /\ call[t] \in [Calls -> CallData] /\ call[t][c] \in CallData
      /\ call[t][c].token # NoToken => call[t][c].kind = "logout"
      /\ refreshing \in [Tabs -> Calls \cup {NoCall}]
      /\ ref \in [Tabs -> [Calls -> RefData]] /\ ref[t][c] \in RefData
      /\ logins \in 0..MaxLogins /\ session \in 0..MaxLogins
      /\ overlapped \in BOOLEAN /\ lost \in BOOLEAN /\ ended \in BOOLEAN /\ alarmed \in BOOLEAN
  BY TypesOf DEF CallsTyped, OnlyLogoutsBringTheToken
<1>1. CASE Serve(t, c)
  <2>1. CallsTyped'
    BY <1>0, <1>1, IdleTyped, OneCallTyped DEF Serve
  <2> QED BY <1>0, <1>1, <2>1, TypesKept DEF Serve
<1>2. CASE Reject(t, c)
  <2>1. CallsTyped'
    BY <1>0, <1>2, IdleTyped, OneCallTyped DEF Reject
  <2> QED BY <1>0, <1>2, <2>1, TypesKept DEF Reject
<1>3. CASE Unauthorized(t, c)
  <2>1. Shared(t, c) \in Calls
    BY <1>0 DEF Shared
  <2> DEFINE x == [call[t][c] EXCEPT !.stage = "waiting", !.on = Shared(t, c)]
  <2>2. x \in CallData /\ (x.token # NoToken => x.kind = "logout")
    BY <1>0, <2>1 DEF CallData, Stages
  <2>3. call' = [call EXCEPT ![t][c] = x]
    BY <1>3 DEF Unauthorized
  <2> HIDE DEF x
  <2>4. CallsTyped'
    BY <1>0, <2>2, <2>3, OneCallTyped
  <2>5. refreshing' \in [Tabs -> Calls \cup {NoCall}]
    BY <1>0, <1>3, <2>1 DEF Unauthorized
  <2>6. ref' \in [Tabs -> [Calls -> RefData]]
    <3>1. [stage |-> "find", token |-> cookie, new |-> NoToken] \in RefData
      BY <1>0 DEF RefData, RefStages, Cookie
    <3>2. \/ ref' = ref
          \/ ref' = [ref EXCEPT ![t][c] = [stage |-> "find", token |-> cookie, new |-> NoToken]]
      BY <1>3 DEF Unauthorized
    <3> QED BY <1>0, <3>1, <3>2, OneRefTyped
  <2>7. overlapped' \in BOOLEAN
    BY <1>0, <1>3 DEF Unauthorized
  <2> QED BY <1>0, <1>3, <2>4, <2>5, <2>6, <2>7, TypesKept DEF Unauthorized
<1>4. CASE Find(t, c)
  <2>1. ref' \in [Tabs -> [Calls -> RefData]]
    <3>1. \A g \in RefStages : [ref[t][c] EXCEPT !.stage = g] \in RefData
      BY <1>0 DEF RefData
    <3>2. {"revoke", "refused"} \subseteq RefStages
      BY DEF RefStages
    <3>3. PICK g \in {"revoke", "refused"} : ref' = [ref EXCEPT ![t][c] = [ref[t][c] EXCEPT !.stage = g]]
      BY <1>4 DEF Find
    <3> QED BY <1>0, <3>1, <3>2, <3>3
  <2>2. live' \subseteq Tokens /\ alarmed' \in BOOLEAN
    BY <1>0, <1>4 DEF Find
  <2> QED BY <1>0, <1>4, <2>1, <2>2, TypesKept DEF Find, CallsTyped, OnlyLogoutsBringTheToken
<1>5. CASE Revoke(t, c)
  <2>1. ref' \in [Tabs -> [Calls -> RefData]]
    <3>1. [ref[t][c] EXCEPT !.stage = "insert"] \in RefData
      BY <1>0 DEF RefData, RefStages
    <3> QED BY <1>0, <1>5, <3>1 DEF Revoke
  <2> QED BY <1>0, <1>5, <2>1, TypesKept DEF Revoke, CallsTyped, OnlyLogoutsBringTheToken
<1>6. CASE Insert(t, c)
  <2>1. PICK k \in Tokens :
          /\ live' = live \cup {k}
          /\ family' = [family EXCEPT ![k] = family[ref[t][c].token]]
          /\ ref' = [ref EXCEPT ![t][c].stage = "answer", ![t][c].new = k]
    BY <1>6 DEF Insert
  <2>a. ref[t][c].token \in Tokens
    BY <1>6 DEF Insert, Presented
  <2>2. ref' \in [Tabs -> [Calls -> RefData]]
    <3>1. [ref[t][c] EXCEPT !.stage = "answer", !.new = k] \in RefData
      BY <1>0 DEF RefData, RefStages, Cookie
    <3>2. ref' = [ref EXCEPT ![t][c] = [ref[t][c] EXCEPT !.stage = "answer", !.new = k]]
      BY <1>0, <2>1
    <3> QED BY <1>0, <3>1, <3>2
  <2>3. live' \subseteq Tokens /\ family' \in [Tokens -> 0..MaxLogins]
    BY <1>0, <2>1, <2>a
  <2>4. UNCHANGED <<cookies, page, call, refreshing, history>>
    BY <1>6 DEF Insert
  <2> QED BY <1>0, <2>2, <2>3, <2>4, TypesKept DEF CallsTyped, OnlyLogoutsBringTheToken
<1>7. CASE Refreshed(t, c)
  <2> DEFINE f == [d \in Calls |-> IF d \in Waiters(t, c) THEN Request("api", "retried", TRUE, NoToken)
                                   ELSE call[t][d]]
  <2>1. /\ f \in [Calls -> CallData]
        /\ \A d \in Calls : f[d].token # NoToken => f[d].kind = "logout"
    <3>1. /\ Request("api", "retried", TRUE, NoToken) \in CallData
          /\ Request("api", "retried", TRUE, NoToken).token = NoToken
      BY RetryTyped DEF Retry
    <3> QED BY <1>0, <3>1 DEF CallsTyped, OnlyLogoutsBringTheToken
  <2>2. call' = [call EXCEPT ![t] = f]
    BY <1>7 DEF Refreshed
  <2> HIDE DEF f
  <2>3. CallsTyped'
    BY <1>0, <2>1, <2>2, TabTyped
  <2>4. cookie' \in Cookie
    BY <1>0, <1>7 DEF Refreshed, RefData
  <2> QED BY <1>0, <1>7, <2>3, <2>4, IdleTyped, TypesKept DEF Refreshed
<1>8. CASE Refused(t, c)
  BY <1>0, <1>8, FailTyped, TypesKept DEF Refused
<1>9. CASE Logout(t, c)
  <2>1. [call[t][c] EXCEPT !.stage = "answered"] \in CallData
    BY <1>0 DEF CallData, Stages
  <2>2. /\ [call[t][c] EXCEPT !.stage = "answered"].token = call[t][c].token
        /\ [call[t][c] EXCEPT !.stage = "answered"].kind = call[t][c].kind
    BY <1>0 DEF CallData
  <2>3. CallsTyped'
    BY <1>0, <1>9, <2>1, <2>2, OneCallTyped DEF Logout
  <2> QED BY <1>0, <1>9, <2>3, TypesKept DEF Logout
<1>10. CASE LoggedOut(t, c)
  <2>1. CallsTyped'
    BY <1>0, <1>10, IdleTyped, OneCallTyped DEF LoggedOut
  <2>2. access' \in BOOLEAN /\ cookie' \in Cookie /\ session' \in 0..MaxLogins
    <3>1. access' = FALSE /\ cookie' = NoToken /\ session' = 0
      BY <1>10 DEF LoggedOut, ClearAuthCookies
    <3>2. FALSE \in BOOLEAN /\ NoToken \in Cookie /\ 0 \in 0..MaxLogins
      BY BoundsTyped DEF Cookie
    <3> QED BY <3>1, <3>2
  <2> QED BY <1>0, <1>10, <2>1, <2>2, TypesKept DEF LoggedOut
<1> QED BY <1>1, <1>2, <1>3, <1>4, <1>5, <1>6, <1>7, <1>8, <1>9, <1>10 DEF Settle

LEMMA InitTyped ==
  ASSUME Init
  PROVE  TypeOK
<1>1. CallsTyped /\ ref \in [Tabs -> [Calls -> RefData]]
  BY IdleTyped DEF Init, CallsTyped, OnlyLogoutsBringTheToken
<1>2. 0 \in 0..MaxLogins /\ NoToken \in Cookie
  BY BoundsTyped DEF Cookie
<1> QED BY <1>1, <1>2, TypesOf DEF Init

LEMMA NextTyped ==
  ASSUME TypeOK, Presented, [Next]_vars
  PROVE  TypeOK'
<1> USE DEF server, cookies, page, history
<1>0. /\ live \subseteq Tokens /\ family \in [Tokens -> 0..MaxLogins]
      /\ access \in BOOLEAN /\ cookie \in Cookie
      /\ user \in [Tabs -> BOOLEAN] /\ atLogin \in [Tabs -> BOOLEAN]
      /\ CallsTyped
      /\ refreshing \in [Tabs -> Calls \cup {NoCall}]
      /\ ref \in [Tabs -> [Calls -> RefData]]
      /\ logins \in 0..MaxLogins /\ session \in 0..MaxLogins
      /\ overlapped \in BOOLEAN /\ lost \in BOOLEAN /\ ended \in BOOLEAN /\ alarmed \in BOOLEAN
  BY TypesOf
<1>1. ASSUME NEW t \in Tabs, NEW c \in Calls, Settle(t, c)
      PROVE  TypeOK'
  BY <1>1, SettleTyped
<1>2. ASSUME NEW t \in Tabs, NEW c \in Calls, Send(t, c)
      PROVE  TypeOK'
  <2>1. CallsTyped'
    <3>1. /\ Request("api", "sent", access, cookie) \in CallData
          /\ Request("api", "sent", access, cookie).kind = "api"
          /\ Request("api", "sent", access, cookie).token # NoToken => "api" = "logout"
      <4>1. "api" \in Kinds /\ "sent" \in Stages
        BY DEF Kinds, Stages
      <4> QED BY <1>0, <4>1, RequestIs
    <3> QED BY <1>0, <1>2, <3>1, OneCallTyped DEF Send
  <2> QED BY <1>0, <1>2, <2>1, TypesKept DEF Send
<1>3. ASSUME NEW t \in Tabs, NEW c \in Calls, SendLogout(t, c)
      PROVE  TypeOK'
  <2>1. CallsTyped'
    <3>1. /\ Request("logout", "sent", access, cookie) \in CallData
          /\ Request("logout", "sent", access, cookie).kind = "logout"
          /\ Request("logout", "sent", access, cookie).token # NoToken => "logout" = "logout"
      <4>1. "logout" \in Kinds /\ "sent" \in Stages
        BY DEF Kinds, Stages
      <4> QED BY <1>0, <4>1, RequestIs
    <3> QED BY <1>0, <1>3, <3>1, OneCallTyped DEF SendLogout
  <2> QED BY <1>0, <1>3, <2>1, TypesKept DEF SendLogout
<1>4. ASSUME NEW t \in Tabs, NEW c \in Calls, Visit(t, c)
      PROVE  TypeOK'
  <2>1. atLogin' \in [Tabs -> BOOLEAN]
    BY <1>0, <1>4 DEF Visit
  <2> QED BY <1>0, <1>4, <2>1, LoadTyped, TypesKept DEF Visit
<1>5. ASSUME NEW t \in Tabs, NEW c \in Calls, LoseRefresh(t, c)
      PROVE  TypeOK'
  BY <1>0, <1>5, FailTyped, TypesKept DEF LoseRefresh
<1>6. ASSUME NEW t \in Tabs, NEW c \in Calls, LoseLogout(t, c)
      PROVE  TypeOK'
  <2>1. CallsTyped'
    BY <1>0, <1>6, IdleTyped, OneCallTyped DEF LoseLogout
  <2> QED BY <1>0, <1>6, <2>1, TypesKept DEF LoseLogout
<1>7. ASSUME NEW t \in Tabs, Login(t)
      PROVE  TypeOK'
  <2>1. logins' \in 0..MaxLogins /\ session' \in 0..MaxLogins
    BY <1>0, <1>7, BoundsTyped DEF Login
  <2>2. live' \subseteq Tokens /\ family' \in [Tokens -> 0..MaxLogins] /\ cookie' \in Cookie
    BY <1>0, <1>7, <2>1 DEF Login, Cookie
  <2>3. overlapped' \in BOOLEAN
    BY <1>7 DEF Login, Busy, LoggingOut, Refreshing
  <2> QED BY <1>0, <1>7, <2>1, <2>2, <2>3, TypesKept DEF Login, CallsTyped, OnlyLogoutsBringTheToken
<1>8. CASE Expire \/ EndSessions \/ UNCHANGED vars
  BY <1>0, <1>8, TypesKept DEF Expire, EndSessions, vars, CallsTyped, OnlyLogoutsBringTheToken
<1> QED BY <1>1, <1>2, <1>3, <1>4, <1>5, <1>6, <1>7, <1>8 DEF Next

-----------------------------------------------------------------------------
(* ApiClient: what the steps do to the parts of the invariant *)

(* No refresh begins or ends, and no call begins or stops to wait. *)
LEMMA PromiseKept ==
  ASSUME Promised, WaitsForARefresh, refreshing' = refreshing,
         \A s \in Tabs, d \in Calls : UnderWayAt(s, d)' <=> UnderWayAt(s, d),
         \A s \in Tabs, d \in Calls :
           \/ call'[s][d] = call[s][d]
           \/ call[s][d].stage # "waiting" /\ call'[s][d].stage # "waiting"
  PROVE  Promised' /\ WaitsForARefresh'
<1>1. Promised'
  BY DEF Promised
<1>2. WaitsForARefresh'
  BY DEF WaitsForARefresh, UnderWayAt
<1> QED BY <1>1, <1>2

(* The refresh of a tab is over, and nothing waits there any more. *)
TabEnds(t) ==
  /\ \A s \in Tabs \ {t} : call'[s] = call[s] /\ ref'[s] = ref[s] /\ refreshing'[s] = refreshing[s]
  /\ refreshing'[t] = NoCall
  /\ \A d \in Calls :
       /\ ref'[t][d].stage = "none"
       /\ \/ call'[t][d] = call[t][d] /\ call[t][d].stage # "waiting"
          \/ call'[t][d].stage \in {"idle", "sent", "retried"} /\ call'[t][d].kind # "logout"

LEMMA PromiseEnds ==
  ASSUME Promised, WaitsForARefresh, Presented, NEW t \in Tabs, TabEnds(t)
  PROVE  Promised' /\ WaitsForARefresh' /\ Presented'
<1>1. \A d \in Calls : refreshing'[t] # d /\ call'[t][d].stage # "waiting" /\ ~UnderWayAt(t, d)'
  BY NothingIsNoCall DEF TabEnds, UnderWayAt
<1>2. \A s \in Tabs \ {t}, d \in Calls :
        /\ refreshing'[s] = refreshing[s] /\ call'[s][d] = call[s][d] /\ ref'[s][d] = ref[s][d]
        /\ UnderWayAt(s, d)' <=> UnderWayAt(s, d)
  BY DEF TabEnds, UnderWayAt
<1>3. Promised'
  BY <1>1, <1>2 DEF Promised
<1>4. WaitsForARefresh'
  BY <1>1, <1>2 DEF WaitsForARefresh
<1>5. Presented'
  <2> SUFFICES ASSUME NEW s \in Tabs, NEW d \in Calls
               PROVE  /\ ref'[s][d].stage \in {"revoke", "insert", "answer"} => ref'[s][d].token \in Tokens
                      /\ ref'[s][d].stage = "answer" => ref'[s][d].new \in Tokens
                      /\ call'[s][d].stage = "answered" => call'[s][d].kind = "logout"
    BY DEF Presented
  <2>1. CASE s = t
    BY <2>1 DEF TabEnds, Presented
  <2>2. CASE s # t
    BY <1>2, <2>2 DEF Presented
  <2> QED BY <2>1, <2>2
<1> QED BY <1>3, <1>4, <1>5

(* No request that changes the session begins, no token is issued, and a refresh is refused
   a token that is not in force. *)
NothingStarts ==
  /\ \A s \in Tabs, d \in Calls :
       UnderWayAt(s, d)' =>
         /\ UnderWayAt(s, d)
         /\ ref'[s][d].token = ref[s][d].token /\ ref'[s][d].new = ref[s][d].new
         /\ ref'[s][d].stage = "answer" => ref[s][d].stage = "answer"
         /\ ref'[s][d].stage = "refused" => ref[s][d].stage = "refused" \/ ref[s][d].token \notin live'
  /\ \A s \in Tabs : LoggingOut(s)' => LoggingOut(s)
  /\ overlapped => overlapped'
  /\ live' \subseteq live
  /\ UNCHANGED <<family, cookie>>

LEMMA BusyOnly ==
  ASSUME NEW t \in Tabs, \A s \in Tabs, d \in Calls : UnderWayAt(s, d)' => UnderWayAt(s, d),
         \A s \in Tabs : LoggingOut(s)' => LoggingOut(s), ~Busy({t})
  PROVE  ~Busy({t})'
BY DEF Busy, Refreshing, UnderWayAt

LEMMA NothingStartsKeeps ==
  ASSUME OneAtATime, InTune, NothingStarts
  PROVE  OneAtATime' /\ InTune'
<1>1. OneAtATime'
  BY BusyOnly DEF OneAtATime, NothingStarts
<1>2. InTune'
  <2> SUFFICES ASSUME ~overlapped', NEW s \in Tabs, NEW d \in Calls, UnderWayAt(s, d)'
               PROVE  /\ ref'[s][d].token = cookie'
                      /\ ref'[s][d].stage = "refused" => cookie' \notin live'
                      /\ ref'[s][d].stage = "answer" => family'[ref'[s][d].new] = family'[cookie']
    BY DEF InTune, UnderWayAt
  <2> QED BY DEF NothingStarts, InTune
<1> QED BY <1>1, <1>2

LEMMA ForceKept ==
  ASSUME InForceUnlessTrouble, NothingStarts, live' = live, Trouble => Trouble',
         ~Trouble' => (Changing => Changing')
  PROVE  InForceUnlessTrouble'
<1> SUFFICES ASSUME ~Trouble'
             PROVE  /\ cookie' # NoToken /\ ~Changing' => cookie' \in live'
                    /\ \A t \in Tabs, c \in Calls : ref'[t][c].stage = "answer" => ref'[t][c].new \in live'
  BY DEF InForceUnlessTrouble
<1>1. \A t \in Tabs, c \in Calls :
        ref'[t][c].stage = "answer" => ref[t][c].stage = "answer" /\ ref'[t][c].new = ref[t][c].new
  BY DEF NothingStarts, UnderWayAt
<1> QED BY <1>1 DEF InForceUnlessTrouble, NothingStarts

(* The cookie and its family stay. *)
LEMMA CookieKept ==
  ASSUME CookieOfSession, UNCHANGED <<cookie, family, session>>, overlapped => overlapped'
  PROVE  CookieOfSession'
BY DEF CookieOfSession

LEMMA AlarmKept ==
  ASSUME AlarmUnlessOverlap, alarmed' = alarmed, Trouble => Trouble'
  PROVE  AlarmUnlessOverlap'
BY DEF AlarmUnlessOverlap, Trouble

(* The session goes on as it is. *)
Calm ==
  /\ NothingStarts
  /\ UNCHANGED <<live, session, alarmed>>
  /\ Trouble => Trouble'
  /\ ~Trouble' => (Changing => Changing')

LEMMA CalmKeeps ==
  ASSUME ClientInv, Calm, TypeOK', Presented', Promised', WaitsForARefresh'
  PROVE  ClientInv'
<1>1. OneAtATime' /\ InTune'
  BY NothingStartsKeeps DEF ClientInv, Calm
<1>2. InForceUnlessTrouble'
  BY ForceKept DEF ClientInv, Calm
<1>3. CookieOfSession'
  BY CookieKept DEF ClientInv, Calm, NothingStarts
<1>4. AlarmUnlessOverlap'
  BY AlarmKept DEF ClientInv, Calm
<1> QED BY <1>1, <1>2, <1>3, <1>4 DEF ClientInv

(* A call that does not wait begins or ends, and a logout is none that begins. *)
LEMMA OneCallCalm ==
  ASSUME ClientInv, TypeOK', NEW t \in Tabs, NEW c \in Calls, NEW x,
         call' = [call EXCEPT ![t][c] = x],
         call[t][c].stage # "waiting", x.stage \notin {"waiting", "answered"}, x.kind # "logout",
         call[t][c].stage = "answered" => Trouble',
         UNCHANGED <<ref, refreshing, live, family, cookie, session, alarmed, overlapped>>,
         Trouble => Trouble'
  PROVE  ClientInv'
<1>1. \A s \in Tabs, d \in Calls :
        \/ call'[s][d] = call[s][d]
        \/ s = t /\ d = c /\ call'[s][d] = x
  BY DEF ClientInv, TypeOK
<1>2. Presented'
  BY <1>1 DEF ClientInv, Presented
<1>3. Promised' /\ WaitsForARefresh'
  BY <1>1, PromiseKept DEF ClientInv, UnderWayAt
<1>4. \A s \in Tabs : LoggingOut(s)' => LoggingOut(s)
  BY <1>1 DEF LoggingOut
<1>5. ~Trouble' => (Changing => Changing')
  BY <1>1 DEF Changing
<1>6. Calm
  BY <1>4, <1>5 DEF Calm, NothingStarts, UnderWayAt, ClientInv, InTune
<1> QED BY <1>2, <1>3, <1>6, CalmKeeps

(* Without overlap nothing else that changes the session is under way with a refresh. *)
LEMMA Alone ==
  ASSUME ClientInv, ~overlapped, NEW t \in Tabs, NEW c \in Calls, UnderWayAt(t, c)
  PROVE  /\ \A s \in Tabs, d \in Calls : UnderWayAt(s, d) => s = t /\ d = c
         /\ \A s \in Tabs, d \in Calls : call[s][d].stage # "answered"
         /\ \A s \in Tabs : ~LoggingOut(s)
<1>1. ~Busy({t})
  BY DEF ClientInv, OneAtATime
<1>2. \A s \in Tabs : ~LoggingOut(s)
  BY <1>1 DEF Busy
<1>3. \A s \in Tabs, d \in Calls : call[s][d].stage # "answered"
  BY <1>2 DEF LoggingOut, ClientInv, Presented
<1>4. \A s \in Tabs, d \in Calls : UnderWayAt(s, d) => s = t
  BY <1>1 DEF Busy, Refreshing, UnderWayAt
<1>5. \A d \in Calls : UnderWayAt(t, d) => d = c
  BY DEF ClientInv, Promised
<1> QED BY <1>2, <1>3, <1>4, <1>5

-----------------------------------------------------------------------------
(* ApiClient: the steps *)

LEMMA ServeKeeps ==
  ASSUME ClientInv, TypeOK', NEW t \in Tabs, NEW c \in Calls, Serve(t, c) \/ Reject(t, c)
  PROVE  ClientInv'
<1>1. /\ call' = [call EXCEPT ![t][c] = Idle]
      /\ call[t][c].stage \in {"sent", "retried"}
      /\ UNCHANGED <<ref, refreshing, live, family, cookie, session, alarmed, overlapped>>
      /\ Trouble => Trouble'
  BY DEF Serve, Reject, server, cookies, history, Trouble
<1> QED BY <1>1, IdleTyped, OneCallCalm

LEMMA SendKeeps ==
  ASSUME ClientInv, TypeOK', NEW t \in Tabs, NEW c \in Calls, Send(t, c)
  PROVE  ClientInv'
<1>1. /\ call[t][c] = Idle
      /\ call' = [call EXCEPT ![t][c] = Request("api", "sent", access, cookie)]
      /\ UNCHANGED <<ref, refreshing, live, family, cookie, session, alarmed, overlapped>>
      /\ Trouble => Trouble'
  BY DEF Send, server, cookies, history, Trouble
<1>2. /\ Request("api", "sent", access, cookie).kind = "api"
      /\ Request("api", "sent", access, cookie).stage = "sent"
  BY TypesOf, RequestIs DEF ClientInv, Kinds, Stages
<1> QED BY <1>1, <1>2, IdleTyped, OneCallCalm

LEMMA LoseLogoutKeeps ==
  ASSUME ClientInv, TypeOK', NEW t \in Tabs, NEW c \in Calls, LoseLogout(t, c)
  PROVE  ClientInv'
<1>1. /\ call' = [call EXCEPT ![t][c] = Idle]
      /\ call[t][c].stage \in {"sent", "answered"}
      /\ UNCHANGED <<ref, refreshing, live, family, cookie, session, alarmed, overlapped>>
      /\ Trouble'
  BY DEF LoseLogout, server, cookies, history, Trouble
<1> QED BY <1>1, IdleTyped, OneCallCalm

(* A logout overlaps with what is under way, and there is no refresh otherwise. *)
LEMMA SendLogoutKeeps ==
  ASSUME ClientInv, TypeOK', NEW t \in Tabs, NEW c \in Calls, SendLogout(t, c)
  PROVE  ClientInv'
<1> DEFINE x == Request("logout", "sent", access, cookie)
<1>1. /\ call[t][c] = Idle /\ call' = [call EXCEPT ![t][c] = x]
      /\ overlapped' = (overlapped \/ Busy({}))
      /\ UNCHANGED <<ref, refreshing, live, family, cookie, session, alarmed, lost, ended>>
  BY DEF SendLogout, server, cookies, page
<1>2. x.kind = "logout" /\ x.stage = "sent"
  BY TypesOf, RequestIs DEF ClientInv, Kinds, Stages
<1> HIDE DEF x
<1>3. \A s \in Tabs, d \in Calls :
        \/ call'[s][d] = call[s][d]
        \/ call[s][d].stage = "idle" /\ call'[s][d].stage = "sent"
  BY <1>1, <1>2, IdleTyped DEF ClientInv, TypeOK
<1>4. Presented'
  BY <1>1, <1>3 DEF ClientInv, Presented
<1>5. Promised' /\ WaitsForARefresh'
  <2>1. \A s \in Tabs, d \in Calls :
          \/ call'[s][d] = call[s][d]
          \/ call[s][d].stage # "waiting" /\ call'[s][d].stage # "waiting"
    BY <1>3
  <2> QED BY <1>1, <2>1, PromiseKept DEF ClientInv, UnderWayAt
<1>6. ~overlapped' => \A s \in Tabs, d \in Calls : ~UnderWayAt(s, d)'
  BY <1>1 DEF Busy, Refreshing, UnderWayAt
<1>7. OneAtATime' /\ InTune'
  BY <1>6 DEF OneAtATime, InTune, UnderWayAt
<1>8. InForceUnlessTrouble'
  <2>1. Trouble => Trouble'
    BY <1>1 DEF Trouble
  <2>2. Changing => Changing'
    BY <1>1, <1>3 DEF Changing
  <2> QED BY <1>1, <2>1, <2>2 DEF ClientInv, InForceUnlessTrouble
<1>9. CookieOfSession' /\ AlarmUnlessOverlap'
  BY <1>1 DEF ClientInv, CookieOfSession, AlarmUnlessOverlap
<1> QED BY <1>4, <1>5, <1>7, <1>8, <1>9 DEF ClientInv

(* The second call that finds the token expired waits for the refresh of the first. *)
LEMMA JoinKeeps ==
  ASSUME ClientInv, TypeOK', NEW t \in Tabs, NEW c \in Calls, Unauthorized(t, c), Shared(t, c) # c
  PROVE  ClientInv'
<1> DEFINE p == refreshing[t]
           x == [call[t][c] EXCEPT !.stage = "waiting", !.on = p]
<1>0. call[t][c] \in CallData /\ refreshing \in [Tabs -> Calls \cup {NoCall}]
  BY TypesOf DEF ClientInv, CallsTyped
<1>1. p \in Calls /\ p # c /\ UnderWayAt(t, p)
  BY <1>0 DEF Shared, ClientInv, Promised
<1>2. /\ call[t][c].stage = "sent" /\ call[t][c].kind = "api"
      /\ call' = [call EXCEPT ![t][c] = x]
      /\ refreshing' = refreshing
      /\ UNCHANGED <<ref, live, family, cookie, session, alarmed, overlapped, lost, ended>>
  BY <1>0, <1>1 DEF Unauthorized, Shared, IsAuthProbe, server, cookies, page
<1>3. x.stage = "waiting" /\ x.on = p /\ x.kind = "api"
  BY <1>0, <1>2 DEF CallData
<1> HIDE DEF x
<1>4. \A s \in Tabs, d \in Calls :
        \/ call'[s][d] = call[s][d]
        \/ s = t /\ d = c /\ call'[s][d] = x
  BY <1>2 DEF ClientInv, TypeOK
<1>5. Presented'
  BY <1>2, <1>3, <1>4 DEF ClientInv, Presented
<1>6. Promised'
  BY <1>1, <1>2, <1>4 DEF ClientInv, Promised, UnderWayAt
<1>7. WaitsForARefresh'
  BY <1>1, <1>2, <1>3, <1>4 DEF ClientInv, WaitsForARefresh, UnderWayAt
<1>8. Calm
  <2>1. \A s \in Tabs : LoggingOut(s)' => LoggingOut(s)
    BY <1>3, <1>4 DEF LoggingOut
  <2>2. Changing => Changing'
    BY <1>2, <1>3, <1>4 DEF Changing
  <2> QED BY <1>2, <2>1, <2>2 DEF Calm, NothingStarts, UnderWayAt, Trouble
<1> QED BY <1>5, <1>6, <1>7, <1>8, CalmKeeps

(* The first one sends the cookie. *)
LEMMA RefreshKeeps ==
  ASSUME ClientInv, TypeOK', NEW t \in Tabs, NEW c \in Calls, Unauthorized(t, c), Shared(t, c) = c
  PROVE  ClientInv'
<1> DEFINE x == [call[t][c] EXCEPT !.stage = "waiting", !.on = c]
           y == [stage |-> "find", token |-> cookie, new |-> NoToken]
<1>0. call[t][c] \in CallData /\ refreshing \in [Tabs -> Calls \cup {NoCall}]
  BY TypesOf DEF ClientInv, CallsTyped
<1>1. /\ call[t][c].stage = "sent" /\ call[t][c].kind = "api"
      /\ call' = [call EXCEPT ![t][c] = x] /\ ref' = [ref EXCEPT ![t][c] = y]
      /\ refreshing' = [refreshing EXCEPT ![t] = c]
      /\ overlapped' = (overlapped \/ Busy({t}))
      /\ UNCHANGED <<live, family, cookie, session, alarmed, lost, ended>>
  BY <1>0 DEF Unauthorized, IsAuthProbe, server, cookies, page
<1>2. refreshing[t] = NoCall /\ \A d \in Calls : ~UnderWayAt(t, d)
  BY <1>0, <1>1, NothingIsNoCall DEF Shared, ClientInv, Promised
<1>3. x.stage = "waiting" /\ x.on = c /\ x.kind = "api"
  BY <1>0, <1>1 DEF CallData
<1>4. y.stage = "find" /\ y.token = cookie
  OBVIOUS
<1> HIDE DEF x, y
<1>5. /\ \A s \in Tabs, d \in Calls :
           \/ (s # t \/ d # c) /\ call'[s][d] = call[s][d] /\ ref'[s][d] = ref[s][d]
           \/ s = t /\ d = c /\ call'[s][d] = x /\ ref'[s][d] = y
      /\ \A s \in Tabs : refreshing'[s] = IF s = t THEN c ELSE refreshing[s]
  BY <1>0, <1>1 DEF ClientInv, TypeOK
<1>6. Presented'
  BY <1>3, <1>4, <1>5 DEF ClientInv, Presented
<1>7. Promised'
  BY <1>2, <1>3, <1>4, <1>5 DEF ClientInv, Promised, UnderWayAt
<1>8. WaitsForARefresh'
  BY <1>3, <1>4, <1>5 DEF ClientInv, WaitsForARefresh, UnderWayAt
<1>9. ASSUME ~overlapped'
      PROVE  /\ \A s \in Tabs, d \in Calls : UnderWayAt(s, d)' => s = t /\ d = c
             /\ \A s \in Tabs : ~LoggingOut(s)'
  <2>1. ~Busy({t})
    BY <1>1, <1>9
  <2>2. \A s \in Tabs, d \in Calls : UnderWayAt(s, d)' => s = t /\ d = c
    BY <1>2, <1>5, <2>1 DEF Busy, Refreshing, UnderWayAt
  <2>3. \A s \in Tabs : ~LoggingOut(s)'
    BY <1>3, <1>5, <2>1 DEF Busy, LoggingOut
  <2> QED BY <2>2, <2>3
<1>10. OneAtATime'
  BY <1>9 DEF OneAtATime, Busy, Refreshing, UnderWayAt
<1>11. InTune'
  BY <1>1, <1>4, <1>5, <1>9 DEF InTune, UnderWayAt
<1>12. InForceUnlessTrouble'
  <2>1. Trouble => Trouble'
    BY <1>1 DEF Trouble
  <2>2. Changing => Changing'
    BY <1>1, <1>2, <1>5 DEF Changing, UnderWayAt
  <2>3. \A s \in Tabs, d \in Calls : ref'[s][d].stage = "answer" => ref'[s][d] = ref[s][d]
    BY <1>4, <1>5
  <2> QED BY <1>1, <2>1, <2>2, <2>3 DEF ClientInv, InForceUnlessTrouble
<1>13. CookieOfSession' /\ AlarmUnlessOverlap'
  BY <1>1 DEF ClientInv, CookieOfSession, AlarmUnlessOverlap
<1> QED BY <1>6, <1>7, <1>8, <1>10, <1>11, <1>12, <1>13 DEF ClientInv

(* A refresh goes on: what that means call by call. *)
LEMMA RefreshGoesOn ==
  ASSUME ClientInv, NEW t \in Tabs, NEW c \in Calls, NEW y,
         UnderWayAt(t, c), y.stage # "none", y.stage = "answer" => y.new \in Tokens,
         y.stage \in {"revoke", "insert", "answer"} => y.token \in Tokens,
         ref' = [ref EXCEPT ![t][c] = y], UNCHANGED <<call, refreshing>>
  PROVE  /\ \A s \in Tabs, d \in Calls :
              /\ UnderWayAt(s, d)' <=> UnderWayAt(s, d)
              /\ \/ (s # t \/ d # c) /\ ref'[s][d] = ref[s][d]
                 \/ s = t /\ d = c /\ ref'[s][d] = y
         /\ Presented' /\ Promised' /\ WaitsForARefresh'
         /\ \A s \in Tabs : LoggingOut(s)' <=> LoggingOut(s)
<1>1. \A s \in Tabs, d \in Calls :
        \/ (s # t \/ d # c) /\ ref'[s][d] = ref[s][d]
        \/ s = t /\ d = c /\ ref'[s][d] = y
  BY DEF ClientInv, TypeOK
<1>2. \A s \in Tabs, d \in Calls : UnderWayAt(s, d)' <=> UnderWayAt(s, d)
  BY <1>1 DEF UnderWayAt
<1>3. Presented'
  BY <1>1 DEF ClientInv, Presented
<1>4. Promised' /\ WaitsForARefresh'
  BY <1>2, PromiseKept DEF ClientInv
<1>5. \A s \in Tabs : LoggingOut(s)' <=> LoggingOut(s)
  BY DEF LoggingOut
<1> QED BY <1>1, <1>2, <1>3, <1>4, <1>5

LEMMA FindKeeps ==
  ASSUME ClientInv, TypeOK', NEW t \in Tabs, NEW c \in Calls, Find(t, c)
  PROVE  ClientInv'
<1> DEFINE k == ref[t][c].token
           y(g) == [ref[t][c] EXCEPT !.stage = g]
<1>0. ref[t][c] \in RefData /\ live \subseteq Tokens
  BY TypesOf DEF ClientInv
<1>a. /\ ref[t][c].stage = "find" /\ UnderWayAt(t, c)
      /\ UNCHANGED <<call, refreshing, family, cookie, session, overlapped, lost, ended>>
  BY DEF Find, UnderWayAt, cookies, page
<1>b. \A g \in RefStages : y(g).stage = g /\ y(g).token = k /\ y(g).new = ref[t][c].new
  BY <1>0 DEF RefData
<1>c. PICK g \in {"revoke", "refused"} :
        /\ ref' = [ref EXCEPT ![t][c] = y(g)]
        /\ \/ g = "revoke" /\ k \in live /\ UNCHANGED <<live, alarmed>>
           \/ /\ g = "refused" /\ k \in Tokens \ live /\ alarmed' = TRUE
              /\ live' = {j \in live : family[j] # family[k]}
           \/ g = "refused" /\ k = NoToken /\ UNCHANGED <<live, alarmed>>
  BY DEF Find
<1>d. y(g).stage = g /\ y(g).token = k /\ y(g).new = ref[t][c].new
  BY <1>b, <1>c DEF RefStages
<1> HIDE DEF y
<1>1. /\ \A s \in Tabs, d \in Calls :
              /\ UnderWayAt(s, d)' <=> UnderWayAt(s, d)
              /\ \/ (s # t \/ d # c) /\ ref'[s][d] = ref[s][d]
                 \/ s = t /\ d = c /\ ref'[s][d] = y(g)
      /\ Presented' /\ Promised' /\ WaitsForARefresh'
      /\ \A s \in Tabs : LoggingOut(s)' <=> LoggingOut(s)
  BY <1>0, <1>a, <1>c, <1>d, RefreshGoesOn
<1>2. NothingStarts
  <2>1. live' \subseteq live /\ (g = "refused" => k \notin live')
    BY <1>0, <1>c, NothingIsNoToken
  <2> QED BY <1>1, <1>a, <1>c, <1>d, <2>1 DEF NothingStarts
<1>3. Trouble <=> Trouble'
  BY <1>a DEF Trouble
<1>4. Changing => Changing'
  BY <1>a, <1>1 DEF Changing
<1>5. CASE UNCHANGED <<live, alarmed>>
  BY <1>1, <1>2, <1>3, <1>4, <1>5, <1>a, CalmKeeps DEF Calm
<1>6. CASE k \in Tokens \ live
  <2>1. Trouble
    <3> SUFFICES ASSUME ~Trouble
                 PROVE  FALSE
      OBVIOUS
    <3>1. ~overlapped
      BY DEF Trouble
    <3>2. cookie = k /\ cookie # NoToken
      BY <1>6, <1>a, <3>1, NothingIsNoToken DEF ClientInv, InTune
    <3>3. ~Changing
      BY <1>a, <3>1, Alone DEF Changing, UnderWayAt
    <3> QED BY <1>6, <3>2, <3>3 DEF ClientInv, InForceUnlessTrouble
  <2>2. OneAtATime' /\ InTune'
    BY <1>2, NothingStartsKeeps DEF ClientInv
  <2>3. CookieOfSession'
    BY <1>a, CookieKept DEF ClientInv
  <2>4. InForceUnlessTrouble' /\ AlarmUnlessOverlap'
    BY <2>1, <1>3 DEF InForceUnlessTrouble, AlarmUnlessOverlap, Trouble
  <2> QED BY <1>1, <2>2, <2>3, <2>4 DEF ClientInv
<1> QED BY <1>c, <1>5, <1>6

(* The cookie is revoked, and a token that replaces it is under way to the browser. *)
LEMMA RevokeKeeps ==
  ASSUME ClientInv, TypeOK', NEW t \in Tabs, NEW c \in Calls, Revoke(t, c)
  PROVE  ClientInv'
<1> DEFINE y == [ref[t][c] EXCEPT !.stage = "insert"]
<1>0. ref[t][c] \in RefData
  BY TypesOf DEF ClientInv
<1>a. /\ ref[t][c].stage = "revoke" /\ UnderWayAt(t, c) /\ ref[t][c].token \in Tokens
      /\ ref' = [ref EXCEPT ![t][c] = y] /\ live' = live \ {ref[t][c].token}
      /\ UNCHANGED <<call, refreshing, family, cookie, session, overlapped, lost, ended, alarmed>>
  BY DEF Revoke, UnderWayAt, cookies, page, history, ClientInv, Presented
<1>b. y.stage = "insert" /\ y.token = ref[t][c].token /\ y.new = ref[t][c].new
  BY <1>0 DEF RefData
<1> HIDE DEF y
<1>1. /\ \A s \in Tabs, d \in Calls :
              /\ UnderWayAt(s, d)' <=> UnderWayAt(s, d)
              /\ \/ (s # t \/ d # c) /\ ref'[s][d] = ref[s][d]
                 \/ s = t /\ d = c /\ ref'[s][d] = y
      /\ Presented' /\ Promised' /\ WaitsForARefresh'
      /\ \A s \in Tabs : LoggingOut(s)' <=> LoggingOut(s)
  BY <1>0, <1>a, <1>b, RefreshGoesOn
<1>2. OneAtATime' /\ InTune'
  <2>1. NothingStarts
    BY <1>1, <1>a, <1>b DEF NothingStarts
  <2> QED BY <2>1, NothingStartsKeeps DEF ClientInv
<1>3. InForceUnlessTrouble'
  <2> SUFFICES ASSUME ~Trouble'
               PROVE  /\ Changing'
                      /\ \A s \in Tabs, d \in Calls : ref'[s][d].stage # "answer"
    BY DEF InForceUnlessTrouble
  <2>1. ~overlapped
    BY <1>a DEF Trouble
  <2>2. Changing'
    BY <1>1, <1>b DEF Changing
  <2>3. \A s \in Tabs, d \in Calls : ref'[s][d].stage # "answer"
    BY <1>1, <1>a, <1>b, <2>1, Alone DEF UnderWayAt
  <2> QED BY <2>2, <2>3
<1>4. CookieOfSession' /\ AlarmUnlessOverlap'
  BY <1>a DEF ClientInv, CookieOfSession, AlarmUnlessOverlap
<1> QED BY <1>1, <1>2, <1>3, <1>4 DEF ClientInv

LEMMA InsertKeeps ==
  ASSUME ClientInv, TypeOK', NEW t \in Tabs, NEW c \in Calls, Insert(t, c)
  PROVE  ClientInv'
<1>0. ref[t][c] \in RefData /\ family \in [Tokens -> 0..MaxLogins]
  BY TypesOf DEF ClientInv
<1>c. PICK k \in Tokens :
        /\ Fresh(k)
        /\ live' = live \cup {k}
        /\ family' = [family EXCEPT ![k] = family[ref[t][c].token]]
        /\ ref' = [ref EXCEPT ![t][c].stage = "answer", ![t][c].new = k]
  BY DEF Insert
<1> DEFINE y == [ref[t][c] EXCEPT !.stage = "answer", !.new = k]
<1>a. /\ ref[t][c].stage = "insert" /\ UnderWayAt(t, c) /\ ref[t][c].token \in Tokens
      /\ UNCHANGED <<call, refreshing, cookie, session, overlapped, lost, ended, alarmed>>
  BY DEF Insert, UnderWayAt, cookies, page, history, ClientInv, Presented
<1>b. y.stage = "answer" /\ y.token = ref[t][c].token /\ y.new = k
  BY <1>0 DEF RefData
<1>d. ref' = [ref EXCEPT ![t][c] = y]
  BY <1>c DEF ClientInv, TypeOK
<1>e. k # cookie
  BY <1>c DEF Fresh, Unheld, Held
<1> HIDE DEF y
<1>1. /\ \A s \in Tabs, d \in Calls :
              /\ UnderWayAt(s, d)' <=> UnderWayAt(s, d)
              /\ \/ (s # t \/ d # c) /\ ref'[s][d] = ref[s][d]
                 \/ s = t /\ d = c /\ ref'[s][d] = y
      /\ Presented' /\ Promised' /\ WaitsForARefresh'
      /\ \A s \in Tabs : LoggingOut(s)' <=> LoggingOut(s)
  BY <1>0, <1>a, <1>b, <1>d, RefreshGoesOn
<1>2. OneAtATime'
  <2>1. \A s \in Tabs : Busy({s})' <=> Busy({s})
    BY <1>1 DEF Busy, Refreshing, UnderWayAt
  <2> QED BY <1>1, <1>a, <2>1 DEF ClientInv, OneAtATime
<1>3. \A j \in Tokens : family'[j] = IF j = k THEN family[ref[t][c].token] ELSE family[j]
  BY <1>0, <1>c
<1>4. ASSUME ~overlapped
      PROVE  /\ \A s \in Tabs, d \in Calls : UnderWayAt(s, d)' => s = t /\ d = c
             /\ ref[t][c].token = cookie
  BY <1>1, <1>4, <1>a, Alone DEF ClientInv, InTune
<1>5. InTune'
  BY <1>1, <1>3, <1>4, <1>a, <1>b, <1>e DEF InTune, UnderWayAt
<1>6. InForceUnlessTrouble'
  <2>1. ~overlapped' => \A s \in Tabs, d \in Calls : ref'[s][d].stage = "answer" => ref'[s][d].new = k
    BY <1>1, <1>4, <1>a, <1>b DEF UnderWayAt
  <2>2. Changing'
    BY <1>1, <1>b DEF Changing
  <2>3. k \in live'
    BY <1>c
  <2> QED BY <2>1, <2>2, <2>3 DEF InForceUnlessTrouble, Trouble
<1>7. CookieOfSession'
  <2>1. cookie # NoToken => cookie \in Tokens /\ family'[cookie] = family[cookie]
    BY <1>3, <1>e DEF ClientInv, TypeOK
  <2> QED BY <1>a, <2>1 DEF ClientInv, CookieOfSession
<1>8. AlarmUnlessOverlap'
  BY <1>a DEF ClientInv, AlarmUnlessOverlap
<1> QED BY <1>1, <1>2, <1>5, <1>6, <1>7, <1>8 DEF ClientInv

(* Whatever ends the refresh of a tab: its answer, or that there is none. *)
LEMMA WaitersOfTheRefresh ==
  ASSUME ClientInv, NEW t \in Tabs, NEW c \in Calls, UnderWayAt(t, c)
  PROVE  \A d \in Calls : d \in Waiters(t, c) <=> call[t][d].stage = "waiting"
<1>1. \A d \in Calls : UnderWayAt(t, d) => d = c
  BY DEF ClientInv, Promised
<1> QED BY <1>1 DEF ClientInv, WaitsForARefresh, Waiters, UnderWayAt

LEMMA OthersNotUnderWay ==
  ASSUME ClientInv, NEW t \in Tabs, NEW c \in Calls, UnderWayAt(t, c),
         ref' = [ref EXCEPT ![t][c] = NoRefresh]
  PROVE  /\ \A d \in Calls : ref'[t][d].stage = "none"
         /\ \A s \in Tabs \ {t} : ref'[s] = ref[s]
<1>1. \A d \in Calls : UnderWayAt(t, d) => d = c
  BY DEF ClientInv, Promised
<1>2. \A d \in Calls : ref'[t][d] = IF d = c THEN NoRefresh ELSE ref[t][d]
  BY DEF ClientInv, TypeOK
<1>3. \A s \in Tabs \ {t} : ref'[s] = ref[s]
  BY DEF ClientInv, TypeOK
<1> QED BY <1>1, <1>2, <1>3, IdleTyped DEF UnderWayAt

LEMMA RefreshedEnds ==
  ASSUME ClientInv, NEW t \in Tabs, NEW c \in Calls, Refreshed(t, c)
  PROVE  TabEnds(t)
<1>1. UnderWayAt(t, c)
  BY DEF Refreshed, UnderWayAt
<1>2. /\ \A d \in Calls : ref'[t][d].stage = "none"
      /\ \A s \in Tabs \ {t} : ref'[s] = ref[s]
  BY <1>1, OthersNotUnderWay DEF Refreshed
<1>3. /\ \A d \in Calls : call'[t][d] = IF d \in Waiters(t, c) THEN Retry ELSE call[t][d]
      /\ \A s \in Tabs \ {t} : call'[s] = call[s]
  BY DEF Refreshed, Retry, ClientInv, TypeOK
<1>4. /\ refreshing'[t] = NoCall
      /\ \A s \in Tabs \ {t} : refreshing'[s] = refreshing[s]
  BY DEF Refreshed, ClientInv, TypeOK
<1> QED BY <1>1, <1>2, <1>3, <1>4, RetryTyped, WaitersOfTheRefresh DEF TabEnds

LEMMA LoadEnds ==
  ASSUME ClientInv, NEW t \in Tabs, NEW c \in Calls, Load(t, c)
  PROVE  TabEnds(t)
<1>1. /\ Request("boot", "sent", access, cookie).kind = "boot"
      /\ Request("boot", "sent", access, cookie).stage = "sent"
  BY TypesOf, RequestIs DEF ClientInv, Kinds, Stages
<1>2. /\ \A d \in Calls : call'[t][d] = IF d = c THEN Request("boot", "sent", access, cookie) ELSE Idle
      /\ \A s \in Tabs \ {t} : call'[s] = call[s]
  BY DEF Load, ClientInv, TypeOK
<1>3. /\ refreshing'[t] = NoCall
      /\ \A d \in Calls : ref'[t][d] = NoRefresh
      /\ \A s \in Tabs \ {t} : refreshing'[s] = refreshing[s] /\ ref'[s] = ref[s]
  BY DEF Load, ClientInv, TypeOK
<1> QED BY <1>1, <1>2, <1>3, IdleTyped DEF TabEnds

LEMMA FailEnds ==
  ASSUME ClientInv, NEW t \in Tabs, NEW c \in Calls, UnderWayAt(t, c), Fail(t, c)
  PROVE  TabEnds(t)
<1>1. CASE Load(t, c)
  BY <1>1, LoadEnds
<1>2. CASE /\ call' = [call EXCEPT ![t] = [d \in Calls |-> IF d \in Waiters(t, c) THEN Idle ELSE @[d]]]
           /\ refreshing' = [refreshing EXCEPT ![t] = NoCall]
           /\ ref' = [ref EXCEPT ![t][c] = NoRefresh]
  <2>1. /\ \A d \in Calls : ref'[t][d].stage = "none"
        /\ \A s \in Tabs \ {t} : ref'[s] = ref[s]
    BY <1>2, OthersNotUnderWay
  <2>2. /\ \A d \in Calls : call'[t][d] = IF d \in Waiters(t, c) THEN Idle ELSE call[t][d]
        /\ \A s \in Tabs \ {t} : call'[s] = call[s]
    BY <1>2 DEF ClientInv, TypeOK
  <2>3. /\ refreshing'[t] = NoCall
        /\ \A s \in Tabs \ {t} : refreshing'[s] = refreshing[s]
    BY <1>2 DEF ClientInv, TypeOK
  <2> QED BY <2>1, <2>2, <2>3, IdleTyped, WaitersOfTheRefresh DEF TabEnds
<1> QED BY <1>1, <1>2 DEF Fail

(* Nothing begins in a tab whose refresh is over. *)
LEMMA NothingStartsWhenTabEnds ==
  ASSUME ClientInv, NEW t \in Tabs, TabEnds(t), UNCHANGED <<overlapped, live, family, cookie>>
  PROVE  NothingStarts
<1>1. \A s \in Tabs, d \in Calls : UnderWayAt(s, d)' => s # t /\ ref'[s][d] = ref[s][d]
  BY DEF TabEnds, UnderWayAt
<1>2. \A s \in Tabs : LoggingOut(s)' => LoggingOut(s)
  BY DEF TabEnds, LoggingOut
<1> QED BY <1>1, <1>2 DEF NothingStarts, UnderWayAt

(* The new cookie is the one in force, of the same family. *)
LEMMA RefreshedKeeps ==
  ASSUME ClientInv, TypeOK', NEW t \in Tabs, NEW c \in Calls, Refreshed(t, c)
  PROVE  ClientInv'
<1>1. /\ ref[t][c].stage = "answer" /\ UnderWayAt(t, c) /\ ref[t][c].new \in Tokens
      /\ cookie' = ref[t][c].new
      /\ UNCHANGED <<live, family, session, overlapped, lost, ended, alarmed>>
  BY DEF Refreshed, UnderWayAt, server, history, ClientInv, Presented
<1>2. TabEnds(t)
  BY RefreshedEnds
<1>3. Presented' /\ Promised' /\ WaitsForARefresh'
  BY <1>2, PromiseEnds DEF ClientInv
<1>4. ~overlapped => \A s \in Tabs, d \in Calls : ~UnderWayAt(s, d)'
  BY <1>1, <1>2, Alone DEF TabEnds, UnderWayAt
<1>5. OneAtATime' /\ InTune'
  BY <1>1, <1>4 DEF OneAtATime, InTune, UnderWayAt
<1>6. InForceUnlessTrouble'
  BY <1>1, <1>4 DEF ClientInv, InForceUnlessTrouble, Trouble, UnderWayAt
<1>7. CookieOfSession'
  <2>1. ~overlapped => /\ ref[t][c].token = cookie
                       /\ family[ref[t][c].new] = family[cookie]
    BY <1>1 DEF ClientInv, InTune
  <2>2. ref[t][c].token \in Tokens
    BY <1>1 DEF ClientInv, Presented
  <2> QED BY <1>1, <2>1, <2>2, NothingIsNoToken DEF ClientInv, CookieOfSession
<1>8. AlarmUnlessOverlap'
  BY <1>1 DEF ClientInv, AlarmUnlessOverlap
<1> QED BY <1>3, <1>5, <1>6, <1>7, <1>8 DEF ClientInv

LEMMA RefusedKeeps ==
  ASSUME ClientInv, TypeOK', NEW t \in Tabs, NEW c \in Calls, Refused(t, c) \/ LoseRefresh(t, c)
  PROVE  ClientInv'
<1>1. /\ UnderWayAt(t, c) /\ Fail(t, c)
      /\ UNCHANGED <<live, family, cookie, session, overlapped, ended, alarmed>>
      /\ lost => lost'
      /\ lost' \/ ref[t][c].stage = "refused"
  BY DEF Refused, LoseRefresh, UnderWayAt, server, cookies
<1>2. TabEnds(t)
  BY <1>1, FailEnds
<1>3. Presented' /\ Promised' /\ WaitsForARefresh'
  BY <1>2, PromiseEnds DEF ClientInv
<1>4. NothingStarts
  BY <1>1, <1>2, NothingStartsWhenTabEnds
<1>5. ~Trouble' => ~Changing
  BY <1>1, Alone DEF Trouble, Changing, UnderWayAt
<1>6. Trouble => Trouble'
  BY <1>1 DEF Trouble
<1> QED BY <1>1, <1>3, <1>4, <1>5, <1>6, CalmKeeps DEF Calm

LEMMA VisitKeeps ==
  ASSUME ClientInv, TypeOK', NEW t \in Tabs, NEW c \in Calls, Visit(t, c)
  PROVE  ClientInv'
<1>1. /\ \A d \in Calls : call[t][d] = Idle /\ ref[t][d] = NoRefresh
      /\ Load(t, c)
      /\ UNCHANGED <<live, family, cookie, session, overlapped, lost, ended, alarmed>>
  BY DEF Visit, server, cookies, history
<1>2. TabEnds(t)
  BY <1>1, LoadEnds
<1>3. Presented' /\ Promised' /\ WaitsForARefresh'
  BY <1>2, PromiseEnds DEF ClientInv
<1>4. NothingStarts
  BY <1>1, <1>2, NothingStartsWhenTabEnds
<1>5. Changing => Changing'
  BY <1>1, <1>2, IdleTyped DEF Changing, TabEnds
<1>6. Trouble => Trouble'
  BY <1>1 DEF Trouble
<1> QED BY <1>1, <1>3, <1>4, <1>5, <1>6, CalmKeeps DEF Calm

(* A login starts anew, unless requests of the session before are under way. *)
LEMMA LoginKeeps ==
  ASSUME ClientInv, TypeOK', NEW t \in Tabs, Login(t)
  PROVE  ClientInv'
<1>0. family \in [Tokens -> 0..MaxLogins] /\ logins \in Nat
  BY BoundsTyped DEF ClientInv, TypeOK
<1>1. PICK k \in Tokens :
        live' = live \cup {k} /\ family' = [family EXCEPT ![k] = logins'] /\ cookie' = k
  BY DEF Login
<1>2. /\ logins' = logins + 1 /\ session' = logins'
      /\ overlapped' = Busy({}) /\ alarmed' = FALSE
      /\ UNCHANGED <<call, refreshing, ref>>
  BY DEF Login
<1>3. Presented' /\ Promised' /\ WaitsForARefresh'
  BY <1>2 DEF ClientInv, Presented, Promised, WaitsForARefresh, UnderWayAt
<1>4. ~overlapped' => \A s \in Tabs, d \in Calls : ~UnderWayAt(s, d)'
  BY <1>2 DEF Busy, Refreshing, UnderWayAt
<1>5. OneAtATime' /\ InTune'
  BY <1>4 DEF OneAtATime, InTune, UnderWayAt
<1>6. InForceUnlessTrouble'
  BY <1>1, <1>4 DEF InForceUnlessTrouble, Trouble, UnderWayAt
<1>7. CookieOfSession'
  <2>1. family'[cookie'] = session' /\ session' # 0
    BY <1>0, <1>1, <1>2
  <2>2. cookie' # NoToken
    BY <1>1, NothingIsNoToken
  <2> QED BY <2>1, <2>2 DEF CookieOfSession
<1>8. AlarmUnlessOverlap'
  BY <1>2 DEF AlarmUnlessOverlap
<1> QED BY <1>3, <1>5, <1>6, <1>7, <1>8 DEF ClientInv

(* Without overlap there is no refresh while a logout is under way. *)
LEMMA LogoutAlone ==
  ASSUME ClientInv, ~overlapped, NEW t \in Tabs, LoggingOut(t)
  PROVE  \A s \in Tabs, d \in Calls : ~UnderWayAt(s, d)
BY DEF ClientInv, OneAtATime, Busy

LEMMA LogoutKeeps ==
  ASSUME ClientInv, TypeOK', NEW t \in Tabs, NEW c \in Calls, Logout(t, c)
  PROVE  ClientInv'
<1> DEFINE x == [call[t][c] EXCEPT !.stage = "answered"]
<1>0. call[t][c] \in CallData
  BY TypesOf DEF ClientInv, CallsTyped
<1>1. /\ call[t][c].kind = "logout" /\ call[t][c].stage = "sent" /\ LoggingOut(t)
      /\ call' = [call EXCEPT ![t][c] = x] /\ live' = live \ {call[t][c].token}
      /\ UNCHANGED <<ref, refreshing, family, cookie, session, overlapped, lost, ended, alarmed>>
  BY DEF Logout, LoggingOut, cookies, page, history
<1>2. x.stage = "answered" /\ x.kind = "logout"
  BY <1>0, <1>1 DEF CallData
<1> HIDE DEF x
<1>3. \A s \in Tabs, d \in Calls :
        \/ call'[s][d] = call[s][d]
        \/ s = t /\ d = c /\ call'[s][d] = x
  BY <1>1 DEF ClientInv, TypeOK
<1>4. call'[t][c] = x
  BY <1>1 DEF ClientInv, TypeOK
<1>5. Presented'
  BY <1>1, <1>2, <1>3 DEF ClientInv, Presented
<1>6. Promised' /\ WaitsForARefresh'
  <2>1. \A s \in Tabs, d \in Calls :
          \/ call'[s][d] = call[s][d]
          \/ call[s][d].stage # "waiting" /\ call'[s][d].stage # "waiting"
    BY <1>1, <1>2, <1>3
  <2> QED BY <1>1, <2>1, PromiseKept DEF ClientInv, UnderWayAt
<1>7. OneAtATime' /\ InTune'
  <2>1. \A s \in Tabs : LoggingOut(s)' => LoggingOut(s)
    BY <1>1, <1>3 DEF LoggingOut
  <2>2. NothingStarts
    BY <1>1, <2>1 DEF NothingStarts, UnderWayAt
  <2> QED BY <2>2, NothingStartsKeeps DEF ClientInv
<1>8. InForceUnlessTrouble'
  <2>1. Changing'
    BY <1>2, <1>4 DEF Changing
  <2>2. ~overlapped' => \A s \in Tabs, d \in Calls : ref'[s][d].stage # "answer"
    BY <1>1, LogoutAlone DEF UnderWayAt
  <2> QED BY <2>1, <2>2 DEF InForceUnlessTrouble, Trouble
<1>9. CookieOfSession' /\ AlarmUnlessOverlap'
  BY <1>1 DEF ClientInv, CookieOfSession, AlarmUnlessOverlap
<1> QED BY <1>5, <1>6, <1>7, <1>8, <1>9 DEF ClientInv

LEMMA LoggedOutKeeps ==
  ASSUME ClientInv, TypeOK', NEW t \in Tabs, NEW c \in Calls, LoggedOut(t, c)
  PROVE  ClientInv'
<1>1. /\ call[t][c].kind = "logout" /\ call[t][c].stage = "answered" /\ LoggingOut(t)
      /\ call' = [call EXCEPT ![t][c] = Idle] /\ cookie' = NoToken /\ session' = 0
      /\ UNCHANGED <<ref, refreshing, live, family, overlapped, lost, ended, alarmed>>
  BY DEF LoggedOut, LoggingOut, ClearAuthCookies, server
<1>2. \A s \in Tabs, d \in Calls :
        \/ call'[s][d] = call[s][d]
        \/ s = t /\ d = c /\ call'[s][d] = Idle
  BY <1>1 DEF ClientInv, TypeOK
<1>3. Presented'
  BY <1>1, <1>2, IdleTyped DEF ClientInv, Presented
<1>4. Promised' /\ WaitsForARefresh'
  <2>1. \A s \in Tabs, d \in Calls :
          \/ call'[s][d] = call[s][d]
          \/ call[s][d].stage # "waiting" /\ call'[s][d].stage # "waiting"
    BY <1>1, <1>2, IdleTyped
  <2> QED BY <1>1, <2>1, PromiseKept DEF ClientInv, UnderWayAt
<1>5. ~overlapped' => \A s \in Tabs, d \in Calls : ~UnderWayAt(s, d)'
  BY <1>1, LogoutAlone DEF UnderWayAt
<1>6. OneAtATime' /\ InTune'
  BY <1>5 DEF OneAtATime, InTune, UnderWayAt
<1>7. InForceUnlessTrouble'
  BY <1>1, <1>5 DEF InForceUnlessTrouble, Trouble, UnderWayAt
<1>8. CookieOfSession' /\ AlarmUnlessOverlap'
  BY <1>1 DEF ClientInv, CookieOfSession, AlarmUnlessOverlap
<1> QED BY <1>3, <1>4, <1>6, <1>7, <1>8 DEF ClientInv

LEMMA EndSessionsKeeps ==
  ASSUME ClientInv, TypeOK', EndSessions
  PROVE  ClientInv'
<1>1. /\ live' = {} /\ ended' = TRUE
      /\ UNCHANGED <<call, refreshing, ref, family, cookie, session, overlapped, lost, alarmed>>
  BY DEF EndSessions, cookies, page
<1>2. Presented' /\ Promised' /\ WaitsForARefresh'
  BY <1>1 DEF ClientInv, Presented, Promised, WaitsForARefresh, UnderWayAt
<1>3. OneAtATime' /\ InTune'
  <2>1. NothingStarts
    BY <1>1 DEF NothingStarts, UnderWayAt, LoggingOut
  <2> QED BY <2>1, NothingStartsKeeps DEF ClientInv
<1>4. InForceUnlessTrouble' /\ AlarmUnlessOverlap'
  BY <1>1 DEF InForceUnlessTrouble, AlarmUnlessOverlap, Trouble
<1>5. CookieOfSession'
  BY <1>1, CookieKept DEF ClientInv
<1> QED BY <1>2, <1>3, <1>4, <1>5 DEF ClientInv

LEMMA ExpireKeeps ==
  ASSUME ClientInv, TypeOK', Expire \/ UNCHANGED vars
  PROVE  ClientInv'
<1>1. UNCHANGED <<call, refreshing, ref, live, family, cookie, session, overlapped, lost, ended, alarmed>>
  BY DEF Expire, vars, server, cookies, page, history
<1>2. Presented' /\ Promised' /\ WaitsForARefresh'
  BY <1>1 DEF ClientInv, Presented, Promised, WaitsForARefresh, UnderWayAt
<1>3. Calm
  BY <1>1 DEF Calm, NothingStarts, UnderWayAt, LoggingOut, Trouble, Changing
<1> QED BY <1>2, <1>3, CalmKeeps

LEMMA ClientStarts ==
  ASSUME Init
  PROVE  ClientInv
<1>1. \A t \in Tabs, c \in Calls :
        /\ ref[t][c].stage = "none" /\ refreshing[t] # c
        /\ call[t][c].stage = "idle" /\ call[t][c].kind = "api"
  BY IdleTyped, NothingIsNoCall DEF Init
<1>2. Presented /\ Promised /\ WaitsForARefresh /\ OneAtATime /\ InTune
  BY <1>1 DEF Presented, Promised, WaitsForARefresh, OneAtATime, InTune, UnderWayAt
<1>3. InForceUnlessTrouble /\ CookieOfSession /\ AlarmUnlessOverlap
  BY <1>1 DEF Init, InForceUnlessTrouble, CookieOfSession, AlarmUnlessOverlap
<1> QED BY <1>2, <1>3, InitTyped DEF ClientInv

LEMMA ClientKeeps ==
  ASSUME ClientInv, [Next]_vars
  PROVE  ClientInv'
<1>0. TypeOK'
  BY NextTyped DEF ClientInv
<1>1. ASSUME NEW t \in Tabs, NEW c \in Calls, Settle(t, c)
      PROVE  ClientInv'
  <2>1. CASE Unauthorized(t, c)
    BY <1>0, <2>1, JoinKeeps, RefreshKeeps
  <2> QED BY <1>0, <1>1, <2>1, ServeKeeps, FindKeeps, RevokeKeeps, InsertKeeps, RefreshedKeeps,
             RefusedKeeps, LogoutKeeps, LoggedOutKeeps DEF Settle
<1>2. ASSUME NEW t \in Tabs, NEW c \in Calls,
             \/ Send(t, c) \/ SendLogout(t, c) \/ Visit(t, c)
             \/ LoseRefresh(t, c) \/ LoseLogout(t, c)
      PROVE  ClientInv'
  BY <1>0, <1>2, SendKeeps, SendLogoutKeeps, VisitKeeps, RefusedKeeps, LoseLogoutKeeps
<1>3. ASSUME NEW t \in Tabs, Login(t)
      PROVE  ClientInv'
  BY <1>0, <1>3, LoginKeeps
<1>4. CASE Expire \/ EndSessions \/ UNCHANGED vars
  BY <1>0, <1>4, ExpireKeeps, EndSessionsKeeps
<1> QED BY <1>1, <1>2, <1>3, <1>4 DEF Next

-----------------------------------------------------------------------------
(* ApiClient: what holds in every run *)

LEMMA ClientInvariant == Spec => []ClientInv
<1>1. Init => ClientInv
  BY ClientStarts
<1>2. ClientInv /\ [Next]_vars => ClientInv'
  BY ClientKeeps
<1> QED BY <1>1, <1>2, PTL DEF Spec

(* Every variable of the client keeps its type, and no request but a logout brings the
   refresh token: its cookie has the path of /api/auth (cookies.js:9-25). *)
THEOREM ClientTypesHold == Spec => []TypeOK
<1>1. ClientInv => TypeOK
  BY DEF ClientInv
<1> QED BY <1>1, ClientInvariant, PTL

(* However many calls of a tab find the access token expired, one refresh is under way,
   and it is the one the tab's promise stands for (client.js:42-71). *)
THEOREM OneRefreshHolds == Spec => []OneRefresh
<1>1. ClientInv => OneRefresh
  BY DEF ClientInv, Promised, OneRefresh, UnderWayAt
<1> QED BY <1>1, ClientInvariant, PTL

(* No call waits for a refresh that is over: whatever ends it, settles everything that
   waits (client.js:42-71). *)
THEOREM NothingWaitsInVain == Spec => []WaitsForARefresh
<1>1. ClientInv => WaitsForARefresh
  BY DEF ClientInv
<1> QED BY <1>1, ClientInvariant, PTL

(* The reuse alarm is raised against the browser itself only after overlap, loss or a
   revocation elsewhere: a refresh that is alone presents the cookie, and the cookie is in
   force (tokenService.js, client.js). *)
THEOREM NoFalseAlarm == Spec => []AlarmUnlessOverlap
<1>1. ClientInv => AlarmUnlessOverlap
  BY DEF ClientInv
<1> QED BY <1>1, ClientInvariant, PTL

(* The refresh cookie is of the login last made, through every rotation, and there is none
   after a logout, unless requests that set the cookies overlapped. *)
THEOREM CookieIsOfSession == Spec => []CookieOfSession
<1>1. ClientInv => CookieOfSession
  BY DEF ClientInv
<1> QED BY <1>1, ClientInvariant, PTL

(* What sends a tab to /login: a refresh that failed, and it was lost, or refused a cookie
   that is not in force. *)
LEMMA OnlyTheGoneAreEjected ==
  ASSUME ClientInv, [Next]_vars, NEW t \in Tabs, user[t], ~atLogin[t], atLogin'[t]
  PROVE  cookie \notin live \/ overlapped \/ lost'
<1> USE DEF server, cookies, page, history
<1>0. /\ user \in [Tabs -> BOOLEAN] /\ atLogin \in [Tabs -> BOOLEAN]
      /\ atLogin' # atLogin
  BY DEF ClientInv, TypeOK
<1>1. ASSUME NEW s \in Tabs, NEW c \in Calls, Refused(s, c)
      PROVE  cookie \notin live \/ overlapped
  BY <1>1 DEF Refused, ClientInv, InTune
<1>2. ASSUME NEW s \in Tabs, NEW c \in Calls, LoseRefresh(s, c)
      PROVE  lost'
  BY <1>2 DEF LoseRefresh
<1>3. ASSUME NEW s \in Tabs, NEW c \in Calls, Visit(s, c)
      PROVE  FALSE
  BY <1>0, <1>3 DEF Visit
<1>4. ASSUME NEW s \in Tabs, Login(s)
      PROVE  FALSE
  BY <1>0, <1>4 DEF Login
<1>5. ASSUME NEW s \in Tabs, NEW c \in Calls, Settle(s, c), ~Refused(s, c)
      PROVE  FALSE
  BY <1>0, <1>5 DEF Settle, Serve, Reject, Unauthorized, Find, Revoke, Insert, Refreshed, Logout, LoggedOut
<1>6. ASSUME NEW s \in Tabs, NEW c \in Calls, Send(s, c) \/ SendLogout(s, c) \/ LoseLogout(s, c)
      PROVE  FALSE
  BY <1>0, <1>6 DEF Send, SendLogout, LoseLogout
<1>7. ~(Expire \/ EndSessions \/ UNCHANGED vars)
  BY <1>0 DEF Expire, EndSessions, vars
<1> QED BY <1>1, <1>2, <1>3, <1>4, <1>5, <1>6, <1>7 DEF Next

(* A signed-in user is sent away only when the session is gone, or requests overlapped or
   one was lost (client.js:52-62). *)
THEOREM EjectedWhenGone == Spec => EjectedOnlyWhenGone
<1>1. ClientInv /\ [Next]_vars =>
        [\A t \in Tabs : user[t] /\ ~atLogin[t] /\ atLogin'[t] => cookie \notin live \/ overlapped \/ lost']_vars
  BY OnlyTheGoneAreEjected
<1> QED BY <1>1, ClientInvariant, PTL DEF Spec, EjectedOnlyWhenGone

-----------------------------------------------------------------------------
(* ProfilePage: the invariant *)

(* A call that is under way stems from a page with a user, and from the page that is open
   unless that was left.  The server serves nobody without a session, and enables MFA with
   recovery codes. *)
Sits ==
  \A r \in Requests :
    /\ request[r].here => open
    /\ request[r] # Free => request[r].was # Nobody /\ request[r].stage # "free"
    /\ request[r].stage = "served" => request[r].who # Nobody
    /\ Served(r, "enable") => request[r].key # NoKey

(* `busy`: the MFA section of the page has one call under way. *)
OneOfSection ==
  \A r, q \in Requests :
    /\ request[r].here /\ request[r].kind \in Mfa
    /\ request[q].here /\ request[q].kind \in Mfa
    => r = q

(* A call that was alone carries what the tab still shows. *)
OneCall ==
  ~concurrent =>
    /\ \A r, q \in UnderWay : r = q
    /\ shown # Nobody => shown.id = owner
    /\ \A r \in UnderWay : request[r].was = shown /\ request[r].who = owner
    /\ ~crossed

(* The users the handlers will show are those of the session. *)
OfSession ==
  ~crossed =>
    /\ shown # Nobody => shown.id = owner
    /\ \A r \in UnderWay : request[r].was.id = owner

(* what the tab will show when the answer of call r arrives *)
After(r) ==
  CASE Served(r, "save")    -> [request[r].was EXCEPT !.name = request[r].name]
    [] Served(r, "enable")  -> [request[r].was EXCEPT !.mfa = TRUE]
    [] Served(r, "disable") -> [request[r].was EXCEPT !.mfa = FALSE]
    [] OTHER                -> request[r].was

(* That is what the server has. *)
WillBeStored ==
  ~concurrent /\ ~unanswered =>
    /\ UnderWay = {} /\ shown # Nobody => shown = publicView(shown.id)
    /\ \A r \in UnderWay : After(r) = publicView(owner)

(* The codes on the screen, or about to be there, are in force, and nothing that would
   replace them is under way. *)
CodesInForce ==
  ~concurrent =>
    /\ setup # NoKey => codes = NoKey
    /\ \A r \in UnderWay : request[r].kind \in Mfa => codes = NoKey
    /\ \A r \in Requests : Served(r, "enable") => stored[owner].codes = request[r].key
    /\ codes # NoKey => stored[owner].codes = codes

(* a call that may enable MFA *)
MayEnable(r) == request[r].stage = "sent" /\ request[r].kind = "enable"

(* the page has, or will have, the secret of call r *)
OnPage(r) == request[r].here /\ (Served(r, "setup") \/ MayEnable(r))

(* The secret of a call of a page that was left is not the secret of this page. *)
SecretsApart ==
  \A q \in Requests :
    MayEnable(q) /\ ~request[q].here /\ request[q].key # NoKey =>
      setup # request[q].key /\ \A r \in Requests : OnPage(r) => request[r].key # request[q].key

(* The calls of pages that were left cannot enable the MFA of user u. *)
Useless(u) ==
  \A r \in Requests :
    MayEnable(r) /\ ~request[r].here /\ request[r].who = u =>
      stored[u].secret = NoKey \/ stored[u].secret # request[r].key

(* the answer of call r will show the codes *)
TellsCodes(r) == Served(r, "enable") /\ request[r].here

(* Nobody but the missed gets codes no page shows. *)
Telling ==
  /\ \A u \in Users \ missed : Useless(u)
  /\ \A r \in Requests, u \in Users : TellsCodes(r) /\ request[r].who = u =>
       /\ Useless(u)
       /\ stored[u].mfa => stored[u].codes = request[r].key
  /\ \A u \in Users \ missed : stored[u].mfa =>
       \/ stored[u].codes \in told
       \/ \E r \in Requests : TellsCodes(r) /\ request[r].who = u /\ request[r].key = stored[u].codes

PageInv ==
  /\ PageTypeOK /\ Sits /\ OneOfSection
  /\ OneCall /\ OfSession /\ WillBeStored
  /\ CodesInForce /\ SecretsApart /\ Telling

-----------------------------------------------------------------------------
(* ProfilePage: types *)

AnyKey == Keys \cup {NoKey}
RequestData == [kind : Buttons, stage : {"free", "sent", "served", "refused"},
                who : Users \cup {Nobody}, was : Views, name : Names, key : AnyKey, here : BOOLEAN]
RowData == [name : Names, mfa : BOOLEAN, secret : AnyKey, codes : AnyKey]

LEMMA PageTypes ==
  PageTypeOK <=>
    /\ stored \in [Users -> RowData] /\ request \in [Requests -> RequestData]
    /\ owner \in Users \cup {Nobody} /\ shown \in Views
    /\ open \in BOOLEAN /\ (open => shown # Nobody)
    /\ setup \in AnyKey /\ codes \in AnyKey /\ (setup # NoKey \/ codes # NoKey => open)
    /\ concurrent \in BOOLEAN /\ unanswered \in BOOLEAN /\ crossed \in BOOLEAN
    /\ told \subseteq Keys /\ missed \subseteq Users
BY DEF PageTypeOK, AnyKey, RequestData, RowData

LEMMA PageTypesKept ==
  ASSUME stored' \in [Users -> RowData], request' \in [Requests -> RequestData],
         owner' \in Users \cup {Nobody}, shown' \in Views,
         open' \in BOOLEAN, open' => shown' # Nobody,
         setup' \in AnyKey, codes' \in AnyKey, setup' # NoKey \/ codes' # NoKey => open',
         concurrent' \in BOOLEAN, unanswered' \in BOOLEAN, crossed' \in BOOLEAN,
         told' \subseteq Keys, missed' \subseteq Users
  PROVE  PageTypeOK'
BY DEF PageTypeOK, AnyKey, RequestData, RowData

(* A view is a record, or nobody. *)
LEMMA ViewIs ==
  ASSUME NEW v \in Views, v # Nobody
  PROVE  v \in [id : Users, name : Names, mfa : BOOLEAN]
BY DEF Views

LEMMA RecordIsView ==
  ASSUME NEW v \in [id : Users, name : Names, mfa : BOOLEAN]
  PROVE  v \in Views /\ v # Nobody
BY NobodyIsNoView DEF Views

LEMMA MfaSet ==
  ASSUME NEW v \in [id : Users, name : Names, mfa : BOOLEAN], NEW b \in BOOLEAN
  PROVE  [v EXCEPT !.mfa = b] = [id |-> v.id, name |-> v.name, mfa |-> b]
OBVIOUS

LEMMA PublicViewTyped ==
  ASSUME stored \in [Users -> RowData], NEW u \in Users
  PROVE  /\ publicView(u) \in Views /\ publicView(u) # Nobody
         /\ publicView(u).id = u /\ publicView(u).name = stored[u].name /\ publicView(u).mfa = stored[u].mfa
BY RecordIsView DEF publicView, RowData

LEMMA AnyNameTyped == AnyName \in Names /\ Sanitized[AnyName] = AnyName
BY SanitizedTyped DEF AnyName

LEMMA FreeTyped ==
  /\ Free \in RequestData
  /\ Free.kind = "save" /\ Free.stage = "free" /\ Free.key = NoKey /\ Free.here = FALSE
  /\ Free.who = Nobody
BY AnyNameTyped DEF Free, RequestData, Buttons, Views, AnyKey

(* A call of a page that is left is one as before. *)
LEMMA LeftTyped ==
  ASSUME NEW x \in RequestData
  PROVE  LET y == [x EXCEPT !.here = FALSE] IN
           /\ y \in RequestData /\ y.here = FALSE
           /\ y.kind = x.kind /\ y.stage = x.stage /\ y.who = x.who /\ y.was = x.was
           /\ y.name = x.name /\ y.key = x.key
           /\ (x = Free => y = Free)
<1>1. \A z \in RequestData : z = [z EXCEPT !.here = z.here]
  BY DEF RequestData
<1>2. [Free EXCEPT !.here = FALSE] = Free
  BY <1>1, FreeTyped
<1> QED BY <1>2 DEF RequestData

(* One call changes. *)
LEMMA OneRequest ==
  ASSUME request \in [Requests -> RequestData], NEW r \in Requests, NEW x \in RequestData,
         request' = [request EXCEPT ![r] = x]
  PROVE  /\ request' \in [Requests -> RequestData]
         /\ request'[r] = x
         /\ \A q \in Requests : q # r => request'[q] = request[q]
OBVIOUS

-----------------------------------------------------------------------------
(* ProfilePage: what the steps have in common *)

(* Whom a call that is under way is for. *)
LEMMA UnderWayIs ==
  ASSUME PageInv, NEW r \in Requests, request[r].stage # "free"
  PROVE  /\ r \in UnderWay /\ request[r].was # Nobody
         /\ request[r].was \in [id : Users, name : Names, mfa : BOOLEAN]
         /\ request[r].stage = "served" => request[r].who \in Users
<1>1. request[r] # Free /\ request[r].was \in Views /\ request[r].who \in Users \cup {Nobody}
  BY FreeTyped DEF PageInv, PageTypeOK
<1> QED BY <1>1, ViewIs DEF PageInv, Sits, UnderWay

(* Nothing happens to what MFA needs. *)
LEMMA TellingKept ==
  ASSUME Telling, told' = told, missed' = missed,
         \A u \in Users : /\ stored'[u].secret = stored[u].secret
                          /\ stored'[u].mfa = stored[u].mfa /\ stored'[u].codes = stored[u].codes,
         \A q \in Requests :
           /\ MayEnable(q)' /\ ~request'[q].here =>
                /\ MayEnable(q) /\ ~request[q].here
                /\ request'[q].who = request[q].who /\ request'[q].key = request[q].key
           /\ TellsCodes(q)' <=> TellsCodes(q)
           /\ TellsCodes(q) => request'[q].who = request[q].who /\ request'[q].key = request[q].key
  PROVE  Telling'
<1>1. \A u \in Users : Useless(u) => Useless(u)'
  BY DEF Useless
<1>3. \A u \in Users \ missed' : Useless(u)'
  BY <1>1 DEF Telling
<1>4. \A q \in Requests, u \in Users : TellsCodes(q)' /\ request'[q].who = u =>
        /\ Useless(u)'
        /\ stored'[u].mfa => stored'[u].codes = request'[q].key
  BY <1>1 DEF Telling
<1>5. \A u \in Users \ missed' : stored'[u].mfa =>
        \/ stored'[u].codes \in told'
        \/ \E q \in Requests : TellsCodes(q)' /\ request'[q].who = u /\ request'[q].key = stored'[u].codes
  BY DEF Telling
<1> QED BY <1>3, <1>4, <1>5 DEF Telling

-----------------------------------------------------------------------------
(* ProfilePage: the clicks *)

LEMMA ClickKeeps ==
  ASSUME PageInv, NEW r \in Requests, NEW kind \in Buttons, NEW name \in Names, NEW key \in AnyKey,
         Click(r, kind, name, key), shown # Nobody,
         kind \in Mfa => ~Disabled(Mfa) /\ (~concurrent => codes = NoKey),
         kind = "enable" => open /\ key \in {setup, NoKey}
  PROVE  PageInv'
<1> DEFINE x == [kind |-> kind, stage |-> "sent", who |-> owner, was |-> shown,
                 name |-> name, key |-> key, here |-> open]
<1>0. /\ stored \in [Users -> RowData] /\ request \in [Requests -> RequestData]
      /\ owner \in Users \cup {Nobody} /\ shown \in Views
      /\ open \in BOOLEAN /\ (open => shown # Nobody)
      /\ setup \in AnyKey /\ codes \in AnyKey /\ (setup # NoKey \/ codes # NoKey => open)
      /\ concurrent \in BOOLEAN /\ unanswered \in BOOLEAN /\ crossed \in BOOLEAN
      /\ told \subseteq Keys /\ missed \subseteq Users
  BY PageTypes DEF PageInv
<1>1. /\ request[r] = Free /\ request' = [request EXCEPT ![r] = x]
      /\ concurrent' = (concurrent \/ UnderWay # {})
      /\ UNCHANGED <<stored, owner, shown, open, setup, codes, unanswered, crossed, told, missed>>
  BY DEF Click, screen
<1>2. x \in RequestData
  BY <1>0 DEF RequestData
<1>3. /\ x.kind = kind /\ x.stage = "sent" /\ x.who = owner /\ x.was = shown /\ x.name = name
      /\ x.key = key /\ x.here = open /\ x # Free
  BY FreeTyped
<1> HIDE DEF x
<1>4. /\ request' \in [Requests -> RequestData]
      /\ request'[r] = x
      /\ \A q \in Requests : q # r => request'[q] = request[q]
  BY <1>0, <1>1, <1>2, OneRequest
<1>5. PageTypeOK'
  BY <1>0, <1>1, <1>4, PageTypesKept
<1>6. UnderWay' = UnderWay \cup {r}
  BY <1>3, <1>4, <1>1 DEF UnderWay
<1>7. Sits'
  BY <1>0, <1>1, <1>3, <1>4 DEF PageInv, Sits, Served
<1>8. OneOfSection'
  <2>1. kind \in Mfa => \A q \in Requests : ~(request[q].here /\ request[q].kind \in Mfa)
    BY DEF Disabled
  <2> QED BY <1>3, <1>4, <2>1 DEF PageInv, OneOfSection
<1>9. ~concurrent' => ~concurrent /\ UnderWay = {} /\ UnderWay' = {r}
  BY <1>0, <1>1, <1>6
<1>10. OneCall'
  BY <1>1, <1>3, <1>4, <1>9 DEF PageInv, OneCall
<1>11. OfSession'
  BY <1>1, <1>3, <1>4, <1>6 DEF PageInv, OfSession
<1>12. WillBeStored'
  <2> SUFFICES ASSUME ~concurrent', ~unanswered'
               PROVE  UnderWay' # {} /\ \A q \in UnderWay' : After(q)' = publicView(owner)'
    BY DEF WillBeStored
  <2>1. After(r)' = shown
    BY <1>3, <1>4 DEF After, Served
  <2>2. shown = publicView(owner)
    BY <1>1, <1>9 DEF PageInv, WillBeStored, OneCall
  <2>3. publicView(owner)' = publicView(owner)
    BY <1>1 DEF publicView
  <2> QED BY <1>9, <2>1, <2>2, <2>3
<1>13. CodesInForce'
  <2>1. \A q \in Requests : Served(q, "enable")' => Served(q, "enable") /\ request'[q].key = request[q].key
    BY <1>3, <1>4 DEF Served
  <2> QED BY <1>1, <1>3, <1>4, <1>9, <2>1 DEF PageInv, CodesInForce
<1>14. \A q \in Requests :
         /\ MayEnable(q)' => \/ MayEnable(q) /\ request'[q] = request[q]
                             \/ q = r /\ kind = "enable"
         /\ OnPage(q)' => \/ OnPage(q) /\ request'[q] = request[q]
                          \/ q = r /\ kind = "enable"
         /\ TellsCodes(q)' <=> TellsCodes(q)
         /\ TellsCodes(q) => request'[q] = request[q]
  <2> SUFFICES ASSUME NEW q \in Requests
               PROVE  /\ MayEnable(q)' => \/ MayEnable(q) /\ request'[q] = request[q]
                                          \/ q = r /\ kind = "enable"
                      /\ OnPage(q)' => \/ OnPage(q) /\ request'[q] = request[q]
                                       \/ q = r /\ kind = "enable"
                      /\ TellsCodes(q)' <=> TellsCodes(q)
                      /\ TellsCodes(q) => request'[q] = request[q]
    OBVIOUS
  <2>1. CASE q = r
    BY <2>1, <1>1, <1>3, <1>4, FreeTyped DEF MayEnable, OnPage, TellsCodes, Served
  <2>2. CASE q # r
    BY <2>2, <1>4 DEF MayEnable, OnPage, TellsCodes, Served
  <2> QED BY <2>1, <2>2
<1>15. SecretsApart'
  <2> SUFFICES ASSUME NEW q \in Requests, MayEnable(q)', ~request'[q].here, request'[q].key # NoKey
               PROVE  /\ setup # request'[q].key
                      /\ \A p \in Requests : OnPage(p)' => request'[p].key # request'[q].key
    BY <1>1 DEF SecretsApart
  <2>1. MayEnable(q) /\ request'[q] = request[q]
    BY <1>14, <1>3, <1>4
  <2> QED BY <1>14, <2>1, <1>3, <1>4 DEF PageInv, SecretsApart
<1>16. Telling'
  BY <1>1, <1>3, <1>4, <1>14, TellingKept DEF PageInv
<1> QED BY <1>5, <1>7, <1>8, <1>10, <1>11, <1>12, <1>13, <1>15, <1>16 DEF PageInv

LEMMA ButtonsKeep ==
  ASSUME PageInv, NEW r \in Requests,
         save(r) \/ startSetup(r) \/ confirmEnable(r) \/ disable(r) \/ logout(r)
  PROVE  PageInv'
<1>0. open => shown # Nobody
  BY DEF PageInv, PageTypeOK
<1>a. NoKey \in AnyKey /\ setup \in AnyKey
  BY PageTypes DEF AnyKey, PageInv
<1>1. CASE save(r)
  <2>1. PICK n \in Names : Click(r, "save", n, NoKey)
    BY <1>1 DEF save
  <2> QED BY <1>0, <1>a, <1>1, <2>1, ClickKeeps DEF save, Buttons, Mfa
<1>2. CASE startSetup(r)
  BY <1>0, <1>a, <1>2, ClickKeeps, AnyNameTyped DEF startSetup, Buttons, Mfa
<1>3. CASE confirmEnable(r)
  <2>1. PICK k \in {setup, NoKey} : Click(r, "enable", AnyName, k)
    BY <1>3 DEF confirmEnable
  <2>2. ~concurrent => codes = NoKey
    BY <1>3 DEF confirmEnable, PageInv, CodesInForce
  <2>3. "enable" \in Buttons
    BY DEF Buttons
  <2> QED BY <1>0, <1>a, <1>3, <2>1, <2>2, <2>3, ClickKeeps, AnyNameTyped DEF confirmEnable
<1>4. CASE disable(r)
  BY <1>0, <1>a, <1>4, ClickKeeps, AnyNameTyped DEF disable, Buttons, Mfa
<1>5. CASE logout(r)
  BY <1>0, <1>a, <1>5, ClickKeeps, AnyNameTyped DEF logout, Buttons, Mfa
<1> QED BY <1>1, <1>2, <1>3, <1>4, <1>5

-----------------------------------------------------------------------------
(* ProfilePage: the server *)

(* Call r is answered: it becomes x.  The page does not know yet. *)
Answered(r, x) ==
  /\ request' = [request EXCEPT ![r] = x]
  /\ request[r].stage = "sent" /\ x \in RequestData /\ x.stage \in {"served", "refused"}
  /\ x.kind = request[r].kind /\ x.who = request[r].who /\ x.was = request[r].was /\ x.here = request[r].here
  /\ x.stage = "served" => x.who # Nobody
  /\ x.stage = "served" /\ x.kind = "enable" => x.key # NoKey
  /\ UNCHANGED <<owner, shown, open, setup, codes, concurrent, unanswered, crossed, missed>>

LEMMA AnsweredIs ==
  ASSUME PageInv, NEW r \in Requests, NEW x, Answered(r, x)
  PROVE  /\ request' \in [Requests -> RequestData]
         /\ request'[r] = x /\ x # Free /\ request[r] # Free
         /\ \A q \in Requests : q # r => request'[q] = request[q]
         /\ UnderWay' = UnderWay /\ r \in UnderWay
<1>1. request \in [Requests -> RequestData]
  BY PageTypes DEF PageInv
<1>2. /\ request' \in [Requests -> RequestData]
      /\ request'[r] = x
      /\ \A q \in Requests : q # r => request'[q] = request[q]
  BY <1>1, OneRequest DEF Answered
<1>3. x # Free /\ request[r] # Free
  BY FreeTyped DEF Answered
<1> QED BY <1>2, <1>3 DEF UnderWay

(* The type is kept when the row is. *)
LEMMA AnsweredTyped ==
  ASSUME PageInv, NEW r \in Requests, NEW x, Answered(r, x),
         stored' \in [Users -> RowData], told' \subseteq Keys
  PROVE  PageTypeOK'
<1>1. request' \in [Requests -> RequestData]
  BY AnsweredIs
<1>2. /\ owner \in Users \cup {Nobody} /\ shown \in Views
      /\ open \in BOOLEAN /\ (open => shown # Nobody)
      /\ setup \in AnyKey /\ codes \in AnyKey /\ (setup # NoKey \/ codes # NoKey => open)
      /\ concurrent \in BOOLEAN /\ unanswered \in BOOLEAN /\ crossed \in BOOLEAN
      /\ missed \subseteq Users
  BY PageTypes DEF PageInv
<1> QED BY <1>1, <1>2, PageTypesKept DEF Answered

(* What does not depend on the row. *)
LEMMA AnsweredKeeps ==
  ASSUME PageInv, NEW r \in Requests, NEW x, Answered(r, x)
  PROVE  Sits' /\ OneOfSection' /\ OneCall' /\ OfSession'
<1>1. /\ request'[r] = x /\ x # Free /\ request[r] # Free
      /\ \A q \in Requests : q # r => request'[q] = request[q]
      /\ UnderWay' = UnderWay /\ UnderWay \subseteq Requests
  BY AnsweredIs DEF UnderWay
<1>2. \A q \in Requests :
        /\ request'[q].kind = request[q].kind /\ request'[q].who = request[q].who
        /\ request'[q].was = request[q].was /\ request'[q].here = request[q].here
        /\ request'[q] # Free => request[q] # Free
  BY <1>1 DEF Answered
<1>3. Sits'
  <2>1. \A q \in Requests :
          /\ request'[q] # Free => request'[q].stage # "free"
          /\ request'[q].stage = "served" => request'[q].who # Nobody
          /\ Served(q, "enable")' => request'[q].key # NoKey
    BY <1>1 DEF Answered, PageInv, Sits, Served
  <2> QED BY <1>2, <2>1 DEF Answered, PageInv, Sits
<1>4. OneOfSection'
  BY <1>2 DEF PageInv, OneOfSection
<1>5. OneCall'
  BY <1>1, <1>2 DEF Answered, PageInv, OneCall
<1>6. OfSession'
  BY <1>1, <1>2 DEF Answered, PageInv, OfSession
<1> QED BY <1>3, <1>4, <1>5, <1>6

(* A fresh secret is nobody's. *)
LEMMA AnsweredApart ==
  ASSUME PageInv, NEW r \in Requests, NEW x, Answered(r, x),
         x.stage = "served" /\ x.kind = "setup" => \A q \in Requests : x.key # request[q].key
  PROVE  SecretsApart'
<1>1. /\ request'[r] = x
      /\ \A q \in Requests : q # r => request'[q] = request[q]
  BY AnsweredIs
<1>2. \A q \in Requests : MayEnable(q)' => q # r /\ MayEnable(q) /\ request'[q] = request[q]
  BY <1>1 DEF Answered, MayEnable
<1>3. \A q \in Requests : OnPage(q)' =>
        \/ OnPage(q) /\ request'[q] = request[q]
        \/ q = r /\ x.stage = "served" /\ x.kind = "setup"
  BY <1>1 DEF Answered, OnPage, Served, MayEnable
<1> QED BY <1>1, <1>2, <1>3 DEF Answered, PageInv, SecretsApart

(* The page still shows what it will show, or will show what is stored. *)
LEMMA AnsweredStored ==
  ASSUME PageInv, NEW r \in Requests, NEW x, Answered(r, x),
         ~concurrent /\ ~unanswered => After(r)' = publicView(owner)'
  PROVE  WillBeStored'
<1> SUFFICES ASSUME ~concurrent, ~unanswered
             PROVE  UnderWay' # {} /\ \A q \in UnderWay' : After(q)' = publicView(owner)'
  BY DEF WillBeStored, Answered
<1>1. UnderWay' = UnderWay /\ r \in UnderWay
  BY AnsweredIs
<1>2. \A q \in UnderWay : q = r
  BY <1>1 DEF PageInv, OneCall
<1> QED BY <1>1, <1>2 DEF PageInv

(* The calls that are no answer to "enable" leave the codes as they are. *)
LEMMA AnsweredCodes ==
  ASSUME PageInv, NEW r \in Requests, NEW x, Answered(r, x),
         ~concurrent /\ x.kind = "enable" /\ x.stage = "served" => stored'[owner].codes = x.key,
         ~concurrent => stored'[owner].codes = stored[owner].codes \/ codes = NoKey
  PROVE  CodesInForce'
<1> SUFFICES ASSUME ~concurrent
             PROVE  CodesInForce'
  BY DEF CodesInForce, Answered
<1>1. /\ request'[r] = x /\ request[r] # Free
      /\ \A q \in Requests : q # r => request'[q] = request[q]
      /\ UnderWay' = UnderWay /\ UnderWay \subseteq Requests
  BY AnsweredIs DEF UnderWay
<1>2. \A q \in UnderWay' : request'[q].kind \in Mfa => codes' = NoKey
  BY <1>1 DEF Answered, PageInv, CodesInForce
<1>a. \A q \in Requests : q # r => request[q] = Free
  BY <1>1 DEF PageInv, OneCall, UnderWay
<1>3. \A q \in Requests : Served(q, "enable")' => stored'[owner'].codes = request'[q].key
  BY <1>1, <1>a, FreeTyped DEF Answered, Served
<1> QED BY <1>2, <1>3 DEF Answered, PageInv, CodesInForce

(* The session a call was sent in, when it was alone. *)
LEMMA AloneIs ==
  ASSUME PageInv, ~concurrent, NEW r \in Requests, request[r] # Free
  PROVE  /\ owner \in Users /\ request[r].who = owner /\ request[r].was = shown /\ shown.id = owner
         /\ shown \in [id : Users, name : Names, mfa : BOOLEAN]
         /\ ~unanswered => After(r) = publicView(owner)
<1>1. request[r].was = shown /\ request[r].who = owner /\ shown # Nobody
  BY DEF PageInv, OneCall, UnderWay, Sits
<1>2. shown \in [id : Users, name : Names, mfa : BOOLEAN] /\ shown.id = owner
  BY <1>1, ViewIs DEF PageInv, PageTypeOK, OneCall
<1> QED BY <1>1, <1>2 DEF PageInv, WillBeStored, UnderWay

(* An answer that changes nothing of the row. *)
LEMMA RefusalKeeps ==
  ASSUME PageInv, NEW r \in Requests, NEW x, Answered(r, x), UNCHANGED <<stored, told>>,
         x.stage = "refused" \/ x.kind = "logout"
  PROVE  PageInv'
<1>0. stored \in [Users -> RowData] /\ told \subseteq Keys
  BY PageTypes DEF PageInv
<1>1. /\ request'[r] = x /\ request[r] # Free
      /\ \A q \in Requests : q # r => request'[q] = request[q]
  BY AnsweredIs
<1>2. PageTypeOK'
  BY <1>0, AnsweredTyped
<1>3. Sits' /\ OneOfSection' /\ OneCall' /\ OfSession'
  BY AnsweredKeeps
<1>4. SecretsApart'
  BY AnsweredApart
<1>5. WillBeStored'
  <2>1. After(r)' = request[r].was /\ After(r) = request[r].was
    BY <1>1 DEF After, Served, Answered
  <2>2. publicView(owner)' = publicView(owner)
    BY DEF publicView, Answered
  <2> QED BY <1>1, <2>1, <2>2, AnsweredStored, AloneIs
<1>6. CodesInForce'
  BY AnsweredCodes
<1>7. Telling'
  <2>1. \A q \in Requests :
          /\ MayEnable(q)' => MayEnable(q) /\ request'[q] = request[q]
          /\ TellsCodes(q)' <=> TellsCodes(q)
          /\ TellsCodes(q) => request'[q] = request[q]
    BY <1>1 DEF MayEnable, TellsCodes, Served, Answered
  <2> QED BY <2>1, TellingKept DEF PageInv, Answered
<1> QED BY <1>2, <1>3, <1>4, <1>5, <1>6, <1>7 DEF PageInv

(* How a call looks that was refused, or served. *)
LEMMA RefusedTyped ==
  ASSUME NEW y \in RequestData
  PROVE  LET x == [y EXCEPT !.stage = "refused"] IN
           /\ x \in RequestData /\ x.stage = "refused"
           /\ x.kind = y.kind /\ x.who = y.who /\ x.was = y.was /\ x.here = y.here /\ x.key = y.key
BY DEF RequestData

LEMMA ServedTyped ==
  ASSUME NEW y \in RequestData, NEW k \in AnyKey
  PROVE  LET x == [y EXCEPT !.stage = "served", !.key = k] IN
           /\ x \in RequestData /\ x.stage = "served"
           /\ x.kind = y.kind /\ x.who = y.who /\ x.was = y.was /\ x.here = y.here
           /\ x.name = y.name /\ x.key = k
BY DEF RequestData

LEMMA RefuseIs ==
  ASSUME PageInv, NEW r \in Requests, request[r].stage = "sent", Refuse(r),
         UNCHANGED <<owner, shown, open, setup, codes, concurrent, unanswered, crossed, missed>>
  PROVE  \E x : Answered(r, x) /\ x.stage = "refused" /\ x.kind = request[r].kind
<1> DEFINE x == [request[r] EXCEPT !.stage = "refused"]
<1>1. request \in [Requests -> RequestData] /\ request[r] \in RequestData
  BY PageTypes DEF PageInv
<1>2. /\ x \in RequestData /\ x.stage = "refused"
      /\ x.kind = request[r].kind /\ x.who = request[r].who /\ x.was = request[r].was /\ x.here = request[r].here
  BY <1>1, RefusedTyped
<1>3. request' = [request EXCEPT ![r] = x]
  BY <1>1 DEF Refuse
<1> HIDE DEF x
<1>4. Answered(r, x)
  BY <1>2, <1>3 DEF Answered
<1> QED BY <1>2, <1>4

LEMMA AnswerIs ==
  ASSUME PageInv, NEW r \in Requests, NEW k \in AnyKey,
         request[r].stage = "sent", request[r].who # Nobody, Answer(r, k),
         request[r].kind = "enable" => k # NoKey,
         UNCHANGED <<owner, shown, open, setup, codes, concurrent, unanswered, crossed, missed>>
  PROVE  \E x : Answered(r, x) /\ x.stage = "served" /\ x.kind = request[r].kind /\ x.key = k
<1> DEFINE x == [request[r] EXCEPT !.stage = "served", !.key = k]
<1>1. request \in [Requests -> RequestData] /\ request[r] \in RequestData
  BY PageTypes DEF PageInv
<1>2. /\ x \in RequestData /\ x.stage = "served" /\ x.key = k
      /\ x.kind = request[r].kind /\ x.who = request[r].who /\ x.was = request[r].was /\ x.here = request[r].here
  BY <1>1, ServedTyped
<1>3. request' = [request EXCEPT ![r] = x]
  BY <1>1 DEF Answer
<1> HIDE DEF x
<1>4. Answered(r, x)
  BY <1>2, <1>3 DEF Answered
<1> QED BY <1>2, <1>4

LEMMA RefusingKeeps ==
  ASSUME PageInv, NEW r \in Requests, request[r].stage = "sent", Refuse(r),
         UNCHANGED <<stored, told, owner, screen, concurrent, unanswered, crossed, missed>>
  PROVE  PageInv'
<1>1. PICK x : Answered(r, x) /\ x.stage = "refused" /\ x.kind = request[r].kind
  BY RefuseIs DEF screen
<1> QED BY <1>1, RefusalKeeps

LEMMA EndSessionKeeps ==
  ASSUME PageInv, NEW r \in Requests, EndSession(r)
  PROVE  PageInv'
<1>1. PICK x : Answered(r, x) /\ x.kind = "logout"
  BY AnswerIs DEF EndSession, At, screen, pageHistory, AnyKey
<1> QED BY <1>1, RefusalKeeps DEF EndSession, pageHistory

LEMMA UpdateMeKeeps ==
  ASSUME PageInv, NEW r \in Requests, UpdateMe(r)
  PROVE  PageInv'
<1> DEFINE u == request[r].who
           n == Sanitized[request[r].name]
           x == [request[r] EXCEPT !.stage = "served", !.name = n]
<1>0. /\ stored \in [Users -> RowData] /\ request \in [Requests -> RequestData] /\ request[r] \in RequestData
      /\ told \subseteq Keys
  BY PageTypes DEF PageInv
<1>1. /\ request[r].stage = "sent" /\ request[r].kind = "save" /\ u # Nobody
      /\ stored' = [stored EXCEPT ![u].name = n]
      /\ request' = [request EXCEPT ![r] = x]
      /\ UNCHANGED <<owner, shown, open, setup, codes, concurrent, unanswered, crossed, told, missed>>
  BY <1>0 DEF UpdateMe, At, screen, pageHistory
<1>2. u \in Users /\ n \in Names
  BY <1>0, <1>1, SanitizedTyped DEF RequestData
<1>3. /\ x \in RequestData /\ x.stage = "served" /\ x.name = n
      /\ x.kind = "save" /\ x.who = u /\ x.was = request[r].was /\ x.here = request[r].here
  BY <1>0, <1>1, <1>2 DEF RequestData
<1> HIDE DEF x
<1>4. Answered(r, x)
  BY <1>1, <1>3 DEF Answered
<1>5. /\ request'[r] = x /\ request[r] # Free
      /\ \A q \in Requests : q # r => request'[q] = request[q]
  BY <1>4, AnsweredIs
<1>6. /\ stored' \in [Users -> RowData]
      /\ \A v \in Users : /\ stored'[v].secret = stored[v].secret
                          /\ stored'[v].mfa = stored[v].mfa /\ stored'[v].codes = stored[v].codes
      /\ stored'[u].name = n
  BY <1>0, <1>1, <1>2 DEF RowData
<1>7. PageTypeOK'
  BY <1>0, <1>1, <1>4, <1>6, AnsweredTyped
<1>8. Sits' /\ OneOfSection' /\ OneCall' /\ OfSession' /\ SecretsApart'
  BY <1>3, <1>4, AnsweredKeeps, AnsweredApart
<1>9. WillBeStored'
  <2> SUFFICES ASSUME ~concurrent, ~unanswered
               PROVE  After(r)' = publicView(owner)'
    BY <1>4, AnsweredStored
  <2>1. /\ owner = u /\ request[r].was = shown
        /\ shown \in [id : Users, name : Names, mfa : BOOLEAN] /\ shown = publicView(u)
    BY <1>1, <1>5, AloneIs DEF After, Served
  <2>2. After(r)' = [shown EXCEPT !.name = n]
    BY <1>3, <1>5, <2>1 DEF After, Served
  <2>3. publicView(owner)' = [id |-> u, name |-> n, mfa |-> stored[u].mfa]
    BY <1>1, <1>2, <1>6, <2>1 DEF publicView
  <2> QED BY <2>1, <2>2, <2>3 DEF publicView
<1>10. CodesInForce'
  <2>1. ~concurrent => owner \in Users
    BY <1>5, AloneIs
  <2> QED BY <1>3, <1>4, <1>6, <2>1, AnsweredCodes
<1>11. Telling'
  <2>1. \A q \in Requests :
          /\ MayEnable(q)' => MayEnable(q) /\ request'[q] = request[q]
          /\ TellsCodes(q)' <=> TellsCodes(q)
          /\ TellsCodes(q) => request'[q] = request[q]
    BY <1>1, <1>3, <1>5 DEF MayEnable, TellsCodes, Served
  <2> QED BY <1>1, <1>6, <2>1, TellingKept DEF PageInv
<1> QED BY <1>7, <1>8, <1>9, <1>10, <1>11 DEF PageInv

(* A new secret: no call of a page that was left knows it. *)
LEMMA SetupMfaKeeps ==
  ASSUME PageInv, NEW r \in Requests, SetupMfa(r)
  PROVE  PageInv'
<1> DEFINE u == request[r].who
<1>0. /\ stored \in [Users -> RowData] /\ request \in [Requests -> RequestData] /\ request[r] \in RequestData
      /\ told \subseteq Keys
  BY PageTypes DEF PageInv
<1>1. /\ request[r].stage = "sent" /\ request[r].kind = "setup" /\ u # Nobody /\ u \in Users
      /\ UNCHANGED <<owner, shown, open, setup, codes, concurrent, unanswered, crossed, missed>>
  BY <1>0 DEF SetupMfa, At, screen, RequestData
<1>2. CASE Refuse(r) /\ UNCHANGED <<stored, told>>
  BY <1>1, <1>2, RefusingKeeps DEF screen
<1>3. ASSUME NEW k \in Keys, FreshKey(k), stored' = [stored EXCEPT ![u].secret = k],
             Answer(r, k), told' = told \ {k}
      PROVE  PageInv'
  <2>1. PICK x : Answered(r, x) /\ x.stage = "served" /\ x.kind = "setup" /\ x.key = k
    BY <1>1, <1>3, AnswerIs, NoKeyIsNoKey DEF AnyKey
  <2>2. /\ request'[r] = x /\ request[r] # Free
        /\ \A q \in Requests : q # r => request'[q] = request[q]
    BY <2>1, AnsweredIs
  <2>3. /\ stored' \in [Users -> RowData]
        /\ \A v \in Users : /\ stored'[v].secret = IF v = u THEN k ELSE stored[v].secret
                            /\ stored'[v].name = stored[v].name
                            /\ stored'[v].mfa = stored[v].mfa /\ stored'[v].codes = stored[v].codes
    BY <1>0, <1>1, <1>3 DEF RowData, AnyKey
  <2>4. /\ \A q \in Requests : request[q].key # k
        /\ \A v \in Users : stored[v].codes # k
    BY <1>3 DEF FreshKey, KeysFree, KeysHeld
  <2>5. PageTypeOK'
    BY <1>0, <1>3, <2>1, <2>3, AnsweredTyped
  <2>6. Sits' /\ OneOfSection' /\ OneCall' /\ OfSession' /\ SecretsApart'
    BY <2>1, <2>4, AnsweredKeeps, AnsweredApart
  <2>7. WillBeStored'
    <3> SUFFICES ASSUME ~concurrent, ~unanswered
                 PROVE  After(r)' = publicView(owner)'
      BY <2>1, AnsweredStored
    <3>1. owner \in Users /\ After(r) = publicView(owner)
      BY <2>2, AloneIs
    <3>2. After(r) = request[r].was /\ After(r)' = request[r].was
      BY <1>1, <2>1, <2>2 DEF After, Served, Answered
    <3>3. publicView(owner)' = publicView(owner)
      BY <1>1, <2>3, <3>1 DEF publicView
    <3> QED BY <3>1, <3>2, <3>3
  <2>8. CodesInForce'
    <3>1. ~concurrent => owner \in Users
      BY <2>2, AloneIs
    <3> QED BY <2>1, <2>3, <3>1, AnsweredCodes
  <2>9. \A q \in Requests :
          /\ MayEnable(q)' => MayEnable(q) /\ request'[q] = request[q]
          /\ TellsCodes(q)' <=> TellsCodes(q)
          /\ TellsCodes(q) => request'[q] = request[q]
    BY <1>1, <2>1, <2>2 DEF MayEnable, TellsCodes, Served
  <2>10. \A v \in Users : Useless(v) => Useless(v)'
    BY <2>3, <2>4, <2>9 DEF Useless
  <2>11. \A v \in Users \ missed : stored[v].mfa /\ stored[v].codes \in told => stored'[v].codes \in told'
    BY <1>3, <2>3, <2>4
  <2>12. Telling'
    BY <1>1, <2>3, <2>9, <2>10, <2>11 DEF PageInv, Telling
  <2> QED BY <2>5, <2>6, <2>7, <2>8, <2>12 DEF PageInv
<1> QED BY <1>2, <1>3 DEF SetupMfa

(* MFA is enabled with the secret of this page, or of one that was left: then its user is
   one of the missed. *)
LEMMA OfALeftPage ==
  ASSUME PageInv, NEW r \in Requests, MayEnable(r), ~request[r].here, request[r].who \in Users,
         request[r].key # NoKey, stored[request[r].who].secret = request[r].key
  PROVE  /\ request[r].who \in missed
         /\ \A q \in Requests : ~(TellsCodes(q) /\ request[q].who = request[r].who)
<1>1. ~Useless(request[r].who)
  BY DEF Useless
<1> QED BY <1>1 DEF PageInv, Telling

LEMMA OfThisPage ==
  ASSUME PageInv, NEW r \in Requests, MayEnable(r), request[r].here, request[r].who \in Users,
         request[r].key # NoKey, stored[request[r].who].secret = request[r].key
  PROVE  /\ Useless(request[r].who)
         /\ \A q \in Requests : ~TellsCodes(q)
<1>1. \A q \in Requests : MayEnable(q) /\ ~request[q].here => request[q].key # request[r].key
  BY DEF PageInv, SecretsApart, OnPage
<1>2. Useless(request[r].who)
  BY <1>1 DEF Useless
<1>3. \A q \in Requests : ~TellsCodes(q)
  <2> SUFFICES ASSUME NEW q \in Requests, TellsCodes(q)
               PROVE  FALSE
    OBVIOUS
  <2>1. q = r
    BY DEF PageInv, OneOfSection, TellsCodes, Served, MayEnable, Mfa
  <2> QED BY <2>1 DEF TellsCodes, Served, MayEnable
<1> QED BY <1>2, <1>3

LEMMA EnableMfaKeeps ==
  ASSUME PageInv, NEW r \in Requests, EnableMfa(r)
  PROVE  PageInv'
<1> DEFINE u == request[r].who
<1>0. /\ stored \in [Users -> RowData] /\ request \in [Requests -> RequestData] /\ request[r] \in RequestData
      /\ told \subseteq Keys
  BY PageTypes DEF PageInv
<1>1. /\ request[r].stage = "sent" /\ request[r].kind = "enable" /\ u # Nobody /\ u \in Users
      /\ UNCHANGED <<owner, shown, open, setup, codes, concurrent, unanswered, crossed, missed>>
  BY <1>0 DEF EnableMfa, At, screen, RequestData
<1>2. CASE Refuse(r) /\ UNCHANGED <<stored, told>>
  BY <1>1, <1>2, RefusingKeeps DEF screen
<1>3. ASSUME stored[u].secret # NoKey, request[r].key = stored[u].secret,
             NEW k \in Keys, FreshKey(k),
             stored' = [stored EXCEPT ![u].mfa = TRUE, ![u].codes = k],
             Answer(r, k), told' = told \ {k}
      PROVE  PageInv'
  <2>1. PICK x : Answered(r, x) /\ x.stage = "served" /\ x.kind = "enable" /\ x.key = k
    BY <1>1, <1>3, AnswerIs, NoKeyIsNoKey DEF AnyKey
  <2>2. /\ request'[r] = x /\ request[r] # Free
        /\ \A q \in Requests : q # r => request'[q] = request[q]
    BY <2>1, AnsweredIs
  <2>3. /\ stored' \in [Users -> RowData]
        /\ \A v \in Users : /\ stored'[v].secret = stored[v].secret /\ stored'[v].name = stored[v].name
                            /\ v # u => stored'[v] = stored[v]
        /\ stored'[u].mfa = TRUE /\ stored'[u].codes = k
    BY <1>0, <1>1, <1>3 DEF RowData, AnyKey
  <2>4. \A v \in Users : stored[v].codes # k
    BY <1>3 DEF FreshKey, KeysFree, KeysHeld
  <2>5. PageTypeOK'
    BY <1>0, <1>3, <2>1, <2>3, AnsweredTyped
  <2>6. Sits' /\ OneOfSection' /\ OneCall' /\ OfSession' /\ SecretsApart'
    BY <2>1, AnsweredKeeps, AnsweredApart
  <2>7. WillBeStored'
    <3> SUFFICES ASSUME ~concurrent, ~unanswered
                 PROVE  After(r)' = publicView(owner)'
      BY <2>1, AnsweredStored
    <3>1. /\ owner = u /\ request[r].was = shown
          /\ shown \in [id : Users, name : Names, mfa : BOOLEAN] /\ shown = publicView(u)
      BY <1>1, <2>2, AloneIs DEF After, Served
    <3>2. After(r)' = [shown EXCEPT !.mfa = TRUE]
      BY <2>1, <2>2, <3>1 DEF After, Served, Answered
    <3>3. publicView(owner)' = [id |-> u, name |-> stored[u].name, mfa |-> TRUE]
      BY <1>1, <2>3, <3>1 DEF publicView
    <3>4. [shown EXCEPT !.mfa = TRUE] = [id |-> u, name |-> stored[u].name, mfa |-> TRUE]
      <4>1. shown.id = u /\ shown.name = stored[u].name
        BY <1>0, <1>1, <3>1, PublicViewTyped
      <4>2. [shown EXCEPT !.mfa = TRUE] = [id |-> shown.id, name |-> shown.name, mfa |-> TRUE]
        BY <3>1, MfaSet
      <4> QED BY <4>1, <4>2
    <3> QED BY <3>2, <3>3, <3>4
  <2>8. CodesInForce'
    <3>1. ~concurrent => owner = u /\ codes = NoKey
      BY <1>1, <2>2, AloneIs DEF PageInv, CodesInForce, UnderWay, Mfa
    <3> QED BY <2>1, <2>3, <3>1, AnsweredCodes
  <2>9. \A q \in Requests :
          /\ MayEnable(q)' => MayEnable(q) /\ request'[q] = request[q]
          /\ q # r => (TellsCodes(q)' <=> TellsCodes(q)) /\ request'[q] = request[q]
          /\ ~TellsCodes(r)
    BY <1>1, <2>1, <2>2 DEF MayEnable, TellsCodes, Served
  <2>10. \A v \in Users : Useless(v) => Useless(v)'
    BY <2>3, <2>9 DEF Useless
  <2>11. /\ request'[r].who = u /\ request'[r].key = k
         /\ TellsCodes(r)' <=> request[r].here
    BY <2>1, <2>2 DEF TellsCodes, Served, Answered
  <2>12. MayEnable(r)
    BY <1>1 DEF MayEnable
  <2>13. ASSUME NEW v \in Users, v # u, v \notin missed, stored'[v].mfa
         PROVE  \/ stored'[v].codes \in told'
                \/ \E q \in Requests : TellsCodes(q)' /\ request'[q].who = v /\ request'[q].key = stored'[v].codes
    <3>1. stored'[v] = stored[v] /\ stored[v].codes # k
      BY <2>3, <2>4, <2>13
    <3>2. CASE stored[v].codes \in told
      <4>1. told' = told \ {k}
        BY <1>3
      <4> QED BY <3>1, <3>2, <4>1
    <3>3. CASE \E q \in Requests : TellsCodes(q) /\ request[q].who = v /\ request[q].key = stored[v].codes
      <4>1. PICK q \in Requests : TellsCodes(q) /\ request[q].who = v /\ request[q].key = stored[v].codes
        BY <3>3
      <4>2. TellsCodes(q)' /\ request'[q] = request[q]
        BY <2>9, <4>1
      <4> QED BY <3>1, <4>1, <4>2
    <3> QED BY <2>13, <3>1, <3>2, <3>3 DEF PageInv, Telling
  <2>14. CASE request[r].here
    <3>1. Useless(u) /\ \A q \in Requests : ~TellsCodes(q)
      BY <1>1, <1>3, <2>12, <2>14, OfThisPage
    <3>2. \A q \in Requests : TellsCodes(q)' => q = r
      BY <2>9, <3>1
    <3>3. \A v \in Users \ missed' : Useless(v)'
      BY <1>1, <2>10 DEF PageInv, Telling
    <3>4. \A q \in Requests, v \in Users : TellsCodes(q)' /\ request'[q].who = v =>
            /\ Useless(v)'
            /\ stored'[v].mfa => stored'[v].codes = request'[q].key
      BY <2>3, <2>10, <2>11, <3>1, <3>2
    <3>5. \A v \in Users \ missed' : stored'[v].mfa =>
            \/ stored'[v].codes \in told'
            \/ \E q \in Requests : TellsCodes(q)' /\ request'[q].who = v /\ request'[q].key = stored'[v].codes
      BY <1>1, <2>3, <2>11, <2>13, <2>14
    <3>6. Telling'
      BY <3>3, <3>4, <3>5 DEF Telling
    <3> QED BY <2>5, <2>6, <2>7, <2>8, <3>6 DEF PageInv
  <2>15. CASE ~request[r].here
    <3>1. u \in missed /\ \A q \in Requests : ~(TellsCodes(q) /\ request[q].who = u)
      BY <1>1, <1>3, <2>12, <2>15, OfALeftPage
    <3>2. \A q \in Requests : TellsCodes(q)' =>
            q # r /\ TellsCodes(q) /\ request'[q] = request[q] /\ request[q].who # u
      BY <2>9, <2>11, <2>15, <3>1
    <3>3. \A v \in Users \ missed' : Useless(v)'
      BY <1>1, <2>10 DEF PageInv, Telling
    <3>4. \A q \in Requests, v \in Users : TellsCodes(q)' /\ request'[q].who = v =>
            /\ Useless(v)'
            /\ stored'[v].mfa => stored'[v].codes = request'[q].key
      BY <2>3, <2>10, <3>2 DEF PageInv, Telling
    <3>5. \A v \in Users \ missed' : stored'[v].mfa =>
            \/ stored'[v].codes \in told'
            \/ \E q \in Requests : TellsCodes(q)' /\ request'[q].who = v /\ request'[q].key = stored'[v].codes
      BY <1>1, <2>13, <3>1
    <3>6. Telling'
      BY <3>3, <3>4, <3>5 DEF Telling
    <3> QED BY <2>5, <2>6, <2>7, <2>8, <3>6 DEF PageInv
  <2> QED BY <2>14, <2>15
<1> QED BY <1>2, <1>3 DEF EnableMfa, Row

LEMMA DisableMfaKeeps ==
  ASSUME PageInv, NEW r \in Requests, DisableMfa(r)
  PROVE  PageInv'
<1> DEFINE u == request[r].who
<1>0. /\ stored \in [Users -> RowData] /\ request \in [Requests -> RequestData] /\ request[r] \in RequestData
      /\ told \subseteq Keys
  BY PageTypes DEF PageInv
<1>1. /\ request[r].stage = "sent" /\ request[r].kind = "disable" /\ u # Nobody /\ u \in Users
      /\ stored' = [stored EXCEPT ![u].mfa = FALSE, ![u].secret = NoKey, ![u].codes = NoKey]
      /\ Answer(r, NoKey)
      /\ UNCHANGED <<owner, shown, open, setup, codes, concurrent, unanswered, crossed, told, missed>>
  BY <1>0 DEF DisableMfa, At, screen, pageHistory, RequestData
<1>2. PICK x : Answered(r, x) /\ x.stage = "served" /\ x.kind = "disable"
  BY <1>1, AnswerIs DEF AnyKey
<1>3. /\ request'[r] = x /\ request[r] # Free
      /\ \A q \in Requests : q # r => request'[q] = request[q]
  BY <1>2, AnsweredIs
<1>4. /\ stored' \in [Users -> RowData]
      /\ \A v \in Users : stored'[v].name = stored[v].name /\ (v # u => stored'[v] = stored[v])
      /\ stored'[u].mfa = FALSE /\ stored'[u].secret = NoKey /\ stored'[u].codes = NoKey
  BY <1>0, <1>1 DEF RowData, AnyKey
<1>5. PageTypeOK'
  BY <1>0, <1>1, <1>2, <1>4, AnsweredTyped
<1>6. Sits' /\ OneOfSection' /\ OneCall' /\ OfSession' /\ SecretsApart'
  BY <1>2, AnsweredKeeps, AnsweredApart
<1>7. WillBeStored'
  <2> SUFFICES ASSUME ~concurrent, ~unanswered
               PROVE  After(r)' = publicView(owner)'
    BY <1>2, AnsweredStored
  <2>1. /\ owner = u /\ request[r].was = shown
        /\ shown \in [id : Users, name : Names, mfa : BOOLEAN] /\ shown = publicView(u)
    BY <1>1, <1>3, AloneIs DEF After, Served
  <2>2. After(r)' = [shown EXCEPT !.mfa = FALSE]
    BY <1>2, <1>3, <2>1 DEF After, Served, Answered
  <2>3. publicView(owner)' = [id |-> u, name |-> stored[u].name, mfa |-> FALSE]
    BY <1>1, <1>4, <2>1 DEF publicView
  <2>4. [shown EXCEPT !.mfa = FALSE] = [id |-> u, name |-> stored[u].name, mfa |-> FALSE]
    <3>1. shown.id = u /\ shown.name = stored[u].name
      BY <1>0, <1>1, <2>1, PublicViewTyped
    <3>2. [shown EXCEPT !.mfa = FALSE] = [id |-> shown.id, name |-> shown.name, mfa |-> FALSE]
      BY <2>1, MfaSet
    <3> QED BY <3>1, <3>2
  <2> QED BY <2>2, <2>3, <2>4
<1>8. CodesInForce'
  <2>1. ~concurrent => codes = NoKey
    BY <1>1, <1>3 DEF PageInv, CodesInForce, UnderWay, Mfa
  <2> QED BY <1>2, <2>1, AnsweredCodes
<1>9. \A q \in Requests :
        /\ MayEnable(q)' => MayEnable(q) /\ request'[q] = request[q]
        /\ TellsCodes(q)' <=> TellsCodes(q)
        /\ TellsCodes(q) => request'[q] = request[q]
  BY <1>1, <1>2, <1>3 DEF MayEnable, TellsCodes, Served
<1>10. \A v \in Users : Useless(v) \/ v = u => Useless(v)'
  BY <1>4, <1>9 DEF Useless
<1>11. Telling'
  BY <1>1, <1>4, <1>9, <1>10 DEF PageInv, Telling
<1> QED BY <1>5, <1>6, <1>7, <1>8, <1>11 DEF PageInv

-----------------------------------------------------------------------------
(* ProfilePage: the answers *)

(* Call r is over; the tab shows what it was shown with, but for the name and MFA. *)
Finished(r) ==
  /\ Done(r)
  /\ request[r].stage # "free"
  /\ \/ shown' = shown
     \/ /\ shown' \in [id : Users, name : Names, mfa : BOOLEAN]
        /\ shown'.id = request[r].was.id
  /\ UNCHANGED <<stored, owner, open, concurrent, crossed>>

LEMMA FinishedIs ==
  ASSUME PageInv, NEW r \in Requests, Finished(r)
  PROVE  /\ request' \in [Requests -> RequestData]
         /\ request'[r] = Free /\ request[r] # Free
         /\ \A q \in Requests : q # r => request'[q] = request[q]
         /\ UnderWay' = UnderWay \ {r} /\ r \in UnderWay
         /\ ~concurrent => \A q \in Requests : request'[q] = Free
<1>1. request \in [Requests -> RequestData]
  BY PageTypes DEF PageInv
<1>2. /\ request' \in [Requests -> RequestData]
      /\ request'[r] = Free
      /\ \A q \in Requests : q # r => request'[q] = request[q]
  BY <1>1, FreeTyped, OneRequest DEF Finished, Done
<1>3. request[r] # Free
  BY FreeTyped DEF Finished
<1>4. ~concurrent => \A q \in Requests : request'[q] = Free
  BY <1>2, <1>3 DEF PageInv, OneCall, UnderWay
<1> QED BY <1>2, <1>3, <1>4 DEF UnderWay

LEMMA FinishedTyped ==
  ASSUME PageInv, NEW r \in Requests, Finished(r),
         setup' \in AnyKey, codes' \in AnyKey, setup' # NoKey \/ codes' # NoKey => open,
         unanswered' \in BOOLEAN, told' \subseteq Keys, missed' \subseteq Users
  PROVE  PageTypeOK'
<1>1. /\ stored \in [Users -> RowData] /\ owner \in Users \cup {Nobody}
      /\ shown \in Views /\ open \in BOOLEAN /\ (open => shown # Nobody)
      /\ concurrent \in BOOLEAN /\ crossed \in BOOLEAN
  BY PageTypes DEF PageInv
<1>2. shown' \in Views /\ (open => shown' # Nobody)
  BY <1>1, RecordIsView DEF Finished
<1>3. request' \in [Requests -> RequestData]
  BY FinishedIs
<1> QED BY <1>1, <1>2, <1>3, PageTypesKept DEF Finished

LEMMA FinishedKeeps ==
  ASSUME PageInv, NEW r \in Requests, Finished(r),
         \/ setup' \in {setup, NoKey}
         \/ setup' = request[r].key /\ Served(r, "setup") /\ request[r].here
  PROVE  Sits' /\ OneOfSection' /\ OneCall' /\ OfSession' /\ SecretsApart'
<1>1. /\ request'[r] = Free /\ request[r] # Free
      /\ \A q \in Requests : q # r => request'[q] = request[q]
      /\ UnderWay' = UnderWay \ {r} /\ r \in UnderWay /\ UnderWay \subseteq Requests
      /\ ~concurrent => \A q \in Requests : request'[q] = Free
  BY FinishedIs DEF UnderWay
<1>2. Sits'
  BY <1>1, FreeTyped DEF Finished, PageInv, Sits, Served
<1>3. OneOfSection'
  BY <1>1, FreeTyped DEF PageInv, OneOfSection
<1>4. OneCall'
  <2> SUFFICES ASSUME ~concurrent
               PROVE  UnderWay' = {} /\ (shown' # Nobody => shown'.id = owner) /\ ~crossed
    BY DEF OneCall, Finished
  <2>1. UnderWay' = {}
    BY <1>1 DEF UnderWay
  <2> QED BY <2>1, <1>1, AloneIs DEF Finished, PageInv, OneCall
<1>5. OfSession'
  BY <1>1 DEF Finished, PageInv, OfSession
<1>6. SecretsApart'
  <2>1. \A q \in Requests :
          /\ MayEnable(q)' => MayEnable(q) /\ request'[q] = request[q]
          /\ OnPage(q)' => OnPage(q) /\ request'[q] = request[q]
    BY <1>1, FreeTyped DEF MayEnable, OnPage, Served
  <2>2. setup' = request[r].key /\ Served(r, "setup") /\ request[r].here => OnPage(r)
    BY DEF OnPage
  <2> QED BY <2>1, <2>2 DEF PageInv, SecretsApart
<1> QED BY <1>2, <1>3, <1>4, <1>5, <1>6

LEMMA FinishedStored ==
  ASSUME PageInv, NEW r \in Requests, Finished(r),
         ~unanswered' => ~unanswered /\ \/ shown' = After(r)
                                        \/ shown' = shown /\ After(r) = request[r].was
  PROVE  WillBeStored'
<1> SUFFICES ASSUME ~concurrent, ~unanswered'
             PROVE  UnderWay' = {} /\ shown' = publicView(shown'.id)
  BY DEF WillBeStored, Finished, publicView
<1>1. UnderWay' = {}
  BY FinishedIs DEF UnderWay
<1>2. shown' = publicView(owner) /\ owner \in Users
  BY FinishedIs, AloneIs
<1>3. shown'.id = owner
  BY <1>2 DEF publicView
<1> QED BY <1>1, <1>2, <1>3

(* The page shows the secret, or the codes, or neither. *)
LEMMA FinishedCodes ==
  ASSUME PageInv, NEW r \in Requests, Finished(r),
         ~concurrent => setup' = NoKey \/ codes' = NoKey,
         ~concurrent => codes' \in {codes, NoKey} \/ stored[owner].codes = codes'
  PROVE  CodesInForce'
<1> SUFFICES ASSUME ~concurrent
             PROVE  CodesInForce'
  BY DEF CodesInForce, Finished
<1>1. \A q \in Requests : request'[q] = Free
  BY FinishedIs
<1>2. \A q \in Requests : ~Served(q, "enable")'
  BY <1>1, FreeTyped DEF Served
<1>3. UnderWay' = {}
  BY <1>1 DEF UnderWay
<1> QED BY <1>2, <1>3 DEF CodesInForce, PageInv, Finished

(* An answer that shows no recovery codes. *)
LEMMA FinishedTelling ==
  ASSUME PageInv, NEW r \in Requests, Finished(r), ~TellsCodes(r), UNCHANGED <<told, missed>>
  PROVE  Telling'
<1>1. /\ request'[r] = Free
      /\ \A q \in Requests : q # r => request'[q] = request[q]
  BY FinishedIs
<1>2. \A q \in Requests :
        /\ MayEnable(q)' => MayEnable(q) /\ request'[q] = request[q]
        /\ TellsCodes(q)' <=> TellsCodes(q)
        /\ TellsCodes(q) => request'[q] = request[q]
  BY <1>1, FreeTyped DEF MayEnable, TellsCodes, Served
<1> QED BY <1>2, TellingKept DEF PageInv, Finished

LEMMA SavedKeeps ==
  ASSUME PageInv, NEW r \in Requests, saved(r)
  PROVE  PageInv'
<1>0. /\ setup \in AnyKey /\ codes \in AnyKey /\ (setup # NoKey \/ codes # NoKey => open)
      /\ unanswered \in BOOLEAN /\ told \subseteq Keys /\ missed \subseteq Users
      /\ request[r] \in RequestData
  BY PageTypes DEF PageInv
<1>1. /\ Served(r, "save") /\ Done(r) /\ shown' = [request[r].was EXCEPT !.name = request[r].name]
      /\ UNCHANGED <<stored, owner, open, setup, codes, concurrent, unanswered, crossed, told, missed>>
  BY DEF saved, pageHistory
<1>2. request[r].was \in [id : Users, name : Names, mfa : BOOLEAN] /\ request[r].name \in Names
  BY <1>0, <1>1, UnderWayIs DEF Served, RequestData
<1>3. shown' \in [id : Users, name : Names, mfa : BOOLEAN] /\ shown'.id = request[r].was.id
  BY <1>1, <1>2
<1>4. Finished(r) /\ ~TellsCodes(r)
  BY <1>1, <1>3 DEF Finished, Served, TellsCodes
<1>5. PageTypeOK'
  BY <1>0, <1>1, <1>4, FinishedTyped
<1>6. Sits' /\ OneOfSection' /\ OneCall' /\ OfSession' /\ SecretsApart'
  BY <1>1, <1>4, FinishedKeeps
<1>7. WillBeStored'
  <2>1. shown' = After(r)
    BY <1>1 DEF After, Served
  <2> QED BY <1>1, <1>4, <2>1, FinishedStored
<1>8. CodesInForce'
  BY <1>1, <1>4, FinishedCodes DEF PageInv, CodesInForce
<1>9. Telling'
  BY <1>1, <1>4, FinishedTelling
<1> QED BY <1>5, <1>6, <1>7, <1>8, <1>9 DEF PageInv

LEMMA SetupStartedKeeps ==
  ASSUME PageInv, NEW r \in Requests, setupStarted(r)
  PROVE  PageInv'
<1>0. /\ setup \in AnyKey /\ codes \in AnyKey /\ (setup # NoKey \/ codes # NoKey => open)
      /\ unanswered \in BOOLEAN /\ told \subseteq Keys /\ missed \subseteq Users
      /\ request[r] \in RequestData
  BY PageTypes DEF PageInv
<1>1. /\ Served(r, "setup") /\ Done(r)
      /\ setup' = IF request[r].here THEN request[r].key ELSE setup
      /\ UNCHANGED <<stored, owner, shown, open, codes, concurrent, unanswered, crossed, told, missed>>
  BY DEF setupStarted, pageHistory, Set
<1>2. Finished(r) /\ ~TellsCodes(r) /\ (request[r].here => open)
  BY <1>1 DEF Finished, Served, TellsCodes, PageInv, Sits
<1>3. PageTypeOK'
  <2>1. setup' \in AnyKey /\ (setup' # NoKey => open)
    BY <1>0, <1>1, <1>2 DEF RequestData
  <2> QED BY <1>0, <1>1, <1>2, <2>1, FinishedTyped
<1>4. Sits' /\ OneOfSection' /\ OneCall' /\ OfSession' /\ SecretsApart'
  BY <1>1, <1>2, FinishedKeeps
<1>5. WillBeStored'
  <2>1. After(r) = request[r].was
    BY <1>1 DEF After, Served
  <2> QED BY <1>1, <1>2, <2>1, FinishedStored
<1>6. CodesInForce'
  <2>1. ~concurrent => codes = NoKey
    BY <1>1, FreeTyped DEF PageInv, CodesInForce, UnderWay, Mfa, Served
  <2> QED BY <1>1, <1>2, <2>1, FinishedCodes
<1>7. Telling'
  BY <1>1, <1>2, FinishedTelling
<1> QED BY <1>3, <1>4, <1>5, <1>6, <1>7 DEF PageInv

LEMMA DisabledKeeps ==
  ASSUME PageInv, NEW r \in Requests, disabled(r)
  PROVE  PageInv'
<1>0. /\ setup \in AnyKey /\ codes \in AnyKey /\ NoKey \in AnyKey
      /\ (setup # NoKey \/ codes # NoKey => open)
      /\ unanswered \in BOOLEAN /\ told \subseteq Keys /\ missed \subseteq Users
  BY PageTypes DEF PageInv, AnyKey
<1>1. /\ Served(r, "disable") /\ Done(r) /\ shown' = [request[r].was EXCEPT !.mfa = FALSE]
      /\ codes' \in {codes, NoKey}
      /\ UNCHANGED <<stored, owner, open, setup, concurrent, unanswered, crossed, told, missed>>
  BY DEF disabled, pageHistory, Set
<1>2. request[r].was \in [id : Users, name : Names, mfa : BOOLEAN]
  BY <1>1, UnderWayIs DEF Served
<1>3. shown' \in [id : Users, name : Names, mfa : BOOLEAN] /\ shown'.id = request[r].was.id
  BY <1>1, <1>2
<1>4. Finished(r) /\ ~TellsCodes(r)
  BY <1>1, <1>3 DEF Finished, Served, TellsCodes
<1>5. PageTypeOK'
  BY <1>0, <1>1, <1>4, FinishedTyped
<1>6. Sits' /\ OneOfSection' /\ OneCall' /\ OfSession' /\ SecretsApart'
  BY <1>1, <1>4, FinishedKeeps
<1>7. WillBeStored'
  <2>1. shown' = After(r)
    BY <1>1 DEF After, Served
  <2> QED BY <1>1, <1>4, <2>1, FinishedStored
<1>8. CodesInForce'
  BY <1>1, <1>4, FinishedCodes DEF PageInv, CodesInForce
<1>9. Telling'
  BY <1>1, <1>4, FinishedTelling
<1> QED BY <1>5, <1>6, <1>7, <1>8, <1>9 DEF PageInv

(* A refusal, or no answer to anything but a call whose codes the page would have shown. *)
LEMMA NothingShownKeeps ==
  ASSUME PageInv, NEW r \in Requests, request[r].stage # "free", Done(r),
         UNCHANGED <<stored, owner, screen, concurrent, crossed, told>>,
         \/ request[r].stage = "refused" /\ UNCHANGED <<unanswered, missed>>
         \/ unanswered' = TRUE /\ missed' = missed \cup (IF request[r].kind = "enable" THEN {request[r].who} \ {Nobody}
                                                         ELSE {})
  PROVE  PageInv'
<1>0. /\ setup \in AnyKey /\ codes \in AnyKey /\ (setup # NoKey \/ codes # NoKey => open)
      /\ unanswered \in BOOLEAN /\ told \subseteq Keys /\ missed \subseteq Users
      /\ request[r] \in RequestData
  BY PageTypes DEF PageInv
<1>1. Finished(r) /\ UNCHANGED <<setup, codes, shown>>
  BY DEF Finished, screen
<1>2. unanswered' \in BOOLEAN /\ missed' \subseteq Users /\ missed \subseteq missed'
  BY <1>0 DEF RequestData
<1>3. PageTypeOK'
  BY <1>0, <1>1, <1>2, FinishedTyped
<1>4. Sits' /\ OneOfSection' /\ OneCall' /\ OfSession' /\ SecretsApart'
  BY <1>1, FinishedKeeps
<1>5. WillBeStored'
  <2>1. request[r].stage = "refused" => After(r) = request[r].was
    BY DEF After, Served
  <2> QED BY <1>1, <2>1, FinishedStored
<1>6. CodesInForce'
  BY <1>1, FinishedCodes DEF PageInv, CodesInForce
<1>7. Telling'
  <2>1. /\ request'[r] = Free
        /\ \A q \in Requests : q # r => request'[q] = request[q]
    BY <1>1, FinishedIs
  <2>2. \A q \in Requests :
          /\ MayEnable(q)' => MayEnable(q) /\ request'[q] = request[q]
          /\ TellsCodes(q)' => TellsCodes(q) /\ request'[q] = request[q]
          /\ TellsCodes(q) /\ q # r => TellsCodes(q)'
    BY <2>1, FreeTyped DEF MayEnable, TellsCodes, Served
  <2>3. \A v \in Users : Useless(v) => Useless(v)'
    BY <1>1, <2>2 DEF Useless, Finished
  <2>4. \A v \in Users \ missed' : ~(TellsCodes(r) /\ request[r].who = v)
    BY NobodyIsNoUser DEF TellsCodes, Served
  <2>5. \A v \in Users \ missed' : stored'[v].mfa =>
          \/ stored'[v].codes \in told'
          \/ \E q \in Requests : TellsCodes(q)' /\ request'[q].who = v /\ request'[q].key = stored'[v].codes
    <3> SUFFICES ASSUME NEW v \in Users \ missed', stored[v].mfa, stored[v].codes \notin told
                 PROVE  \E q \in Requests : TellsCodes(q)' /\ request'[q].who = v /\ request'[q].key = stored[v].codes
      BY <1>1 DEF Finished
    <3>1. PICK q \in Requests : TellsCodes(q) /\ request[q].who = v /\ request[q].key = stored[v].codes
      BY <1>2 DEF PageInv, Telling
    <3>2. q # r
      BY <2>4, <3>1
    <3> QED BY <2>1, <2>2, <3>1, <3>2
  <2>6. \A v \in Users \ missed' : Useless(v)'
    BY <1>2, <2>3 DEF PageInv, Telling
  <2>7. \A q \in Requests, v \in Users : TellsCodes(q)' /\ request'[q].who = v =>
          /\ Useless(v)'
          /\ stored'[v].mfa => stored'[v].codes = request'[q].key
    BY <1>1, <2>2, <2>3 DEF PageInv, Telling, Finished
  <2> QED BY <2>5, <2>6, <2>7 DEF Telling
<1> QED BY <1>3, <1>4, <1>5, <1>6, <1>7 DEF PageInv

LEMMA RefusedAnswerKeeps ==
  ASSUME PageInv, NEW r \in Requests, refused(r) \/ Lose(r)
  PROVE  PageInv'
BY NothingShownKeeps DEF refused, Lose, pageHistory

(* The codes are on the page, or its user is one of the missed. *)
LEMMA EnabledKeeps ==
  ASSUME PageInv, NEW r \in Requests, enabled(r)
  PROVE  PageInv'
<1> DEFINE u == request[r].who
<1>0. /\ setup \in AnyKey /\ codes \in AnyKey /\ NoKey \in AnyKey
      /\ (setup # NoKey \/ codes # NoKey => open)
      /\ unanswered \in BOOLEAN /\ told \subseteq Keys /\ missed \subseteq Users
      /\ request[r] \in RequestData
  BY PageTypes DEF PageInv, AnyKey
<1>1. /\ Served(r, "enable") /\ Done(r) /\ shown' = [request[r].was EXCEPT !.mfa = TRUE]
      /\ codes' = IF request[r].here THEN request[r].key ELSE codes
      /\ setup' = IF request[r].here THEN NoKey ELSE setup
      /\ IF request[r].here
         THEN told' = told \cup {request[r].key} /\ missed' = missed \ {u}
         ELSE UNCHANGED <<told, missed>>
      /\ UNCHANGED <<stored, owner, open, concurrent, unanswered, crossed>>
  BY DEF enabled, Set
<1>2. request[r].was \in [id : Users, name : Names, mfa : BOOLEAN] /\ u \in Users
  BY <1>1, UnderWayIs DEF Served
<1>3. shown' \in [id : Users, name : Names, mfa : BOOLEAN] /\ shown'.id = request[r].was.id
  BY <1>1, <1>2
<1>4. Finished(r)
  BY <1>1, <1>3 DEF Finished, Served
<1>5. request[r].key \in Keys /\ (request[r].here => open)
  BY <1>0, <1>1 DEF PageInv, Sits, RequestData, AnyKey
<1>6. PageTypeOK'
  <2>1. /\ setup' \in AnyKey /\ codes' \in AnyKey /\ (setup' # NoKey \/ codes' # NoKey => open)
        /\ told' \subseteq Keys /\ missed' \subseteq Users
    BY <1>0, <1>1, <1>5 DEF AnyKey
  <2> QED BY <1>0, <1>1, <1>4, <2>1, FinishedTyped
<1>7. Sits' /\ OneOfSection' /\ OneCall' /\ OfSession' /\ SecretsApart'
  BY <1>1, <1>4, FinishedKeeps
<1>8. WillBeStored'
  <2>1. shown' = After(r)
    BY <1>1 DEF After, Served
  <2> QED BY <1>1, <1>4, <2>1, FinishedStored
<1>9. CodesInForce'
  <2>1. ~concurrent => codes = NoKey /\ stored[owner].codes = request[r].key
    BY <1>1, <1>4, FinishedIs DEF PageInv, CodesInForce, Served, Mfa
  <2> QED BY <1>1, <1>4, <2>1, FinishedCodes
<1>10. CASE ~request[r].here
  <2>1. Telling'
    BY <1>1, <1>4, <1>10, FinishedTelling DEF TellsCodes
  <2> QED BY <1>6, <1>7, <1>8, <1>9, <2>1 DEF PageInv
<1>11. CASE request[r].here
  <2>1. /\ request'[r] = Free
        /\ \A q \in Requests : q # r => request'[q] = request[q]
    BY <1>4, FinishedIs
  <2>2. \A q \in Requests :
          /\ MayEnable(q)' => MayEnable(q) /\ request'[q] = request[q]
          /\ TellsCodes(q)' => TellsCodes(q) /\ request'[q] = request[q]
          /\ TellsCodes(q) /\ q # r => TellsCodes(q)'
    BY <2>1, FreeTyped DEF MayEnable, TellsCodes, Served
  <2>3. \A v \in Users : Useless(v) => Useless(v)'
    BY <1>1, <2>2 DEF Useless
  <2>4. Useless(u) /\ (stored[u].mfa => stored[u].codes \in told')
    BY <1>1, <1>2, <1>11 DEF PageInv, Telling, TellsCodes
  <2>5. \A v \in Users \ missed' : v # u => v \in Users \ missed
    BY <1>1, <1>11
  <2>6. \A v \in Users \ missed' : Useless(v)'
    BY <2>3, <2>4, <2>5 DEF PageInv, Telling
  <2>7. \A q \in Requests, v \in Users : TellsCodes(q)' /\ request'[q].who = v =>
          /\ Useless(v)'
          /\ stored'[v].mfa => stored'[v].codes = request'[q].key
    BY <1>1, <2>2, <2>3 DEF PageInv, Telling
  <2>8. \A v \in Users \ missed' : stored'[v].mfa =>
          \/ stored'[v].codes \in told'
          \/ \E q \in Requests : TellsCodes(q)' /\ request'[q].who = v /\ request'[q].key = stored'[v].codes
    <3> SUFFICES ASSUME NEW v \in Users \ missed', stored[v].mfa, stored[v].codes \notin told'
                 PROVE  \E q \in Requests : TellsCodes(q)' /\ request'[q].who = v /\ request'[q].key = stored[v].codes
      BY <1>1
    <3>1. v # u /\ v \in Users \ missed /\ stored[v].codes \notin told
      BY <1>1, <1>11, <2>4, <2>5
    <3>2. PICK q \in Requests : TellsCodes(q) /\ request[q].who = v /\ request[q].key = stored[v].codes
      BY <3>1 DEF PageInv, Telling
    <3> QED BY <2>1, <2>2, <3>1, <3>2
  <2>9. Telling'
    BY <2>6, <2>7, <2>8 DEF Telling
  <2> QED BY <1>6, <1>7, <1>8, <1>9, <2>9 DEF PageInv
<1> QED BY <1>10, <1>11

-----------------------------------------------------------------------------
(* ProfilePage: the page is left, and the session changes *)

(* The page is gone, its calls stay under way, but for the one that ended the session. *)
Left ==
  /\ Unmount
  /\ request' \in [Requests -> RequestData]
  /\ \A q \in Requests :
       \/ request'[q] = Free
       \/ /\ request[q] # Free /\ request'[q] # Free
          /\ request'[q].here = FALSE
          /\ request'[q].kind = request[q].kind /\ request'[q].stage = request[q].stage
          /\ request'[q].who = request[q].who /\ request'[q].was = request[q].was
          /\ request'[q].name = request[q].name /\ request'[q].key = request[q].key
  /\ UNCHANGED <<stored, told>>

LEMMA LeftKeeps ==
  ASSUME PageInv, Left, shown' \in Views, owner' \in Users \cup {Nobody},
         concurrent' \in BOOLEAN, unanswered' \in BOOLEAN, crossed' \in BOOLEAN
  PROVE  PageTypeOK' /\ Sits' /\ OneOfSection' /\ SecretsApart' /\ Telling'
<1>0. /\ stored \in [Users -> RowData] /\ told \subseteq Keys /\ missed \subseteq Users
      /\ request \in [Requests -> RequestData] /\ NoKey \in AnyKey
  BY PageTypes DEF PageInv, AnyKey
<1>1. /\ open' = FALSE /\ setup' = NoKey /\ codes' = NoKey
      /\ missed' = missed \cup (Enabling \ {Nobody})
      /\ UNCHANGED <<stored, told>>
      /\ \A q \in Requests : request'[q].here = FALSE
  BY FreeTyped DEF Left, Unmount
<1>2. PageTypeOK'
  <2>1. Enabling \ {Nobody} \subseteq Users
    BY <1>0 DEF Enabling, RequestData
  <2> QED BY <1>0, <1>1, <2>1, PageTypesKept DEF Left
<1>3. Sits'
  BY FreeTyped, <1>1 DEF Left, PageInv, Sits, Served
<1>4. OneOfSection' /\ SecretsApart'
  BY <1>1 DEF OneOfSection, SecretsApart, OnPage
<1>5. \A v \in Users \ missed' : \A q \in Requests : request[q].who = v => request[q].kind # "enable"
  BY <1>1, NobodyIsNoUser DEF Enabling
<1>6. \A q \in Requests :
        /\ MayEnable(q)' => request[q].kind = "enable" /\ request'[q].who = request[q].who
        /\ ~TellsCodes(q)'
  BY <1>1, FreeTyped DEF Left, MayEnable, TellsCodes
<1>7. \A v \in Users \ missed' : Useless(v)'
  BY <1>5, <1>6 DEF Useless
<1>8. \A v \in Users \ missed' : stored'[v].mfa => stored'[v].codes \in told'
  BY <1>1, <1>5 DEF PageInv, Telling, TellsCodes, Served
<1>9. Telling'
  BY <1>6, <1>7, <1>8 DEF Telling
<1> QED BY <1>2, <1>3, <1>4, <1>9

LEMMA LeaveKeeps ==
  ASSUME PageInv, Leave
  PROVE  PageInv'
<1>0. /\ owner \in Users \cup {Nobody} /\ shown \in Views /\ request \in [Requests -> RequestData]
      /\ concurrent \in BOOLEAN /\ unanswered \in BOOLEAN /\ crossed \in BOOLEAN
  BY PageTypes DEF PageInv
<1>1. /\ Unmount /\ codes' = NoKey
      /\ request' = [q \in Requests |-> [request[q] EXCEPT !.here = FALSE]]
      /\ UNCHANGED <<stored, owner, shown, concurrent, unanswered, crossed, told>>
  BY DEF Leave, Unmount
<1>2. Left
  <2>1. \A q \in Requests : request'[q] = [request[q] EXCEPT !.here = FALSE] /\ request[q] \in RequestData
    BY <1>0, <1>1
  <2>2. \A q \in Requests : request'[q] \in RequestData
    BY <2>1, LeftTyped
  <2>3. request' \in [Requests -> RequestData]
    BY <1>1, <2>2
  <2> QED BY <1>1, <2>1, <2>3, LeftTyped DEF Left
<1>3. PageTypeOK' /\ Sits' /\ OneOfSection' /\ SecretsApart' /\ Telling'
  BY <1>0, <1>1, <1>2, LeftKeeps
<1>4. \A q \in Requests :
        request'[q] # Free =>
          /\ request[q] # Free
          /\ request'[q].was = request[q].was /\ request'[q].who = request[q].who
          /\ request'[q].kind = request[q].kind /\ After(q)' = After(q)
  BY <1>2 DEF Left, After, Served
<1>5. UnderWay' = UnderWay
  <2>1. \A q \in Requests : request[q] # Free => request'[q] # Free
    BY <1>0, <1>1, FreeTyped DEF PageInv, Sits, RequestData
  <2> QED BY <1>4, <2>1 DEF UnderWay
<1>6. UnderWay \subseteq Requests /\ \A q \in UnderWay : request'[q] # Free
  BY <1>5 DEF UnderWay
<1>7. OneCall' /\ OfSession'
  BY <1>1, <1>4, <1>5, <1>6 DEF PageInv, OneCall, OfSession
<1>8. WillBeStored'
  BY <1>1, <1>4, <1>5, <1>6 DEF PageInv, WillBeStored, publicView
<1>9. CodesInForce'
  <2>1. \A q \in Requests : Served(q, "enable")' => Served(q, "enable") /\ request'[q].key = request[q].key
    BY <1>2, FreeTyped DEF Left, Served
  <2> QED BY <1>1, <2>1 DEF PageInv, CodesInForce
<1> QED BY <1>3, <1>7, <1>8, <1>9 DEF PageInv

LEMMA PageLoggedOutKeeps ==
  ASSUME PageInv, NEW r \in Requests, loggedOut(r)
  PROVE  PageInv'
<1>0. /\ request \in [Requests -> RequestData]
      /\ concurrent \in BOOLEAN /\ unanswered \in BOOLEAN /\ crossed \in BOOLEAN
  BY PageTypes DEF PageInv
<1>1. /\ Unmount /\ setup' = NoKey /\ codes' = NoKey /\ shown' = Nobody /\ owner' = Nobody
      /\ crossed' = (crossed \/ UnderWay # {r})
      /\ request' = [q \in Requests |-> IF q = r THEN Free ELSE [request[q] EXCEPT !.here = FALSE]]
      /\ UNCHANGED <<stored, concurrent, unanswered, told>>
      /\ request[r].stage = "served"
  BY DEF loggedOut, ForgetUser, Unmount, Served
<1>2. \A q \in Requests :
        request'[q] = IF q = r THEN Free ELSE [request[q] EXCEPT !.here = FALSE]
  BY <1>1
<1>3. \A q \in Requests :
        /\ [request[q] EXCEPT !.here = FALSE] \in RequestData
        /\ request[q] = Free => request'[q] = Free
        /\ request'[q] = Free \/ request'[q] = [request[q] EXCEPT !.here = FALSE]
  BY <1>0, <1>2, LeftTyped
<1>4. Left
  <2>1. request' \in [Requests -> RequestData]
    BY <1>1, <1>3, FreeTyped
  <2> QED BY <1>0, <1>1, <1>3, <2>1, LeftTyped DEF Left
<1>5. PageTypeOK' /\ Sits' /\ OneOfSection' /\ SecretsApart' /\ Telling'
  <2>1. Nobody \in Views /\ crossed' \in BOOLEAN
    BY <1>0, <1>1 DEF Views
  <2> QED BY <1>0, <1>1, <1>4, <2>1, LeftKeeps
<1>6. UnderWay = {r} => UnderWay' = {}
  BY <1>2, <1>3 DEF UnderWay
<1>7. ~concurrent => UnderWay = {r}
  BY <1>1, FreeTyped DEF PageInv, OneCall, UnderWay
<1>8. OneCall'
  BY <1>1, <1>6, <1>7 DEF PageInv, OneCall
<1>9. OfSession'
  BY <1>1, <1>6 DEF OfSession
<1>10. WillBeStored'
  BY <1>1, <1>6, <1>7 DEF WillBeStored
<1>11. CodesInForce'
  <2>1. ~concurrent => \A q \in Requests : request'[q].stage # "served"
    BY <1>2, <1>3, <1>6, <1>7, FreeTyped DEF UnderWay
  <2> QED BY <1>1, <1>6, <1>7, <2>1 DEF CodesInForce, Served
<1> QED BY <1>5, <1>8, <1>9, <1>10, <1>11 DEF PageInv

LEMMA ReloadKeeps ==
  ASSUME PageInv, Reload
  PROVE  PageInv'
<1>0. /\ stored \in [Users -> RowData] /\ request \in [Requests -> RequestData]
      /\ owner \in Users \cup {Nobody}
  BY PageTypes DEF PageInv
<1>1. /\ Unmount /\ setup' = NoKey /\ codes' = NoKey
      /\ shown' = IF owner = Nobody THEN Nobody ELSE publicView(owner)
      /\ \A q \in Requests : request[q] = Free
      /\ concurrent' = FALSE /\ crossed' = FALSE /\ unanswered' = FALSE
      /\ UNCHANGED <<stored, owner, request, told>>
  BY DEF Reload, Unmount, UnderWay
<1>2. /\ shown' \in Views
      /\ shown' # Nobody => shown'.id = owner /\ owner \in Users
  BY <1>0, <1>1, PublicViewTyped DEF Views
<1>3. Left
  BY <1>0, <1>1 DEF Left
<1>4. PageTypeOK' /\ Sits' /\ OneOfSection' /\ SecretsApart' /\ Telling'
  BY <1>0, <1>1, <1>2, <1>3, LeftKeeps
<1>5. UnderWay' = {}
  BY <1>1 DEF UnderWay
<1>6. OneCall' /\ OfSession'
  BY <1>1, <1>2, <1>5 DEF OneCall, OfSession
<1>7. WillBeStored'
  <2>1. shown' # Nobody => shown' = publicView(shown'.id)
    BY <1>1, <1>2
  <2> QED BY <1>1, <1>5, <2>1 DEF WillBeStored, publicView
<1>8. CodesInForce'
  BY <1>1, <1>5, FreeTyped DEF CodesInForce, Served
<1> QED BY <1>4, <1>6, <1>7, <1>8 DEF PageInv

(* Nothing happens to the calls and the rows. *)
LEMMA CallsStay ==
  ASSUME PageInv, UNCHANGED <<stored, setup, codes, request, told, missed>>, open => open'
  PROVE  Sits' /\ OneOfSection' /\ SecretsApart' /\ Telling'
<1>1. Sits' /\ OneOfSection'
  BY DEF PageInv, Sits, OneOfSection, Served
<1>2. SecretsApart'
  BY DEF PageInv, SecretsApart, OnPage, MayEnable, Served
<1>3. Telling'
  BY TellingKept DEF PageInv, MayEnable, TellsCodes, Served
<1> QED BY <1>1, <1>2, <1>3

(* A login shows the user as stored; what was under way before is noted. *)
LEMMA SignInKeeps ==
  ASSUME PageInv, NEW u \in Users, SignIn(u)
  PROVE  PageInv'
<1>0. /\ stored \in [Users -> RowData] /\ request \in [Requests -> RequestData]
      /\ open \in BOOLEAN /\ (open => shown # Nobody)
      /\ setup \in AnyKey /\ codes \in AnyKey /\ (setup # NoKey \/ codes # NoKey => open)
      /\ told \subseteq Keys /\ missed \subseteq Users
  BY PageTypes DEF PageInv
<1>1. /\ owner' = u /\ shown' = publicView(u) /\ unanswered' = FALSE
      /\ concurrent' = (UnderWay # {}) /\ crossed' = (UnderWay # {})
      /\ UNCHANGED <<stored, open, setup, codes, request, told, missed>>
      /\ ~open /\ setup = NoKey /\ codes = NoKey
  BY <1>0 DEF SignIn
<1>2. publicView(u) \in Views /\ publicView(u) # Nobody /\ publicView(u).id = u
  BY <1>0, PublicViewTyped
<1>3. PageTypeOK'
  BY <1>0, <1>1, <1>2, PageTypesKept
<1>4. Sits' /\ OneOfSection' /\ SecretsApart' /\ Telling'
  BY <1>1, CallsStay
<1>5. UnderWay' = UnderWay
  BY <1>1 DEF UnderWay
<1>6. OneCall' /\ OfSession'
  BY <1>1, <1>2, <1>5 DEF OneCall, OfSession
<1>7. WillBeStored'
  <2>1. shown' = publicView(shown'.id)
    BY <1>1, <1>2
  <2> QED BY <1>1, <1>5, <2>1 DEF WillBeStored, publicView
<1>8. CodesInForce'
  <2>1. UnderWay = {} => \A q \in Requests : ~Served(q, "enable")'
    BY <1>1, FreeTyped DEF UnderWay, Served
  <2> QED BY <1>1, <1>5, <2>1 DEF CodesInForce
<1> QED BY <1>3, <1>4, <1>6, <1>7, <1>8 DEF PageInv

LEMMA OpenKeeps ==
  ASSUME PageInv, Open \/ UNCHANGED pageVars
  PROVE  PageInv'
<1>1. /\ UNCHANGED <<stored, owner, shown, setup, codes, request, concurrent, unanswered, crossed, told, missed>>
      /\ (open' = TRUE /\ shown # Nobody) \/ open' = open
  BY DEF Open, pageHistory, pageVars, screen
<1>2. PageTypeOK'
  <2>1. /\ stored \in [Users -> RowData] /\ request \in [Requests -> RequestData]
        /\ owner \in Users \cup {Nobody} /\ shown \in Views
        /\ open \in BOOLEAN /\ (open => shown # Nobody)
        /\ setup \in AnyKey /\ codes \in AnyKey /\ (setup # NoKey \/ codes # NoKey => open)
        /\ concurrent \in BOOLEAN /\ unanswered \in BOOLEAN /\ crossed \in BOOLEAN
        /\ told \subseteq Keys /\ missed \subseteq Users
    BY PageTypes DEF PageInv
  <2>2. open' \in BOOLEAN /\ (open => open') /\ (open' => shown # Nobody)
    <3>1. CASE open' = open
      BY <2>1, <3>1
    <3>2. CASE open' = TRUE /\ shown # Nobody
      BY <3>2
    <3> QED BY <1>1, <3>1, <3>2
  <2>3. /\ stored' \in [Users -> RowData] /\ request' \in [Requests -> RequestData]
        /\ owner' \in Users \cup {Nobody} /\ shown' \in Views
        /\ setup' \in AnyKey /\ codes' \in AnyKey
        /\ concurrent' \in BOOLEAN /\ unanswered' \in BOOLEAN /\ crossed' \in BOOLEAN
        /\ told' \subseteq Keys /\ missed' \subseteq Users
    BY <1>1, <2>1
  <2>4. open' => shown' # Nobody
    BY <1>1, <2>2
  <2>5. setup' # NoKey \/ codes' # NoKey => open'
    BY <1>1, <2>1, <2>2
  <2> QED BY <2>2, <2>3, <2>4, <2>5, PageTypesKept
<1>3. Sits' /\ OneOfSection' /\ SecretsApart' /\ Telling'
  BY <1>1, CallsStay
<1>4. UnderWay' = UnderWay /\ \A q \in Requests : After(q)' = After(q)
  BY <1>1 DEF UnderWay, After, Served
<1>5. UnderWay \subseteq Requests
  BY DEF UnderWay
<1>6. OneCall' /\ OfSession' /\ WillBeStored'
  BY <1>1, <1>4, <1>5 DEF PageInv, OneCall, OfSession, WillBeStored, publicView
<1>7. CodesInForce'
  BY <1>1, <1>4 DEF PageInv, CodesInForce, Served
<1> QED BY <1>2, <1>3, <1>6, <1>7 DEF PageInv

LEMMA PageStarts ==
  ASSUME PageInit
  PROVE  PageInv
<1>1. /\ stored = [u \in Users |-> [name |-> AnyName, mfa |-> FALSE, secret |-> NoKey, codes |-> NoKey]]
      /\ owner = Nobody /\ shown = Nobody /\ open = FALSE /\ setup = NoKey /\ codes = NoKey
      /\ concurrent = FALSE /\ unanswered = FALSE /\ crossed = FALSE /\ told = {} /\ missed = {}
      /\ request = [r \in Requests |-> Free]
      /\ \A r \in Requests : request[r] = Free
  BY DEF PageInit
<1>2. UnderWay = {}
  BY <1>1 DEF UnderWay
<1>3. PageTypeOK
  <2>1. stored \in [Users -> RowData]
    BY <1>1, AnyNameTyped DEF RowData, AnyKey
  <2>2. request \in [Requests -> RequestData] /\ Nobody \in Views /\ NoKey \in AnyKey
    BY <1>1, FreeTyped DEF Views, AnyKey
  <2> QED BY <1>1, <2>1, <2>2, PageTypes
<1>4. \A r \in Requests : ~Served(r, "enable") /\ ~MayEnable(r) /\ ~TellsCodes(r) /\ ~request[r].here
  BY <1>1, FreeTyped DEF Served, MayEnable, TellsCodes
<1>5. Sits /\ OneOfSection
  BY <1>1, <1>4, FreeTyped DEF Sits, OneOfSection
<1>6. OneCall /\ OfSession /\ WillBeStored
  BY <1>1, <1>2 DEF OneCall, OfSession, WillBeStored
<1>7. CodesInForce /\ SecretsApart
  BY <1>1, <1>2, <1>4 DEF CodesInForce, SecretsApart
<1>8. Telling
  BY <1>1, <1>4 DEF Telling, Useless
<1> QED BY <1>3, <1>5, <1>6, <1>7, <1>8 DEF PageInv

LEMMA PageKeeps ==
  ASSUME PageInv, [PageNext]_pageVars
  PROVE  PageInv'
<1>1. ASSUME NEW r \in Requests,
             save(r) \/ startSetup(r) \/ confirmEnable(r) \/ disable(r) \/ logout(r)
      PROVE  PageInv'
  BY <1>1, ButtonsKeep
<1>2. ASSUME NEW r \in Requests,
             UpdateMe(r) \/ SetupMfa(r) \/ EnableMfa(r) \/ DisableMfa(r) \/ EndSession(r)
      PROVE  PageInv'
  BY <1>2, UpdateMeKeeps, SetupMfaKeeps, EnableMfaKeeps, DisableMfaKeeps, EndSessionKeeps
<1>3. ASSUME NEW r \in Requests, Anonymous(r)
      PROVE  PageInv'
  BY <1>3, RefusingKeeps DEF Anonymous, pageHistory
<1>4. ASSUME NEW r \in Requests,
             saved(r) \/ setupStarted(r) \/ enabled(r) \/ disabled(r)
      PROVE  PageInv'
  BY <1>4, SavedKeeps, SetupStartedKeeps, EnabledKeeps, DisabledKeeps
<1>5. ASSUME NEW r \in Requests, loggedOut(r) \/ refused(r) \/ Lose(r)
      PROVE  PageInv'
  BY <1>5, PageLoggedOutKeeps, RefusedAnswerKeeps
<1>6. ASSUME NEW u \in Users, SignIn(u)
      PROVE  PageInv'
  BY <1>6, SignInKeeps
<1>7. CASE Open \/ Leave \/ Reload \/ UNCHANGED pageVars
  BY <1>7, OpenKeeps, LeaveKeeps, ReloadKeeps
<1> QED BY <1>1, <1>2, <1>3, <1>4, <1>5, <1>6, <1>7 DEF PageNext

-----------------------------------------------------------------------------
(* ProfilePage: what holds in every run *)

LEMMA PageInvariant == PageSpec => []PageInv
<1>1. PageInit => PageInv
  BY PageStarts
<1>2. PageInv /\ [PageNext]_pageVars => PageInv'
  BY PageKeeps
<1> QED BY <1>1, <1>2, PTL DEF PageSpec

(* Every variable of the page keeps its type, and a page that is not mounted shows neither
   a secret nor recovery codes. *)
THEOREM PageTypesHold == PageSpec => []PageTypeOK
<1>1. PageInv => PageTypeOK
  BY DEF PageInv
<1> QED BY <1>1, PageInvariant, PTL

(* With nothing under way the tab shows the user as the server has it, unless calls
   overlapped or an answer was lost: the copy each handler makes of the user of its click
   (Profile.jsx) is then the one the server answers. *)
THEOREM TheTabShowsWhatIsStored == PageSpec => []ShownIsStored
<1>1. PageInv => ShownIsStored
  BY DEF PageInv, PageTypeOK, WillBeStored, ShownIsStored
<1> QED BY <1>1, PageInvariant, PTL

(* The tab shows the user whose session it has, unless a call was under way when the session
   changed. *)
THEOREM TheTabShowsItsSession == PageSpec => []ShowsTheSession
<1>1. PageInv => ShowsTheSession
  BY DEF PageInv, OfSession, ShowsTheSession
<1> QED BY <1>1, PageInvariant, PTL

(* The recovery codes on the screen are in force, unless calls overlapped. *)
THEOREM TheCodesShownWork == PageSpec => []CodesShownWork
<1>1. PageInv => CodesShownWork
  BY DEF PageInv, PageTypeOK, CodesInForce, OneCall, CodesShownWork
<1> QED BY <1>1, PageInvariant, PTL

(* Whoever has MFA on has seen the recovery codes, unless the page was left or an answer lost
   while enabling: a call of a page that was left knows no secret of a later one. *)
THEOREM TheCodesWereTold == PageSpec => []CodesWereTold
<1>1. PageInv => CodesWereTold
  BY DEF PageInv, Telling, TellsCodes, Served, Enabling, CodesWereTold
<1> QED BY <1>1, PageInvariant, PTL

=============================================================================
