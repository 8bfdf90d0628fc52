----------------------------- MODULE ApiClient -----------------------------
(***************************************************************************)
(* The API client of the browser (api/client.js, AuthContext.jsx) against  *)
(* the session endpoints.  Tabs share the cookies; each has its own calls, *)
(* its own `refreshing` promise and its own signed-in user.                *)
(*                                                                         *)
(* JavaScript runs to the next await, so the handler of an answer is one   *)
(* action, with everything that waits for the same promise.  The server's  *)
(* rotation is one action per statement.                                   *)
(***************************************************************************)
EXTENDS Naturals, FiniteSets

CONSTANTS
  Tabs,
  Calls,      \* call slots of a tab
  Tokens,     \* refresh tokens, numbered; one nobody holds any more is reused
  NoToken,    \* no cookie
  NoCall,     \* `refreshing` is null
  MaxLogins,  \* bounds the logins
  MaxBusy     \* bounds the calls under way in all tabs

ASSUME NothingIsNoCall == NoCall \notin Calls
ASSUME NothingIsNoToken == NoToken \notin Tokens
ASSUME BoundsTyped == MaxLogins \in Nat /\ MaxBusy \in Nat

VARIABLES
  live,        \* refresh_tokens: the rows with revoked_at NULL
  family,      \* refresh_tokens.family_id: the login it stems from
  access,      \* the browser holds an access cookie; it goes when the token expires
  cookie,      \* the refresh cookie
  user,        \* AuthContext: somebody is signed in, as this tab shows it
  atLogin,     \* location.pathname is '/login'
  call,        \* a call of a tab
  refreshing,  \* the call whose refresh the tab's promise stands for
  ref,         \* the refresh a call has sent
  logins,      \* logins so far
  session,     \* the login the browser should be in, 0 after a logout
  overlapped,  \* two requests that change the session were under way at once
  lost,        \* such a request or its answer was lost
  ended,       \* all sessions were revoked from elsewhere
  alarmed      \* TOKEN_REUSE_ALERT was recorded

server  == <<live, family>>
cookies == <<access, cookie>>
page    == <<user, atLogin>>
history == <<logins, session, overlapped, lost, ended, alarmed>>
vars    == <<server, cookies, page, call, refreshing, ref, history>>

Kinds  == {"api", "boot", "logout"}
Stages == {"idle", "sent", "waiting", "retried", "answered"}

Idle      == [kind |-> "api", stage |-> "idle", auth |-> FALSE, token |-> NoToken, on |-> NoCall]
NoRefresh == [stage |-> "none", token |-> NoToken, new |-> NoToken]

Init ==
  /\ live = {} /\ family = [k \in Tokens |-> 0]
  /\ access = FALSE /\ cookie = NoToken
  /\ user = [t \in Tabs |-> FALSE] /\ atLogin = [t \in Tabs |-> FALSE]
  /\ call = [t \in Tabs |-> [c \in Calls |-> Idle]]
  /\ refreshing = [t \in Tabs |-> NoCall]
  /\ ref = [t \in Tabs |-> [c \in Calls |-> NoRefresh]]
  /\ logins = 0 /\ session = 0
  /\ overlapped = FALSE /\ lost = FALSE /\ ended = FALSE /\ alarmed = FALSE

-----------------------------------------------------------------------------

Refreshing(t) == \E c \in Calls : ref[t][c].stage # "none"
LoggingOut(t) == \E c \in Calls : call[t][c].stage # "idle" /\ call[t][c].kind = "logout"

(* a request that changes the session is under way, but for refreshes of the tabs in own *)
Busy(own) == \/ \E t \in Tabs : LoggingOut(t)
             \/ \E t \in Tabs \ own : Refreshing(t)

Held == {cookie} \cup UNION {{ref[t][c].token, ref[t][c].new, call[t][c].token} : t \in Tabs, c \in Calls}

(* a token nobody holds: a new row *)
Unheld == {k \in Tokens : k \notin Held}
Fresh(k) == k \in Unheld /\ \A j \in Unheld : k <= j

(* a mistake: the refresh cookie has no path of its own *)
RequestWithAllCookies(kind, stage, auth, token) ==
  [Idle EXCEPT !.kind = kind, !.stage = stage, !.auth = auth, !.token = token]

(* a request as the browser sends it, with the cookies it holds; the refresh cookie
   goes to /api/auth only *)
Request(kind, stage, auth, token) ==
  [Idle EXCEPT !.kind = kind, !.stage = stage, !.auth = auth,
               !.token = IF kind = "logout" THEN token ELSE NoToken]

(* a page is loaded: what the old one had under way is gone, the new one asks who it is *)
Load(t, c) ==
  /\ call' = [call EXCEPT ![t] = [d \in Calls |-> IF d = c THEN Request("boot", "sent", access, cookie)
                                                           ELSE Idle]]
  /\ refreshing' = [refreshing EXCEPT ![t] = NoCall]
  /\ ref' = [ref EXCEPT ![t] = [d \in Calls |-> NoRefresh]]
  /\ user' = [user EXCEPT ![t] = FALSE]

-----------------------------------------------------------------------------
(* calls *)

BelowMaxBusy == Cardinality({p \in Tabs \X Calls : call[p[1]][p[2]] # Idle}) < MaxBusy

(* a page of a signed-in user calls the API *)
Send(t, c) ==
  /\ user[t] /\ call[t][c] = Idle /\ BelowMaxBusy
  /\ call' = [call EXCEPT ![t][c] = Request("api", "sent", access, cookie)]
  /\ UNCHANGED <<server, cookies, page, refreshing, ref, history>>

(* the answer of a request with a valid access token *)
Serve(t, c) ==
  /\ call[t][c].stage \in {"sent", "retried"}
  /\ call[t][c].kind # "logout"
  /\ call[t][c].auth
  /\ call' = [call EXCEPT ![t][c] = Idle]
  /\ user' = [user EXCEPT ![t] = @ \/ call[t][c].kind = "boot"]
  /\ UNCHANGED <<server, cookies, atLogin, refreshing, ref, history>>

(* `/auth/*` calls and `/users/me` get their 401 back *)
IsAuthProbe(kind) == kind # "api"

(* a mistake: every such 401 leads to /login *)
RejectToLogin(t, c) ==
  /\ call[t][c].stage \in {"sent", "retried"}
  /\ ~call[t][c].auth
  /\ call[t][c].stage = "retried" \/ IsAuthProbe(call[t][c].kind)
  /\ Load(t, c)
  /\ atLogin' = [atLogin EXCEPT ![t] = TRUE]
  /\ UNCHANGED <<server, cookies, history>>

(* a 401 that is not refreshed: a probe's, or the second one of a call *)
Reject(t, c) ==
  /\ call[t][c].stage \in {"sent", "retried"}
  /\ ~call[t][c].auth
  /\ call[t][c].stage = "retried" \/ IsAuthProbe(call[t][c].kind)
  /\ call' = [call EXCEPT ![t][c] = Idle]
  /\ user' = [user EXCEPT ![t] = @ /\ call[t][c].kind # "boot"]
  /\ UNCHANGED <<server, cookies, atLogin, refreshing, ref, history>>

(* a mistake: every call refreshes for itself *)
OwnRefresh(t, c) == c

(* the call whose refresh a 401 of call c waits for: refreshing || post('/auth/refresh') *)
Shared(t, c) == IF refreshing[t] = NoCall THEN c ELSE refreshing[t]

(* a 401 that is refreshed *)
Unauthorized(t, c) ==
  /\ call[t][c].stage = "sent"
  /\ ~call[t][c].auth
  /\ ~IsAuthProbe(call[t][c].kind)
  /\ LET p == Shared(t, c) IN
       /\ call' = [call EXCEPT ![t][c].stage = "waiting", ![t][c].on = p]
       /\ refreshing' = [refreshing EXCEPT ![t] = p]
       /\ IF p = c
          THEN /\ ref' = [ref EXCEPT ![t][c] = [stage |-> "find", token |-> cookie, new |-> NoToken]]
               /\ overlapped' = (overlapped \/ Busy({t}))
          ELSE UNCHANGED <<ref, overlapped>>
  /\ UNCHANGED <<server, cookies, page, logins, session, lost, ended, alarmed>>

-----------------------------------------------------------------------------
(* the server's rotation *)

(* an unknown token is refused, a revoked one ends its family *)
Find(t, c) ==
  /\ ref[t][c].stage = "find"
  /\ LET k == ref[t][c].token IN
       \/ /\ k \in live
          /\ ref' = [ref EXCEPT ![t][c].stage = "revoke"]
          /\ UNCHANGED <<live, alarmed>>
       \/ /\ k \in Tokens \ live
          /\ live' = {j \in live : family[j] # family[k]}
          /\ alarmed' = TRUE
          /\ ref' = [ref EXCEPT ![t][c].stage = "refused"]
       \/ /\ k = NoToken
          /\ ref' = [ref EXCEPT ![t][c].stage = "refused"]
          /\ UNCHANGED <<live, alarmed>>
  /\ UNCHANGED <<family, cookies, page, call, refreshing, logins, session, overlapped, lost, ended>>

Revoke(t, c) ==
  /\ ref[t][c].stage = "revoke"
  /\ live' = live \ {ref[t][c].token}
  /\ ref' = [ref EXCEPT ![t][c].stage = "insert"]
  /\ UNCHANGED <<family, cookies, page, call, refreshing, history>>

(* the replacement in the same family *)
Insert(t, c) ==
  /\ ref[t][c].stage = "insert"
  /\ \E k \in Tokens :
       /\ Fresh(k)
       /\ live' = live \cup {k}
       /\ family' = [family EXCEPT ![k] = family[ref[t][c].token]]
       /\ ref' = [ref EXCEPT ![t][c].stage = "answer", ![t][c].new = k]
  /\ UNCHANGED <<cookies, page, call, refreshing, history>>

-----------------------------------------------------------------------------
(* the answer of a refresh *)

(* a mistake: only the call that asked goes on *)
OnlyTheAsker(t, c) == {c}

Waiters(t, c) == {d \in Calls : call[t][d].stage = "waiting" /\ call[t][d].on = c}

(* the cookies are set; everything that waits retries, and resets the promise *)
Refreshed(t, c) ==
  /\ ref[t][c].stage = "answer"
  /\ access' = TRUE /\ cookie' = ref[t][c].new
  /\ call' = [call EXCEPT ![t] = [d \in Calls |-> IF d \in Waiters(t, c)
                                                  THEN Request("api", "retried", TRUE, NoToken)
                                                  ELSE @[d]]]
  /\ refreshing' = [refreshing EXCEPT ![t] = NoCall]
  /\ ref' = [ref EXCEPT ![t][c] = NoRefresh]
  /\ UNCHANGED <<server, page, history>>

(* everything that waits is rejected; off to /login unless there *)
Fail(t, c) ==
  \/ /\ atLogin[t]
     /\ call' = [call EXCEPT ![t] = [d \in Calls |-> IF d \in Waiters(t, c) THEN Idle ELSE @[d]]]
     /\ refreshing' = [refreshing EXCEPT ![t] = NoCall]
     /\ ref' = [ref EXCEPT ![t][c] = NoRefresh]
     /\ UNCHANGED page
  \/ /\ ~atLogin[t]
     /\ Load(t, c)
     /\ atLogin' = [atLogin EXCEPT ![t] = TRUE]

Refused(t, c) ==
  /\ ref[t][c].stage = "refused"
  /\ Fail(t, c)
  /\ lost' = (lost \/ LoggingOut(t))
  /\ UNCHANGED <<server, cookies, logins, session, overlapped, ended, alarmed>>

(* the request, or its answer, is lost, or the server fails in between *)
LoseRefresh(t, c) ==
  /\ ref[t][c].stage # "none"
  /\ Fail(t, c)
  /\ lost' = TRUE
  /\ UNCHANGED <<server, cookies, logins, session, overlapped, ended, alarmed>>

-----------------------------------------------------------------------------
(* login and logout *)

(* a fresh family; the history starts anew *)
Login(t) ==
  /\ ~user[t] /\ atLogin[t] /\ logins < MaxLogins
  /\ logins' = logins + 1 /\ session' = logins'
  /\ \E k \in Tokens :
       /\ Fresh(k)
       /\ live' = live \cup {k}
       /\ family' = [family EXCEPT ![k] = logins']
       /\ cookie' = k
  /\ access' = TRUE
  /\ user' = [user EXCEPT ![t] = TRUE]
  /\ atLogin' = [atLogin EXCEPT ![t] = FALSE]
  /\ overlapped' = Busy({})
  /\ lost' = FALSE /\ ended' = FALSE /\ alarmed' = FALSE
  /\ UNCHANGED <<call, refreshing, ref>>

SendLogout(t, c) ==
  /\ user[t] /\ call[t][c] = Idle /\ BelowMaxBusy
  /\ call' = [call EXCEPT ![t][c] = Request("logout", "sent", access, cookie)]
  /\ overlapped' = (overlapped \/ Busy({}))
  /\ UNCHANGED <<server, cookies, page, refreshing, ref, logins, session, lost, ended, alarmed>>

(* authenticate lets it pass; the presented token is revoked *)
Logout(t, c) ==
  /\ call[t][c].kind = "logout" /\ call[t][c].stage = "sent" /\ call[t][c].auth
  /\ live' = live \ {call[t][c].token}
  /\ call' = [call EXCEPT ![t][c].stage = "answered"]
  /\ UNCHANGED <<family, cookies, page, refreshing, ref, history>>

(* a mistake: cleared without the path it was set with, the refresh cookie stays *)
ClearAccessCookie == access' = FALSE /\ UNCHANGED cookie
ClearAuthCookies == access' = FALSE /\ cookie' = NoToken

(* the cookies are cleared and the user is null *)
LoggedOut(t, c) ==
  /\ call[t][c].kind = "logout" /\ call[t][c].stage = "answered"
  /\ ClearAuthCookies
  /\ user' = [user EXCEPT ![t] = FALSE]
  /\ session' = 0
  /\ call' = [call EXCEPT ![t][c] = Idle]
  /\ UNCHANGED <<server, atLogin, refreshing, ref, logins, overlapped, lost, ended, alarmed>>

LoseLogout(t, c) ==
  /\ call[t][c].kind = "logout" /\ call[t][c].stage \in {"sent", "answered"}
  /\ call' = [call EXCEPT ![t][c] = Idle]
  /\ lost' = TRUE
  /\ UNCHANGED <<server, cookies, page, refreshing, ref, logins, session, overlapped, ended, alarmed>>

-----------------------------------------------------------------------------
(* what happens around it *)

(* 15 minutes are over *)
Expire ==
  /\ access
  /\ access' = FALSE
  /\ UNCHANGED <<server, cookie, page, call, refreshing, ref, history>>

(* a change of the password, a suspension: revokeAllForUser *)
EndSessions ==
  /\ ~ended
  /\ live' = {}
  /\ ended' = TRUE
  /\ UNCHANGED <<family, cookies, page, call, refreshing, ref, logins, session, overlapped, lost, alarmed>>

(* a page is loaded while nothing is under way; only the signed-out find a link to /login *)
Visit(t, c) ==
  /\ \A d \in Calls : call[t][d] = Idle /\ ref[t][d] = NoRefresh
  /\ Load(t, c)
  /\ \E b \in BOOLEAN : (b => ~user[t]) /\ atLogin' = [atLogin EXCEPT ![t] = b]
  /\ UNCHANGED <<server, cookies, history>>

Settle(t, c) ==
  \/ Serve(t, c) \/ Reject(t, c) \/ Unauthorized(t, c)
  \/ Find(t, c) \/ Revoke(t, c) \/ Insert(t, c) \/ Refreshed(t, c) \/ Refused(t, c)
  \/ Logout(t, c) \/ LoggedOut(t, c)

Next ==
  \/ \E t \in Tabs, c \in Calls :
       \/ Settle(t, c)
       \/ Send(t, c) \/ SendLogout(t, c) \/ Visit(t, c)
       \/ LoseRefresh(t, c) \/ LoseLogout(t, c)
  \/ \E t \in Tabs : Login(t)
  \/ Expire
  \/ EndSessions

(* The server answers what it is asked, and the browser handles the answers. *)
Fairness == \A t \in Tabs, c \in Calls : WF_vars(Settle(t, c))

Spec == Init /\ [][Next]_vars /\ Fairness

-----------------------------------------------------------------------------
TypeOK ==
  /\ live \subseteq Tokens
  /\ family \in [Tokens -> 0..MaxLogins]
  /\ access \in BOOLEAN
  /\ cookie \in Tokens \cup {NoToken}
  /\ user \in [Tabs -> BOOLEAN]
  /\ atLogin \in [Tabs -> BOOLEAN]
  /\ call \in [Tabs -> [Calls -> [kind : Kinds, stage : Stages, auth : BOOLEAN,
                                  token : Tokens \cup {NoToken}, on : Calls \cup {NoCall}]]]
  /\ \A t \in Tabs, c \in Calls : call[t][c].token # NoToken => call[t][c].kind = "logout"
  /\ refreshing \in [Tabs -> Calls \cup {NoCall}]
  /\ ref \in [Tabs -> [Calls -> [stage : {"none", "find", "revoke", "insert", "answer", "refused"},
                                 token : Tokens \cup {NoToken}, new : Tokens \cup {NoToken}]]]
  /\ logins \in 0..MaxLogins
  /\ session \in 0..MaxLogins
  /\ overlapped \in BOOLEAN /\ lost \in BOOLEAN /\ ended \in BOOLEAN /\ alarmed \in BOOLEAN

(* However many calls of a tab find the access token expired, one refresh is under
   way, and it is the one the tab's promise stands for. *)
OneRefresh ==
  \A t \in Tabs, c \in Calls : ref[t][c].stage # "none" => refreshing[t] = c

(* The reuse alarm, which ends the session, is raised against the browser itself only
   after requests of two tabs overlapped, one was lost, or the sessions had been
   revoked elsewhere. *)
AlarmUnlessOverlap == alarmed => overlapped \/ lost \/ ended

(* The refresh cookie is of the login last made, and there is none after a logout, unless
   requests that set the cookies overlapped. *)
CookieOfSession ==
  overlapped \/ (IF cookie = NoToken THEN session = 0 ELSE session # 0 /\ family[cookie] = session)

(* A tab is sent away to /login, because "the session is genuinely gone"
   (client.js:58), only when it is so, unless requests overlapped or one was lost. *)
EjectedOnlyWhenGone ==
  [][\A t \in Tabs : user[t] /\ ~atLogin[t] /\ atLogin'[t] => cookie \notin live \/ overlapped \/ lost']_vars

(* A call that waits, waits for a refresh that is under way: none hangs. *)
WaitsForARefresh ==
  \A t \in Tabs, c \in Calls :
    call[t][c].stage = "waiting" => \E d \in Calls : call[t][c].on = d /\ ref[t][d].stage # "none"
=============================================================================
