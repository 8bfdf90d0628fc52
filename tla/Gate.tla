-------------------------------- MODULE Gate --------------------------------
(***************************************************************************)
(* What a state-changing request of the single-page application has to     *)
(* pass before its handler: the global limiter, csurf, authenticate and    *)
(* the limiter of the sensitive actions (app.js, userRoutes.js, csrf.js),  *)
(* and how client.js gets the token that csurf asks for.                   *)
(*                                                                         *)
(* One browser, with the cookies _csrf (the secret) and XSRF-TOKEN (made   *)
(* from a secret, and named here by it), and its tabs.  csurf gives a new  *)
(* secret to every request that carries none, whatever becomes of it.      *)
(***************************************************************************)
EXTENDS RateLimits

CONSTANTS
  Tabs,
  Calls,       \* slots for requests under way
  MaxSecret    \* bound: how many secrets are told apart

ASSUME MaxSecretTyped == MaxSecret \in Nat \ {0}

VARIABLES
  jar,       \* the cookies: the secret, and the secret of the token; 0: none
  csrf,      \* of a tab: csrfReady, and what became of it
  call,      \* the requests under way
  tangled    \* history: two answers with a new secret each were under way together

vars == <<jar, csrf, call, tangled, limits>>

Secrets == 1..MaxSecret
CsrfStates == {"null", "pending", "fetched", "failed"}
Kinds == {"get", "fetch", "post"}
Statuses == {"ok", "limited", "forbidden"}

(* What a slot is used for, and of a request whose answer is on its way the status and the
   cookies it sets (0: none).  A POST waits for the token first. *)
Answer(kind, t, status, secret, xsrf) ==
  [kind |-> kind, tab |-> t, status |-> status, secret |-> secret, xsrf |-> xsrf]
NoTab == "none"
NoCall == Answer("none", NoTab, "none", 0, 0)
Waiting(t) == Answer("wait", t, "none", 0, 0)

Under(c) == call[c].kind \in Kinds

Init ==
  /\ jar = [secret |-> 0, xsrf |-> 0]
  /\ csrf = [t \in Tabs |-> "null"]
  /\ call = [c \in Calls |-> NoCall]
  /\ tangled = FALSE
  /\ InitLimits

-----------------------------------------------------------------------------
(* csurf *)

InUse == {jar.secret, jar.xsrf} \cup {call[c].secret : c \in Calls}
Fresh == CHOOSE n \in Secrets : n \notin InUse

(* the secret of a request, and the one the answer sets *)
csurf == IF jar.secret = 0 THEN [secret |-> Fresh, set |-> Fresh]
         ELSE [secret |-> jar.secret, set |-> 0]

(* tokens.verify *)
Verified(secret) == jar.xsrf = secret

Brings(c) == call[c].secret # 0
Tangles == tangled' = (tangled \/ \E c, d \in Calls : c # d /\ Brings(c)' /\ Brings(d)')

-----------------------------------------------------------------------------
(* The server: one request of tab t from address ip.  A limiter counts what it refuses. *)

Count(keys) == window' = [k \in Keys |-> IF k \in keys THEN Hit(k) ELSE window[k]]

Refuse(c, kind, t, ip) ==
  /\ ~Admitted(ip)
  /\ Count({ip})
  /\ call' = [call EXCEPT ![c] = Answer(kind, t, "limited", 0, 0)]
  /\ UNCHANGED recent

(* a GET of /users/me or /events; issueToken for the fetch *)
Get(c, kind, t, ip) ==
  \/ Refuse(c, kind, t, ip)
  \/ /\ Admitted(ip)
     /\ Count({ip})
     /\ Served({ip})
     /\ call' = [call EXCEPT ![c] =
          Answer(kind, t, "ok", csurf.set, IF kind = "fetch" THEN csurf.secret ELSE 0)]

(* POST /users/me/change-password *)
Post(c, t, user, ip) ==
  LET key == keyGenerator(user, ip) IN
  \/ Refuse(c, "post", t, ip)
  \/ /\ Admitted(ip) /\ ~Verified(csurf.secret)
     /\ Count({ip})
     /\ Served({ip})
     /\ call' = [call EXCEPT ![c] = Answer("post", t, "forbidden", csurf.set, 0)]
  \/ /\ Admitted(ip) /\ Verified(csurf.secret) /\ ~Admitted(key)
     /\ Count({ip, key})
     /\ Served({ip})
     /\ call' = [call EXCEPT ![c] = Answer("post", t, "limited", csurf.set, 0)]
  \/ /\ Admitted(ip) /\ Verified(csurf.secret) /\ Admitted(key)
     /\ Count({ip, key})
     /\ Served({ip, user})
     /\ call' = [call EXCEPT ![c] = Answer("post", t, "ok", csurf.set, 0)]

-----------------------------------------------------------------------------
(* client.js *)

(* bound: there is a secret to be had *)
Room == jar.secret # 0 \/ \E n \in Secrets : n \notin InUse

(* a page loads its data *)
SendGet(c, t, ip) ==
  /\ call[c] = NoCall /\ Room
  /\ Get(c, "get", t, ip)
  /\ Tangles
  /\ UNCHANGED <<jar, csrf>>

(* a mistake: the request does not await the token *)
AwaitNothing(t) == TRUE
(* ensureCsrf: the promise is settled, to null when it was refused or lost *)
ensureCsrf(t) == csrf[t] \in {"fetched", "failed"}

(* The interceptor of a POST: it waits for the token, fetched once for the page ... *)
Begin(c, t) ==
  /\ call[c] = NoCall
  /\ call' = [call EXCEPT ![c] = Waiting(t)]
  /\ UNCHANGED <<jar, csrf, tangled, limits>>

NoFetchYet(t) == csrf[t] = "null"

Fetch(c, t, ip) ==
  /\ call[c] = NoCall /\ Room
  /\ \E d \in Calls : call[d] = Waiting(t)
  /\ NoFetchYet(t)
  /\ csrf' = [csrf EXCEPT ![t] = "pending"]
  /\ Get(c, "fetch", t, ip)
  /\ Tangles
  /\ UNCHANGED jar

(* ... and the request goes with the token that is in the jar then *)
SendPost(c, user, ip) ==
  /\ call[c].kind = "wait" /\ Room
  /\ ensureCsrf(call[c].tab)
  /\ Post(c, call[c].tab, user, ip)
  /\ Tangles
  /\ UNCHANGED <<jar, csrf>>

Set(old, new) == IF new = 0 THEN old ELSE new

Settle(c, outcome) ==
  csrf' = IF call[c].kind = "fetch" THEN [csrf EXCEPT ![call[c].tab] = outcome] ELSE csrf

(* The answer arrives: its cookies are those of the browser from now on. *)
Receive(c) ==
  /\ Under(c)
  /\ jar' = [secret |-> Set(jar.secret, call[c].secret), xsrf |-> Set(jar.xsrf, call[c].xsrf)]
  /\ Settle(c, IF call[c].status = "ok" THEN "fetched" ELSE "failed")
  /\ call' = [call EXCEPT ![c] = NoCall]
  /\ UNCHANGED <<tangled, limits>>

(* It is lost. *)
Lose(c) ==
  /\ Under(c)
  /\ Settle(c, "failed")
  /\ call' = [call EXCEPT ![c] = NoCall]
  /\ UNCHANGED <<jar, tangled, limits>>

(* A reload: nobody awaits the answers any more; their cookies may still be set. *)
Orphan(k) == IF k.kind = "wait" THEN NoCall ELSE [k EXCEPT !.kind = "get"]

Reload(t) ==
  /\ csrf' = [csrf EXCEPT ![t] = "null"]
  /\ call' = [c \in Calls |-> IF call[c] # NoCall /\ call[c].tab = t THEN Orphan(call[c]) ELSE call[c]]
  /\ UNCHANGED <<jar, tangled, limits>>

(* The browser is closed: the cookies have no lifetime of their own. *)
CloseBrowser ==
  /\ jar' = [secret |-> 0, xsrf |-> 0]
  /\ csrf' = [t \in Tabs |-> "null"]
  /\ call' = [c \in Calls |-> NoCall]
  /\ tangled' = FALSE
  /\ UNCHANGED limits

-----------------------------------------------------------------------------
Browser == <<jar, csrf, call, tangled>>

Tick == TickLimits /\ UNCHANGED Browser
Restart == ForgetLimits /\ UNCHANGED Browser

Next ==
  \/ \E c \in Calls, t \in Tabs, ip \in Addresses : SendGet(c, t, ip) \/ Fetch(c, t, ip)
  \/ \E c \in Calls, t \in Tabs : Begin(c, t)
  \/ \E c \in Calls, user \in Accounts, ip \in Addresses : SendPost(c, user, ip)
  \/ \E c \in Calls : Receive(c) \/ Lose(c)
  \/ \E t \in Tabs : Reload(t)
  \/ CloseBrowser \/ Tick \/ Restart

Spec == Init /\ [][Next]_vars

-----------------------------------------------------------------------------
(* Of a tab at most one fetch is under way, and just then the tab waits for it. *)
OneFetch ==
  \A t \in Tabs :
    /\ csrf[t] = "pending" <=> \E c \in Calls : call[c].kind = "fetch" /\ call[c].tab = t
    /\ \A c, d \in Calls : /\ call[c].kind = "fetch" /\ call[d].kind = "fetch"
                          /\ call[c].tab = t /\ call[d].tab = t
                         => c = d

TypeOK ==
  /\ jar \in [secret : 0..MaxSecret, xsrf : 0..MaxSecret]
  /\ csrf \in [Tabs -> CsrfStates]
  /\ call \in [Calls -> {NoCall} \cup {Waiting(t) : t \in Tabs}
                        \cup [kind : Kinds, tab : Tabs, status : Statuses, secret : 0..MaxSecret,
                              xsrf : 0..MaxSecret]]
  /\ tangled \in BOOLEAN
  /\ LimitsTypeOK
  /\ OneFetch

(* 300 requests of an address and 5 sensitive actions of a user in 15 minutes
   (rateLimiters.js:17 and :49), and always less than twice that in a span as long as a
   window, however the windows lie and wherever the requests of the user come from. *)
Budgets == \A k \in Keys : LessThanTwice(k)

(* csurf refuses a request of the application only when the fetch of the token failed in
   its tab (client.js:25 remembers that until the page is loaded again), or when
   requests without a secret were under way together, so that the answer of one replaced
   the secret of the other. *)
RefusedOnlyAfterTrouble ==
  [][\A c \in Calls :
       call[c].kind = "wait" /\ call'[c].kind = "post" /\ call'[c].status = "forbidden" =>
         tangled \/ csrf[call[c].tab] = "failed"]_vars
=============================================================================
