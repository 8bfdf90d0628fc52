----------------------------- MODULE GateProofs -----------------------------
(***************************************************************************)
(* Proofs about Gate, for any number of tabs, requests, addresses, users   *)
(* and secrets.                                                            *)
(***************************************************************************)
EXTENDS Integers, Gate, TLAPS

CallValues == {NoCall} \cup {Waiting(t) : t \in Tabs}
                \cup [kind : Kinds, tab : Tabs, status : Statuses, secret : 0..MaxSecret,
                      xsrf : 0..MaxSecret]

(* What sending a request of tab t in slot c does to the slot: its answer brings a secret
   only if the jar has none, a token of that secret or of the one in the jar, and a
   refusal by csurf only if the token is not of the secret in the jar. *)
Sent(c, kind, t) ==
  \E st \in Statuses, sec, xs \in 0..MaxSecret :
    /\ call' = [call EXCEPT ![c] = Answer(kind, t, st, sec, xs)]
    /\ sec # 0 => jar.secret = 0
    /\ xs # 0 => xs = IF sec # 0 THEN sec ELSE jar.secret
    /\ kind = "fetch" /\ st = "ok" => xs # 0
    /\ st = "forbidden" => jar.secret = 0 \/ jar.xsrf # jar.secret

(* What holds of the cookies as long as no two answers with a new secret each have been
   under way together. *)
Cookies ==
  ~tangled =>
    /\ \A c, d \in Calls : Brings(c) /\ Brings(d) => c = d
    /\ jar.secret # 0 => \A c \in Calls : ~Brings(c)
    /\ jar.xsrf # 0 => jar.xsrf = jar.secret
    /\ \A c \in Calls :
         /\ call[c].xsrf # 0 =>
              call[c].xsrf = IF Brings(c) THEN call[c].secret ELSE jar.secret
         /\ call[c].kind = "fetch" /\ call[c].status = "ok" => call[c].xsrf # 0
    /\ \A t \in Tabs : csrf[t] = "fetched" => jar.xsrf # 0

GInv == TypeOK /\ Cookies

(* The requests of a window that were admitted. *)
Used(k) == IF window[k].hits < Limit(k) THEN window[k].hits ELSE Limit(k)

(* What a span of n ticks may add to what the window has counted: less than one limit when
   it reaches back beyond the window, and when it is shorter, the first request is outside. *)
Beyond(k, n) ==
  IF n > window[k].age + 1 THEN Limit(k) - 1 ELSE IF n = window[k].age + 1 THEN 0 ELSE -1

(* What was admitted since the window began is what it has counted.  With no window, it is
   less than one limit, since the request that began the last one is forgotten. *)
WithinLimit(k) ==
  IF Over(window[k])
  THEN recent[k][1] = 0 /\ \A n \in Ticks : recent[k][n] < Limit(k)
  ELSE window[k].hits >= 1 /\ \A n \in Ticks : recent[k][n] <= Used(k) + Beyond(k, n)

LInv == \A k \in Keys : WithinLimit(k)

(* A request is counted for some keys and admitted for those of them that have room. *)
Charged ==
  \E keys \in SUBSET Keys :
    /\ Count(keys)
    /\ \E served \in SUBSET Keys :
         /\ \A k \in Keys : k \in served => k \in keys
         /\ \A k \in keys : k \in served <=> Admitted(k)
         /\ Served(served)

-----------------------------------------------------------------------------
(* The limiters *)

LEMMA LimitsPositive ==
  GlobalMax \in Nat \ {0} /\ SensitiveMax \in Nat \ {0} /\ WindowTicks \in Nat \ {0}
BY LimitsTyped

(* Counting a request keeps the windows in their bounds. *)
LEMMA HitTyped ==
  ASSUME LimitsTypeOK, NEW k \in Keys
  PROVE  Hit(k) \in [hits : 0..GlobalMax + SensitiveMax, age : 0..WindowTicks]
<1> USE LimitsPositive DEF LimitsTypeOK
<1>1. Limit(k) \in Nat /\ Limit(k) + 1 <= GlobalMax + SensitiveMax
  BY DEF Limit
<1>2. window[k] \in [hits : 0..GlobalMax + SensitiveMax, age : 0..WindowTicks]
  OBVIOUS
<1>3. CASE Over(window[k])
  <2>1. 1 \in 0..GlobalMax + SensitiveMax /\ 0 \in 0..WindowTicks
    OBVIOUS
  <2>2. Hit(k) = [hits |-> 1, age |-> 0]
    BY <1>3 DEF Hit
  <2> QED BY <2>1, <2>2
<1>4. CASE ~Over(window[k]) /\ window[k].hits > Limit(k)
  BY <1>4, <1>2 DEF Hit
<1>5. CASE ~Over(window[k]) /\ ~(window[k].hits > Limit(k))
  BY <1>5, <1>1, <1>2 DEF Hit
<1> QED BY <1>3, <1>4, <1>5

LEMMA CountTyped ==
  ASSUME LimitsTypeOK, NEW keys, Count(keys)
  PROVE  window' \in [Keys -> [hits : 0..GlobalMax + SensitiveMax, age : 0..WindowTicks]]
<1>1. \A k \in Keys : Hit(k) \in [hits : 0..GlobalMax + SensitiveMax, age : 0..WindowTicks]
  BY HitTyped
<1> QED BY <1>1 DEF Count, LimitsTypeOK

LEMMA ServedTyped ==
  ASSUME LimitsTypeOK, NEW keys, Served(keys)
  PROVE  recent' \in [Keys -> [Ticks -> Nat]]
<1>1. \A k \in Keys, n \in Ticks : recent[k][n] \in Nat
  BY DEF LimitsTypeOK
<1> QED BY <1>1 DEF Served

LEMMA TickTyped ==
  ASSUME LimitsTypeOK, TickLimits
  PROVE  LimitsTypeOK'
<1> USE LimitsPositive DEF LimitsTypeOK
<1>1. window' \in [Keys -> [hits : 0..GlobalMax + SensitiveMax, age : 0..WindowTicks]]
  <2>1. \A k \in Keys : window[k] \in [hits : 0..GlobalMax + SensitiveMax, age : 0..WindowTicks]
    OBVIOUS
  <2>2. NoWindow \in [hits : 0..GlobalMax + SensitiveMax, age : 0..WindowTicks]
    BY DEF NoWindow
  <2>3. \A k \in Keys : ~(window[k].age + 1 >= WindowTicks) =>
          [window[k] EXCEPT !.age = @ + 1] \in [hits : 0..GlobalMax + SensitiveMax, age : 0..WindowTicks]
    BY <2>1
  <2> QED BY <2>2, <2>3 DEF TickLimits
<1>2. recent' \in [Keys -> [Ticks -> Nat]]
  <2>1. \A k \in Keys, n \in Ticks : n # 1 => recent[k][n - 1] \in Nat
    <3> SUFFICES ASSUME NEW k \in Keys, NEW n \in Ticks, n # 1
                 PROVE  recent[k][n - 1] \in Nat
      OBVIOUS
    <3>1. n - 1 \in Ticks
      BY DEF Ticks
    <3>2. recent[k] \in [Ticks -> Nat]
      OBVIOUS
    <3> QED BY <3>1, <3>2
  <2> QED BY <2>1 DEF TickLimits
<1> QED BY <1>1, <1>2

LEMMA ForgetTyped ==
  ASSUME ForgetLimits
  PROVE  LimitsTypeOK'
BY LimitsPositive DEF ForgetLimits, LimitsTypeOK, NoWindow

-----------------------------------------------------------------------------
(* csurf *)

(* While there is room, the secret of a request is one. *)
LEMMA SecretTyped ==
  ASSUME TypeOK, Room
  PROVE  /\ csurf.secret \in 1..MaxSecret
         /\ csurf.set \in 0..MaxSecret
         /\ csurf.set # 0 => jar.secret = 0 /\ csurf.set = csurf.secret
         /\ csurf.set = 0 => jar.secret # 0 /\ csurf.secret = jar.secret
<1>1. jar.secret \in 0..MaxSecret
  BY DEF TypeOK
<1>2. CASE jar.secret # 0
  BY <1>1, <1>2, MaxSecretTyped DEF csurf
<1>3. CASE jar.secret = 0
  <2>1. Fresh \in 1..MaxSecret
    BY <1>3 DEF Room, Fresh, Secrets
  <2> QED BY <1>3, <2>1, MaxSecretTyped DEF csurf
<1> QED BY <1>2, <1>3

LEMMA GetSends ==
  ASSUME TypeOK, Room, NEW c \in Calls, NEW kind \in {"get", "fetch"}, NEW t \in Tabs,
         NEW ip \in Addresses, Get(c, kind, t, ip)
  PROVE  Sent(c, kind, t) /\ LimitsTypeOK'
<1>0. 0 \in 0..MaxSecret /\ LimitsTypeOK
  BY MaxSecretTyped DEF TypeOK
<1>1. CASE Refuse(c, kind, t, ip)
  <2>1. Sent(c, kind, t)
    <3>1. /\ call' = [call EXCEPT ![c] = Answer(kind, t, "limited", 0, 0)]
          /\ "limited" \in Statuses
      BY <1>1 DEF Refuse, Statuses
    <3> QED BY <1>0, <3>1 DEF Sent
  <2>2. LimitsTypeOK'
    BY <1>0, <1>1, CountTyped DEF Refuse, LimitsTypeOK
  <2> QED BY <2>1, <2>2
<1>2. CASE ~Refuse(c, kind, t, ip)
  <2> DEFINE xs == IF kind = "fetch" THEN csurf.secret ELSE 0
  <2>1. Count({ip}) /\ Served({ip}) /\ call' = [call EXCEPT ![c] = Answer(kind, t, "ok", csurf.set, xs)]
    BY <1>2 DEF Get
  <2>2. Sent(c, kind, t)
    <3>1. /\ csurf.set \in 0..MaxSecret
          /\ xs \in 0..MaxSecret
          /\ csurf.set # 0 => jar.secret = 0
          /\ xs # 0 => xs = IF csurf.set # 0 THEN csurf.set ELSE jar.secret
          /\ kind = "fetch" => xs # 0
      BY <1>0, SecretTyped, MaxSecretTyped
    <3>2. "ok" \in Statuses
      BY DEF Statuses
    <3> HIDE DEF xs
    <3> QED BY <2>1, <3>1, <3>2 DEF Sent
  <2>3. LimitsTypeOK'
    BY <1>0, <2>1, CountTyped, ServedTyped DEF LimitsTypeOK
  <2> QED BY <2>2, <2>3
<1> QED BY <1>1, <1>2

LEMMA PostSends ==
  ASSUME TypeOK, Room, NEW c \in Calls, NEW t \in Tabs, NEW user \in Accounts,
         NEW ip \in Addresses, Post(c, t, user, ip)
  PROVE  Sent(c, "post", t) /\ LimitsTypeOK'
<1>0. 0 \in 0..MaxSecret /\ LimitsTypeOK
  BY MaxSecretTyped DEF TypeOK
<1>1. PICK st \in Statuses, sec \in {0, csurf.set} :
        /\ call' = [call EXCEPT ![c] = Answer("post", t, st, sec, 0)]
        /\ st = "forbidden" => ~Verified(csurf.secret)
  <2>1. {"limited", "forbidden", "ok"} \subseteq Statuses
    BY DEF Statuses
  <2> QED BY <2>1 DEF Post, Refuse
<1>2. Sent(c, "post", t)
  <2>1. sec \in 0..MaxSecret /\ (sec # 0 => jar.secret = 0)
    BY <1>0, SecretTyped
  <2>2. st = "forbidden" => jar.secret = 0 \/ jar.xsrf # jar.secret
    BY <1>1, SecretTyped DEF Verified
  <2> QED BY <1>0, <1>1, <2>1, <2>2 DEF Sent
<1>3. window' \in [Keys -> [hits : 0..GlobalMax + SensitiveMax, age : 0..WindowTicks]]
  <2>1. PICK keys : Count(keys)
    BY DEF Post, Refuse
  <2> QED BY <1>0, <2>1, CountTyped
<1>4. recent' \in [Keys -> [Ticks -> Nat]]
  <2>1. CASE UNCHANGED recent
    BY <1>0, <2>1 DEF LimitsTypeOK
  <2>2. ASSUME NEW keys, Served(keys)
        PROVE  recent' \in [Keys -> [Ticks -> Nat]]
    BY <1>0, <2>2, ServedTyped
  <2> QED BY <2>1, <2>2 DEF Post, Refuse
<1> QED BY <1>2, <1>3, <1>4 DEF LimitsTypeOK

-----------------------------------------------------------------------------
(* Types *)

(* Every variable keeps its type, and of a tab at most one fetch of the token is under way
   (client.js:16-28). *)
THEOREM TypesHold == Spec => []TypeOK
<1>0. 0 \in 0..MaxSecret /\ NoCall.kind # "fetch"
  BY MaxSecretTyped DEF NoCall, Answer
<1>1. ASSUME Init
      PROVE  TypeOK
  <2>1. LimitsTypeOK
    BY <1>1, LimitsPositive DEF Init, InitLimits, LimitsTypeOK, NoWindow
  <2>2. OneFetch
    BY <1>0, <1>1 DEF Init, OneFetch
  <2>3. jar \in [secret : 0..MaxSecret, xsrf : 0..MaxSecret]
    BY <1>0, <1>1 DEF Init
  <2> QED BY <1>1, <2>1, <2>2, <2>3 DEF Init, TypeOK, CsrfStates
<1>2. TypeOK /\ [Next]_vars => TypeOK'
  <2> SUFFICES ASSUME TypeOK, [Next]_vars
               PROVE  TypeOK'
    OBVIOUS
  <2>a. /\ jar \in [secret : 0..MaxSecret, xsrf : 0..MaxSecret]
        /\ csrf \in [Tabs -> CsrfStates]
        /\ call \in [Calls -> CallValues]
        /\ tangled \in BOOLEAN /\ LimitsTypeOK /\ OneFetch
    BY DEF TypeOK, CallValues
  <2>b. ASSUME jar' \in [secret : 0..MaxSecret, xsrf : 0..MaxSecret],
               csrf' \in [Tabs -> CsrfStates],
               call' \in [Calls -> CallValues],
               tangled' \in BOOLEAN, LimitsTypeOK', OneFetch'
        PROVE  TypeOK'
    BY <2>b DEF TypeOK, CallValues
  <2>c. ASSUME NEW c \in Calls, NEW kind \in Kinds, NEW t \in Tabs, Sent(c, kind, t)
        PROVE  call' \in [Calls -> CallValues]
    BY <2>a, <2>c DEF Sent, Answer, CallValues
  <2>d. NoCall \in CallValues /\ \A t \in Tabs : Waiting(t) \in CallValues
    BY DEF CallValues
  <2>e. NoCall.kind # "fetch" /\ \A t \in Tabs : Waiting(t).kind # "fetch"
    BY DEF NoCall, Waiting, Answer
  <2>1. ASSUME NEW c \in Calls, NEW t \in Tabs, NEW ip \in Addresses, SendGet(c, t, ip)
        PROVE  TypeOK'
    <3>1. Sent(c, "get", t) /\ LimitsTypeOK'
      BY <2>1, GetSends DEF SendGet
    <3>2. OneFetch'
      BY <2>a, <2>1, <3>1, <2>e DEF SendGet, Sent, Answer, OneFetch
    <3> QED BY <2>a, <2>b, <2>c, <2>1, <3>1, <3>2 DEF SendGet, Tangles, Kinds
  <2>2. ASSUME NEW c \in Calls, NEW t \in Tabs, NEW ip \in Addresses, Fetch(c, t, ip)
        PROVE  TypeOK'
    <3>1. Sent(c, "fetch", t) /\ LimitsTypeOK'
      BY <2>2, GetSends DEF Fetch
    <3>2. csrf' \in [Tabs -> CsrfStates]
      BY <2>a, <2>2 DEF Fetch, CsrfStates
    <3>3. OneFetch'
      <4>1. \A d \in Calls : ~(call[d].kind = "fetch" /\ call[d].tab = t)
        BY <2>a, <2>2 DEF Fetch, NoFetchYet, OneFetch
      <4>2. /\ call'[c].kind = "fetch" /\ call'[c].tab = t
            /\ \A d \in Calls : d # c => call'[d] = call[d]
            /\ call[c].kind # "fetch"
        BY <2>a, <2>2, <3>1, <2>e DEF Fetch, Sent, Answer
      <4>3. csrf'[t] = "pending" /\ \A s \in Tabs : s # t => csrf'[s] = csrf[s]
        BY <2>a, <2>2 DEF Fetch
      <4> QED BY <2>a, <4>1, <4>2, <4>3 DEF OneFetch
    <3> QED BY <2>a, <2>b, <2>c, <2>2, <3>1, <3>2, <3>3 DEF Fetch, Tangles, Kinds
  <2>3. ASSUME NEW c \in Calls, NEW t \in Tabs, Begin(c, t)
        PROVE  TypeOK'
    <3>1. call' \in [Calls -> CallValues]
      BY <2>a, <2>d, <2>3 DEF Begin
    <3>2. OneFetch'
      BY <2>a, <2>3, <2>e DEF Begin, OneFetch
    <3> QED BY <2>a, <2>b, <2>3, <3>1, <3>2 DEF Begin, limits, LimitsTypeOK
  <2>4. ASSUME NEW c \in Calls, NEW user \in Accounts, NEW ip \in Addresses,
               SendPost(c, user, ip)
        PROVE  TypeOK'
    <3>0. call[c].tab \in Tabs
      BY <2>a, <2>4 DEF SendPost, CallValues, Waiting, NoCall, Answer
    <3>1. Sent(c, "post", call[c].tab) /\ LimitsTypeOK'
      BY <2>4, <3>0, PostSends DEF SendPost
    <3>2. OneFetch'
      BY <2>a, <2>4, <3>1, <2>e DEF SendPost, Sent, Answer, OneFetch
    <3> QED BY <2>a, <2>b, <2>c, <2>4, <3>0, <3>1, <3>2 DEF SendPost, Tangles, Kinds
  <2>5. ASSUME NEW c \in Calls, NEW outcome \in {"fetched", "failed"},
               Under(c), Settle(c, outcome), call' = [call EXCEPT ![c] = NoCall]
        PROVE  csrf' \in [Tabs -> CsrfStates] /\ call' \in [Calls -> CallValues] /\ OneFetch'
    <3>1. csrf' \in [Tabs -> CsrfStates]
      BY <2>a, <2>5 DEF Settle, CsrfStates
    <3>2. call' \in [Calls -> CallValues]
      BY <2>a, <2>d, <2>5
    <3>3. OneFetch'
      <4>1. /\ call'[c].kind # "fetch"
            /\ \A d \in Calls : d # c => call'[d] = call[d]
        BY <2>a, <2>5, <2>e
      <4>2. CASE call[c].kind = "fetch"
        <5>1. call[c].tab \in Tabs
          BY <2>a, <4>2 DEF CallValues, Waiting, NoCall, Answer
        <5>2. /\ csrf'[call[c].tab] # "pending"
              /\ \A s \in Tabs : s # call[c].tab => csrf'[s] = csrf[s]
          BY <2>a, <2>5, <4>2, <5>1 DEF Settle
        <5> QED BY <2>a, <4>1, <4>2, <5>1, <5>2 DEF OneFetch
      <4>3. CASE call[c].kind # "fetch"
        <5>1. csrf' = csrf
          BY <2>5, <4>3 DEF Settle
        <5> QED BY <2>a, <4>1, <4>3, <5>1 DEF OneFetch
      <4> QED BY <4>2, <4>3
    <3> QED BY <3>1, <3>2, <3>3
  <2>6. ASSUME NEW c \in Calls, Receive(c)
        PROVE  TypeOK'
    <3>1. csrf' \in [Tabs -> CsrfStates] /\ call' \in [Calls -> CallValues] /\ OneFetch'
      BY <2>5, <2>6 DEF Receive
    <3>2. jar' \in [secret : 0..MaxSecret, xsrf : 0..MaxSecret]
      <4>1. call[c].secret \in 0..MaxSecret /\ call[c].xsrf \in 0..MaxSecret
        BY <2>a, MaxSecretTyped DEF CallValues, Waiting, NoCall, Answer
      <4> QED BY <2>a, <2>6, <4>1 DEF Receive, Set
    <3> QED BY <2>a, <2>b, <2>6, <3>1, <3>2 DEF Receive, limits, LimitsTypeOK
  <2>7. ASSUME NEW c \in Calls, Lose(c)
        PROVE  TypeOK'
    <3>1. csrf' \in [Tabs -> CsrfStates] /\ call' \in [Calls -> CallValues] /\ OneFetch'
      BY <2>5, <2>7 DEF Lose
    <3> QED BY <2>a, <2>b, <2>7, <3>1 DEF Lose, limits, LimitsTypeOK
  <2>8. ASSUME NEW t \in Tabs, Reload(t)
        PROVE  TypeOK'
    <3>1. \A c \in Calls : call[c] # NoCall =>
            Orphan(call[c]) \in CallValues /\ Orphan(call[c]).kind # "fetch"
      <4> SUFFICES ASSUME NEW c \in Calls, call[c] # NoCall
                   PROVE  Orphan(call[c]) \in CallValues /\ Orphan(call[c]).kind # "fetch"
        OBVIOUS
      <4>1. CASE call[c].kind = "wait"
        BY <4>1, <2>d, <2>e DEF Orphan
      <4>2. CASE call[c].kind # "wait"
        <5>1. call[c] \in [kind : Kinds, tab : Tabs, status : Statuses, secret : 0..MaxSecret,
                           xsrf : 0..MaxSecret]
          BY <2>a, <4>2 DEF CallValues, Waiting, Answer
        <5>2. [call[c] EXCEPT !.kind = "get"] \in [kind : Kinds, tab : Tabs, status : Statuses,
                                                  secret : 0..MaxSecret, xsrf : 0..MaxSecret]
          BY <5>1 DEF Kinds
        <5>3. [call[c] EXCEPT !.kind = "get"].kind = "get"
          BY <5>1
        <5> QED BY <4>2, <5>2, <5>3 DEF Orphan, CallValues
      <4> QED BY <4>1, <4>2
    <3>2. call' \in [Calls -> CallValues]
      BY <2>a, <2>8, <3>1 DEF Reload
    <3>3. csrf' \in [Tabs -> CsrfStates]
      BY <2>a, <2>8 DEF Reload, CsrfStates
    <3>4. OneFetch'
      <4>1. \A c \in Calls : call'[c].kind = "fetch" => call[c].tab # t /\ call'[c] = call[c]
        BY <2>8, <3>1, <2>e DEF Reload
      <4>2. \A c \in Calls : call[c].kind = "fetch" /\ call[c].tab # t => call'[c] = call[c]
        BY <2>8 DEF Reload
      <4>3. csrf'[t] # "pending" /\ \A s \in Tabs : s # t => csrf'[s] = csrf[s]
        BY <2>a, <2>8 DEF Reload
      <4> QED BY <2>a, <4>1, <4>2, <4>3 DEF OneFetch
    <3> QED BY <2>a, <2>b, <2>8, <3>2, <3>3, <3>4 DEF Reload, limits, LimitsTypeOK
  <2>9. CASE CloseBrowser
    <3>1. OneFetch'
      BY <2>9, <2>e DEF CloseBrowser, OneFetch
    <3>2. jar' \in [secret : 0..MaxSecret, xsrf : 0..MaxSecret]
      BY <1>0, <2>9 DEF CloseBrowser
    <3>3. csrf' \in [Tabs -> CsrfStates] /\ call' \in [Calls -> CallValues]
      BY <2>d, <2>9 DEF CloseBrowser, CsrfStates
    <3> QED BY <2>a, <2>b, <2>9, <3>1, <3>2, <3>3 DEF CloseBrowser, limits, LimitsTypeOK
  <2>10. CASE Tick \/ Restart
    BY <2>10, <2>a, TickTyped, ForgetTyped DEF Tick, Restart, Browser, TypeOK, OneFetch
  <2>11. CASE UNCHANGED vars
    BY <2>11 DEF vars, limits, TypeOK, LimitsTypeOK, OneFetch
  <2> QED BY <2>1, <2>2, <2>3, <2>4, <2>6, <2>7, <2>8, <2>9, <2>10, <2>11 DEF Next
<1> QED BY <1>1, <1>2, PTL DEF Spec

-----------------------------------------------------------------------------
(* The cookies *)

LEMMA InitCookies == Init => Cookies
BY DEF Init, Cookies, Brings, NoCall, Answer

(* A request is sent: the tangle is noticed, and the jar is as it was. *)
LEMMA SendKeepsCookies ==
  ASSUME TypeOK, Cookies, NEW c \in Calls, NEW kind, NEW t, Sent(c, kind, t),
         Tangles, UNCHANGED jar, csrf' = csrf \/ csrf' = [csrf EXCEPT ![t] = "pending"]
  PROVE  Cookies'
<1> SUFFICES ASSUME ~tangled'
             PROVE  /\ \A d, e \in Calls : Brings(d)' /\ Brings(e)' => d = e
                    /\ jar'.secret # 0 => \A d \in Calls : ~Brings(d)'
                    /\ jar'.xsrf # 0 => jar'.xsrf = jar'.secret
                    /\ \A d \in Calls :
                         /\ call'[d].xsrf # 0 =>
                              call'[d].xsrf = IF Brings(d)' THEN call'[d].secret ELSE jar'.secret
                         /\ call'[d].kind = "fetch" /\ call'[d].status = "ok" => call'[d].xsrf # 0
                    /\ \A s \in Tabs : csrf'[s] = "fetched" => jar'.xsrf # 0
  BY DEF Cookies
<1>0. ~tangled /\ \A d, e \in Calls : Brings(d)' /\ Brings(e)' => d = e
  BY DEF Tangles
<1>1. PICK st \in Statuses, sec, xs \in 0..MaxSecret :
        /\ call' = [call EXCEPT ![c] = Answer(kind, t, st, sec, xs)]
        /\ sec # 0 => jar.secret = 0
        /\ xs # 0 => xs = IF sec # 0 THEN sec ELSE jar.secret
        /\ kind = "fetch" /\ st = "ok" => xs # 0
  BY DEF Sent
<1>2. /\ call'[c] = Answer(kind, t, st, sec, xs)
      /\ \A d \in Calls : d # c => call'[d] = call[d]
  BY <1>1 DEF TypeOK
<1>3. \A d \in Calls : d # c => Brings(d)' = Brings(d)
  BY <1>2 DEF Brings
<1>4. /\ call'[c].kind = kind /\ call'[c].status = st
      /\ call'[c].secret = sec /\ call'[c].xsrf = xs
  BY <1>2 DEF Answer
<1>5. jar'.secret # 0 => \A d \in Calls : ~Brings(d)'
  BY <1>0, <1>1, <1>3, <1>4 DEF Cookies, Brings
<1>6. ASSUME NEW d \in Calls
      PROVE  /\ call'[d].xsrf # 0 =>
                  call'[d].xsrf = IF Brings(d)' THEN call'[d].secret ELSE jar'.secret
             /\ call'[d].kind = "fetch" /\ call'[d].status = "ok" => call'[d].xsrf # 0
  <2>1. CASE d = c
    BY <1>1, <1>4, <2>1 DEF Brings
  <2>2. CASE d # c
    BY <1>0, <1>2, <1>3, <2>2 DEF Cookies
  <2> QED BY <2>1, <2>2
<1>7. \A s \in Tabs : csrf'[s] = "fetched" => csrf[s] = "fetched"
  BY DEF TypeOK
<1> QED BY <1>0, <1>5, <1>6, <1>7 DEF Cookies

(* The slots keep what they hold or are given back: nothing new is brought. *)
LEMMA FreeKeepsCookies ==
  ASSUME Cookies, UNCHANGED <<jar, tangled>>,
         \A d \in Calls : \/ call'[d].secret = 0 /\ call'[d].xsrf = 0 /\ call'[d].kind # "fetch"
                          \/ /\ call'[d].secret = call[d].secret /\ call'[d].xsrf = call[d].xsrf
                             /\ call'[d].status = call[d].status
                             /\ call'[d].kind = "fetch" => call[d].kind = "fetch",
         \A s \in Tabs : csrf'[s] = "fetched" => csrf[s] = "fetched"
  PROVE  Cookies'
<1>1. \A d \in Calls : Brings(d)' => Brings(d) /\ call'[d].secret = call[d].secret
  BY DEF Brings
<1>2. \A d \in Calls : call'[d].xsrf # 0 => call'[d].xsrf = call[d].xsrf /\ Brings(d)' = Brings(d)
  BY DEF Brings
<1> QED BY <1>1, <1>2 DEF Cookies

(* An answer arrives. *)
LEMMA ReceiveKeepsCookies ==
  ASSUME TypeOK, Cookies, NEW c \in Calls, Receive(c)
  PROVE  Cookies'
<1> SUFFICES ASSUME ~tangled'
             PROVE  /\ \A d, e \in Calls : Brings(d)' /\ Brings(e)' => d = e
                    /\ jar'.secret # 0 => \A d \in Calls : ~Brings(d)'
                    /\ jar'.xsrf # 0 => jar'.xsrf = jar'.secret
                    /\ \A d \in Calls :
                         /\ call'[d].xsrf # 0 =>
                              call'[d].xsrf = IF Brings(d)' THEN call'[d].secret ELSE jar'.secret
                         /\ call'[d].kind = "fetch" /\ call'[d].status = "ok" => call'[d].xsrf # 0
                    /\ \A s \in Tabs : csrf'[s] = "fetched" => jar'.xsrf # 0
  BY DEF Cookies
<1>0. ~tangled
  BY DEF Receive
<1>1. /\ jar'.secret = IF Brings(c) THEN call[c].secret ELSE jar.secret
      /\ jar'.xsrf = IF call[c].xsrf = 0 THEN jar.xsrf ELSE call[c].xsrf
  BY DEF Receive, Set, Brings
<1>2. /\ call'[c] = NoCall
      /\ \A d \in Calls : d # c => call'[d] = call[d]
  BY DEF Receive, TypeOK
<1>3. /\ ~Brings(c)' /\ call'[c].xsrf = 0 /\ call'[c].kind # "fetch"
      /\ \A d \in Calls : d # c => Brings(d)' = Brings(d)
  BY <1>2 DEF Brings, NoCall, Answer
<1>4. \A d, e \in Calls : Brings(d)' /\ Brings(e)' => d = e
  BY <1>0, <1>3 DEF Cookies
<1>5. jar'.secret # 0 => \A d \in Calls : ~Brings(d)'
  BY <1>0, <1>1, <1>3 DEF Cookies
<1>6. jar'.xsrf # 0 => jar'.xsrf = jar'.secret
  <2>1. CASE call[c].xsrf # 0
    BY <1>0, <1>1, <2>1 DEF Cookies
  <2>2. CASE call[c].xsrf = 0
    BY <1>0, <1>1, <2>2 DEF Cookies
  <2> QED BY <2>1, <2>2
<1>7. ASSUME NEW d \in Calls
      PROVE  /\ call'[d].xsrf # 0 =>
                  call'[d].xsrf = IF Brings(d)' THEN call'[d].secret ELSE jar'.secret
             /\ call'[d].kind = "fetch" /\ call'[d].status = "ok" => call'[d].xsrf # 0
  <2>1. CASE d = c
    BY <1>3, <2>1
  <2>2. CASE d # c
    <3>1. call[d].xsrf # 0 =>
            call[d].xsrf = IF Brings(d) THEN call[d].secret ELSE jar.secret
      BY <1>0 DEF Cookies
    <3>2. call[d].xsrf # 0 /\ ~Brings(d) => jar'.secret = jar.secret
      BY <1>0, <1>1, <3>1 DEF Cookies
    <3> QED BY <1>0, <1>2, <1>3, <2>2, <3>1, <3>2 DEF Cookies
  <2> QED BY <2>1, <2>2
<1>8. ASSUME NEW s \in Tabs, csrf'[s] = "fetched"
      PROVE  jar'.xsrf # 0
  <2>1. csrf[s] = "fetched" \/ (call[c].kind = "fetch" /\ call[c].status = "ok")
    BY <1>8 DEF Receive, Settle, TypeOK
  <2> QED BY <1>0, <1>1, <2>1 DEF Cookies
<1> QED BY <1>4, <1>5, <1>6, <1>7, <1>8

LEMMA NextKeepsCookies ==
  ASSUME TypeOK, Cookies, [Next]_vars
  PROVE  Cookies'
<1>0. NoCall.secret = 0 /\ NoCall.xsrf = 0 /\ NoCall.kind # "fetch"
  BY DEF NoCall, Answer
<1>a. \A t : Waiting(t).secret = 0 /\ Waiting(t).xsrf = 0 /\ Waiting(t).kind # "fetch"
  BY DEF Waiting, Answer
<1>1. ASSUME NEW c \in Calls, NEW t \in Tabs, NEW ip \in Addresses, SendGet(c, t, ip)
      PROVE  Cookies'
  BY <1>1, GetSends, SendKeepsCookies DEF SendGet
<1>2. ASSUME NEW c \in Calls, NEW t \in Tabs, NEW ip \in Addresses, Fetch(c, t, ip)
      PROVE  Cookies'
  BY <1>2, GetSends, SendKeepsCookies DEF Fetch
<1>3. ASSUME NEW c \in Calls, NEW t \in Tabs, Begin(c, t)
      PROVE  Cookies'
  <2>1. /\ call'[c] = Waiting(t)
        /\ \A d \in Calls : d # c => call'[d] = call[d]
    BY <1>3 DEF Begin, TypeOK
  <2> QED BY <1>3, <1>a, <2>1, FreeKeepsCookies DEF Begin
<1>4. ASSUME NEW c \in Calls, NEW user \in Accounts, NEW ip \in Addresses, SendPost(c, user, ip)
      PROVE  Cookies'
  <2>1. call[c].tab \in Tabs
    BY <1>4 DEF SendPost, TypeOK, Waiting, NoCall, Answer
  <2> QED BY <1>4, <2>1, PostSends, SendKeepsCookies DEF SendPost
<1>5. ASSUME NEW c \in Calls, Receive(c)
      PROVE  Cookies'
  BY <1>5, ReceiveKeepsCookies
<1>6. ASSUME NEW c \in Calls, Lose(c)
      PROVE  Cookies'
  <2>1. /\ call'[c] = NoCall
        /\ \A d \in Calls : d # c => call'[d] = call[d]
    BY <1>6 DEF Lose, TypeOK
  <2>2. \A s \in Tabs : csrf'[s] = "fetched" => csrf[s] = "fetched"
    BY <1>6 DEF Lose, Settle, TypeOK
  <2> QED BY <1>0, <1>6, <2>1, <2>2, FreeKeepsCookies DEF Lose
<1>7. ASSUME NEW t \in Tabs, Reload(t)
      PROVE  Cookies'
  <2>1. \A s \in Tabs : csrf'[s] = "fetched" => csrf[s] = "fetched"
    BY <1>7 DEF Reload, TypeOK
  <2>2. ASSUME NEW d \in Calls
        PROVE  \/ call'[d].secret = 0 /\ call'[d].xsrf = 0 /\ call'[d].kind # "fetch"
               \/ /\ call'[d].secret = call[d].secret /\ call'[d].xsrf = call[d].xsrf
                  /\ call'[d].status = call[d].status
                  /\ call'[d].kind = "fetch" => call[d].kind = "fetch"
    <3>1. CASE call'[d] = call[d]
      BY <3>1
    <3>2. CASE call'[d] = NoCall
      BY <1>0, <3>2
    <3>3. CASE call'[d] = [call[d] EXCEPT !.kind = "get"] /\ call[d].kind # "wait" /\ call[d] # NoCall
      <4>1. call[d] \in [kind : Kinds, tab : Tabs, status : Statuses, secret : 0..MaxSecret,
                         xsrf : 0..MaxSecret]
        BY <3>3 DEF TypeOK, Waiting, Answer
      <4> QED BY <3>3, <4>1
    <3> QED BY <1>7, <3>1, <3>2, <3>3 DEF Reload, Orphan
  <2> QED BY <1>7, <2>1, <2>2, FreeKeepsCookies DEF Reload
<1>8. CASE CloseBrowser
  BY <1>0, <1>8 DEF CloseBrowser, Cookies, Brings
<1>9. CASE Tick \/ Restart \/ UNCHANGED vars
  BY <1>9 DEF Tick, Restart, Browser, vars, Cookies, Brings
<1> QED BY <1>1, <1>2, <1>3, <1>4, <1>5, <1>6, <1>7, <1>8, <1>9 DEF Next

(* The budgets *)

LEMMA LimitTyped ==
  ASSUME NEW k \in Keys
  PROVE  Limit(k) \in Nat /\ Limit(k) >= 1
BY LimitsPositive DEF Limit

LEMMA ChargedKeepsLimits ==
  ASSUME LimitsTypeOK, LInv, Charged
  PROVE  LInv'
<1> SUFFICES ASSUME NEW k \in Keys
             PROVE  WithinLimit(k)'
  BY DEF LInv
<1>0. /\ Limit(k) \in Nat /\ Limit(k) >= 1
      /\ WindowTicks \in Nat \ {0} /\ Ticks = 1..WindowTicks /\ 1 \in Ticks
      /\ Limit(k)' = Limit(k)
  BY LimitTyped, LimitsPositive DEF Ticks, Limit
<1>1. /\ window[k] \in [hits : Nat, age : 0..WindowTicks]
      /\ \A n \in Ticks : recent[k][n] \in Nat
      /\ WithinLimit(k)
  <2>1. window[k] \in [hits : 0..GlobalMax + SensitiveMax, age : 0..WindowTicks]
    BY DEF LimitsTypeOK
  <2> QED BY <2>1 DEF LimitsTypeOK, LInv
<1>2. PICK keys \in SUBSET Keys, served \in SUBSET Keys :
        /\ Count(keys) /\ Served(served)
        /\ k \in served => k \in keys
        /\ k \in keys => (k \in served <=> Admitted(k))
  BY DEF Charged
<1>3. /\ window'[k] = IF k \in keys THEN Hit(k) ELSE window[k]
      /\ \A n \in Ticks : recent'[k][n] = IF k \in served THEN recent[k][n] + 1 ELSE recent[k][n]
  BY <1>2 DEF Count, Served
<1>4. CASE k \notin keys
  <2>1. window'[k] = window[k] /\ \A n \in Ticks : recent'[k][n] = recent[k][n]
    BY <1>2, <1>3, <1>4
  <2> QED BY <1>0, <1>1, <2>1 DEF WithinLimit, Beyond, Used, Over
<1>5. CASE k \in keys /\ Over(window[k])
  <2>1. Hit(k) = [hits |-> 1, age |-> 0]
    BY <1>5 DEF Hit
  <2>2. window'[k].hits = 1 /\ window'[k].age = 0 /\ k \in served
    BY <1>0, <1>2, <1>3, <1>5, <2>1 DEF Admitted
  <2>3. ~Over(window[k])' /\ Used(k)' = 1
    BY <1>0, <2>2 DEF Over, Used
  <2>4. recent[k][1] = 0 /\ \A n \in Ticks : recent[k][n] < Limit(k)
    BY <1>1, <1>5 DEF WithinLimit
  <2>5. ASSUME NEW n \in Ticks
        PROVE  recent'[k][n] <= 1 + Beyond(k, n)'
    <3>1. recent'[k][n] = recent[k][n] + 1
      BY <1>3, <2>2
    <3>2. Beyond(k, n)' = IF n = 1 THEN 0 ELSE Limit(k) - 1
      BY <1>0, <2>2 DEF Beyond
    <3> QED BY <1>0, <1>1, <2>4, <3>1, <3>2
  <2> QED BY <1>0, <2>2, <2>3, <2>5 DEF WithinLimit
<1>6. CASE k \in keys /\ ~Over(window[k])
  <2>1. /\ window'[k].age = window[k].age
        /\ window'[k].hits = IF window[k].hits > Limit(k) THEN window[k].hits ELSE window[k].hits + 1
    BY <1>1, <1>3, <1>6 DEF Hit
  <2>2. ~Over(window[k])'
    BY <1>6, <2>1 DEF Over
  <2>3. k \in served <=> window'[k].hits <= Limit(k)
    BY <1>2, <1>3, <1>6 DEF Admitted
  <2>4. Used(k)' = IF k \in served THEN Used(k) + 1 ELSE Used(k)
    BY <1>0, <1>1, <2>1, <2>3 DEF Used
  <2>5. window[k].hits >= 1 /\ \A n \in Ticks : recent[k][n] <= Used(k) + Beyond(k, n)
    BY <1>1, <1>6 DEF WithinLimit
  <2>6. Used(k) \in Nat
    BY <1>0, <1>1 DEF Used
  <2>7. ASSUME NEW n \in Ticks
        PROVE  recent'[k][n] <= Used(k)' + Beyond(k, n)'
    <3>1. recent[k][n] \in Nat /\ recent[k][n] <= Used(k) + Beyond(k, n)
      BY <1>1, <2>5
    <3>2. /\ recent'[k][n] = IF k \in served THEN recent[k][n] + 1 ELSE recent[k][n]
          /\ Used(k)' = IF k \in served THEN Used(k) + 1 ELSE Used(k)
      BY <1>3, <2>4
    <3>3. Beyond(k, n) \in Int /\ Beyond(k, n)' = Beyond(k, n)
      BY <1>0, <2>1 DEF Beyond
    <3> QED BY <2>6, <3>1, <3>2, <3>3
  <2>8. window'[k].hits >= 1
    BY <1>0, <1>1, <2>1, <2>5
  <2> QED BY <1>0, <2>2, <2>7, <2>8 DEF WithinLimit
<1> QED BY <1>4, <1>5, <1>6

LEMMA TickKeepsLimits ==
  ASSUME LimitsTypeOK, LInv, TickLimits
  PROVE  LInv'
<1> SUFFICES ASSUME NEW k \in Keys
             PROVE  WithinLimit(k)'
  BY DEF LInv
<1>0. /\ Limit(k) \in Nat /\ Limit(k) >= 1
      /\ WindowTicks \in Nat \ {0} /\ Ticks = 1..WindowTicks /\ 1 \in Ticks
      /\ Limit(k)' = Limit(k)
  BY LimitTyped, LimitsPositive DEF Ticks, Limit
<1>1. /\ window[k] \in [hits : Nat, age : 0..WindowTicks]
      /\ \A n \in Ticks : recent[k][n] \in Nat
      /\ WithinLimit(k)
  <2>1. window[k] \in [hits : 0..GlobalMax + SensitiveMax, age : 0..WindowTicks]
    BY DEF LimitsTypeOK
  <2> QED BY <2>1 DEF LimitsTypeOK, LInv
<1>2. /\ window'[k] = IF window[k].age + 1 >= WindowTicks THEN NoWindow
                      ELSE [window[k] EXCEPT !.age = @ + 1]
      /\ \A n \in Ticks : recent'[k][n] = IF n = 1 THEN 0 ELSE recent[k][n - 1]
  BY DEF TickLimits
<1>3. Used(k) \in Nat /\ Used(k) <= Limit(k)
  BY <1>0, <1>1 DEF Used
<1>4. \A n \in Ticks : n # 1 => n - 1 \in Ticks
  BY <1>0
<1>5. CASE Over(window[k])
  <2>1. Over(window[k])'
    BY <1>0, <1>1, <1>2, <1>5 DEF Over, NoWindow
  <2>2. \A n \in Ticks : recent[k][n] < Limit(k)
    BY <1>1, <1>5 DEF WithinLimit
  <2>3. \A n \in Ticks : recent'[k][n] < Limit(k)
    BY <1>0, <1>2, <1>4, <2>2
  <2> QED BY <1>0, <1>2, <2>1, <2>3 DEF WithinLimit
<1>6. CASE ~Over(window[k])
  <2>1. window[k].hits >= 1 /\ \A n \in Ticks : recent[k][n] <= Used(k) + Beyond(k, n)
    BY <1>1, <1>6 DEF WithinLimit
  <2>0. Used(k) >= 1
    BY <1>0, <1>1, <2>1 DEF Used
  <2>2. CASE window[k].age + 1 >= WindowTicks
    <3>1. Over(window[k])'
      BY <1>2, <2>2 DEF Over, NoWindow
    <3>2. ASSUME NEW n \in Ticks
          PROVE  recent'[k][n] < Limit(k)
      <4>1. CASE n = 1
        BY <1>0, <1>2, <4>1
      <4>2. CASE n # 1
        <5>1. n - 1 \in Ticks /\ n - 1 < window[k].age + 1
          BY <1>0, <1>1, <1>4, <2>2, <4>2
        <5>2. recent[k][n - 1] <= Used(k) - 1
          BY <1>0, <1>1, <1>3, <2>1, <5>1 DEF Beyond
        <5> QED BY <1>0, <1>1, <1>2, <1>3, <4>2, <5>1, <5>2
      <4> QED BY <4>1, <4>2
    <3> QED BY <1>0, <1>2, <3>1, <3>2 DEF WithinLimit
  <2>3. CASE ~(window[k].age + 1 >= WindowTicks)
    <3>1. window'[k].age = window[k].age + 1 /\ window'[k].hits = window[k].hits
      BY <1>1, <1>2, <2>3
    <3>2. ~Over(window[k])' /\ Used(k)' = Used(k)
      BY <1>0, <1>1, <2>3, <3>1 DEF Over, Used
    <3>3. ASSUME NEW n \in Ticks
          PROVE  recent'[k][n] <= Used(k) + Beyond(k, n)'
      <4>1. CASE n = 1
        <5>1. Beyond(k, n)' = -1
          BY <1>0, <1>1, <3>1, <4>1 DEF Beyond
        <5> QED BY <1>0, <1>2, <1>3, <2>0, <4>1, <5>1
      <4>2. CASE n # 1
        <5>1. n - 1 \in Ticks /\ Beyond(k, n)' = Beyond(k, n - 1)
          BY <1>0, <1>1, <1>4, <3>1, <4>2 DEF Beyond
        <5>2. recent[k][n - 1] <= Used(k) + Beyond(k, n - 1)
          BY <2>1, <5>1
        <5> QED BY <1>2, <4>2, <5>1, <5>2
      <4> QED BY <4>1, <4>2
    <3> QED BY <1>0, <2>1, <3>1, <3>2, <3>3 DEF WithinLimit
  <2> QED BY <2>2, <2>3
<1> QED BY <1>5, <1>6

LEMMA RefuseCharges ==
  ASSUME LimitsTypeOK, NEW c, NEW kind, NEW t, NEW ip \in Addresses, Refuse(c, kind, t, ip)
  PROVE  Charged
<1>1. {ip} \in SUBSET Keys /\ Count({ip}) /\ ~Admitted(ip)
  BY DEF Refuse, Keys
<1>2. Served({})
  <2>1. \A k \in Keys : recent[k] = [n \in Ticks |-> recent[k][n]]
    BY DEF LimitsTypeOK
  <2>2. recent = [k \in Keys |-> [n \in Ticks |-> recent[k][n]]]
    BY <2>1 DEF LimitsTypeOK
  <2> QED BY <2>2 DEF Refuse, Served
<1> QED BY <1>1, <1>2 DEF Charged

LEMMA GetCharges ==
  ASSUME LimitsTypeOK, NEW c, NEW kind, NEW t, NEW ip \in Addresses, Get(c, kind, t, ip)
  PROVE  Charged
<1>1. CASE Refuse(c, kind, t, ip)
  BY <1>1, RefuseCharges
<1>2. CASE ~Refuse(c, kind, t, ip)
  <2>1. Admitted(ip) /\ Count({ip}) /\ Served({ip}) /\ {ip} \in SUBSET Keys
    BY <1>2 DEF Get, Keys
  <2> QED BY <2>1 DEF Charged
<1> QED BY <1>1, <1>2

LEMMA PostCharges ==
  ASSUME LimitsTypeOK, NEW c, NEW t, NEW user \in Accounts, NEW ip \in Addresses,
         Post(c, t, user, ip)
  PROVE  Charged
<1>0. {ip} \in SUBSET Keys /\ {ip, user} \in SUBSET Keys /\ ip # user
  BY KeysApart DEF Keys
<1>1. CASE Refuse(c, "post", t, ip)
  BY <1>1, RefuseCharges
<1>2. CASE Admitted(ip) /\ Count({ip}) /\ Served({ip})
  BY <1>0, <1>2 DEF Charged
<1>3. CASE Admitted(ip) /\ ~Admitted(user) /\ Count({ip, user}) /\ Served({ip})
  BY <1>0, <1>3 DEF Charged
<1>4. CASE Admitted(ip) /\ Admitted(user) /\ Count({ip, user}) /\ Served({ip, user})
  BY <1>0, <1>4 DEF Charged
<1> QED BY <1>1, <1>2, <1>3, <1>4 DEF Post, keyGenerator

LEMMA NextKeepsLimits ==
  ASSUME TypeOK, LInv, [Next]_vars
  PROVE  LInv'
<1>0. LimitsTypeOK
  BY DEF TypeOK
<1>1. CASE Charged
  BY <1>0, <1>1, ChargedKeepsLimits
<1>2. CASE UNCHANGED limits
  <2>1. UNCHANGED <<window, recent>>
    BY <1>2 DEF limits
  <2> QED BY <2>1 DEF LInv, WithinLimit, Beyond, Used, Over
<1>3. CASE Tick
  BY <1>0, <1>3, TickKeepsLimits DEF Tick
<1>4. CASE Restart
  <2>1. \A k \in Keys : window'[k] = NoWindow /\ \A n \in Ticks : recent'[k][n] = 0
    BY <1>4 DEF Restart, ForgetLimits
  <2>2. 1 \in Ticks
    BY LimitsPositive DEF Ticks
  <2> QED BY <2>1, <2>2, LimitTyped DEF LInv, WithinLimit, Over, NoWindow, Limit
<1>5. ASSUME NEW c \in Calls, NEW t \in Tabs, NEW ip \in Addresses,
             SendGet(c, t, ip) \/ Fetch(c, t, ip)
      PROVE  Charged
  BY <1>0, <1>5, GetCharges DEF SendGet, Fetch
<1>6. ASSUME NEW c \in Calls, NEW user \in Accounts, NEW ip \in Addresses,
             SendPost(c, user, ip)
      PROVE  Charged
  BY <1>0, <1>6, PostCharges DEF SendPost
<1> QED BY <1>1, <1>2, <1>3, <1>4, <1>5, <1>6
        DEF Next, Begin, Receive, Lose, Reload, CloseBrowser, vars

(* A key is admitted less than twice its limit in a span as long as a window, wherever the
   windows of the store lie (rateLimiters.js:15-22 and 45-57). *)
THEOREM BudgetsHold == Spec => []Budgets
<1>1. Init => LInv
  <2>1. 1 \in Ticks
    BY LimitsPositive DEF Ticks
  <2> QED BY <2>1, LimitTyped DEF Init, InitLimits, LInv, WithinLimit, Over, NoWindow
<1>2. TypeOK /\ LInv /\ [Next]_vars => LInv'
  BY NextKeepsLimits
<1>3. TypeOK /\ LInv => Budgets
  <2> SUFFICES ASSUME TypeOK, LInv, NEW k \in Keys
               PROVE  recent[k][WindowTicks] < 2 * Limit(k)
    BY DEF Budgets, LessThanTwice
  <2>1. WindowTicks \in Ticks /\ Limit(k) \in Nat /\ Limit(k) >= 1
    BY LimitTyped, LimitsPositive DEF Ticks
  <2>2. recent[k][WindowTicks] \in Nat /\ window[k] \in [hits : 0..GlobalMax + SensitiveMax, age : 0..WindowTicks]
    BY <2>1 DEF TypeOK, LimitsTypeOK
  <2>3. Used(k) \in Nat /\ Used(k) <= Limit(k)
    BY <2>1, <2>2, LimitsPositive DEF Used
  <2>4. WithinLimit(k)
    BY DEF LInv
  <2>5. CASE Over(window[k])
    BY <2>1, <2>2, <2>4, <2>5 DEF WithinLimit
  <2>6. CASE ~Over(window[k])
    <3>1. recent[k][WindowTicks] <= Used(k) + Beyond(k, WindowTicks)
      BY <2>1, <2>4, <2>6 DEF WithinLimit
    <3>2. Beyond(k, WindowTicks) \in Int /\ Beyond(k, WindowTicks) <= Limit(k) - 1
      BY <2>1, <2>2, LimitsPositive DEF Beyond
    <3> QED BY <2>1, <2>2, <2>3, <3>1, <3>2
  <2> QED BY <2>5, <2>6
<1> QED BY <1>1, <1>2, <1>3, TypesHold, PTL DEF Spec

-----------------------------------------------------------------------------
(* What csurf refuses *)

(* csurf refuses a request of the application (csrf.js:12-18, client.js:16-38) only when the
   fetch of the token failed in its tab, or requests without a secret overlapped. *)
THEOREM RefusalsAreExplained == Spec => RefusedOnlyAfterTrouble
<1>1. Spec => []GInv
  <2>1. Init => Cookies
    BY InitCookies
  <2>2. TypeOK /\ Cookies /\ [Next]_vars => Cookies'
    BY NextKeepsCookies
  <2> QED BY <2>1, <2>2, TypesHold, PTL DEF Spec, GInv
<1> DEFINE Refusal(c) == call[c].kind = "wait" /\ call'[c].kind = "post" /\ call'[c].status = "forbidden"
           Explained == \A c \in Calls : Refusal(c) => tangled \/ csrf[call[c].tab] = "failed"
<1>2. ASSUME GInv, [Next]_vars
      PROVE  Explained
  <2> SUFFICES ASSUME NEW c \in Calls, Refusal(c), ~tangled
               PROVE  csrf[call[c].tab] = "failed"
    OBVIOUS
  <2>0. TypeOK /\ Cookies
    BY <1>2 DEF GInv
  <2>1. PICK user \in Accounts, ip \in Addresses : SendPost(c, user, ip)
    <3>1. NoCall.kind # "post" /\ \A t : Waiting(t).kind # "post"
      BY DEF NoCall, Waiting, Answer
    <3>2. \A d \in Calls, kind \in {"get", "fetch"}, t \in Tabs : Sent(d, kind, t) => d # c
      BY <2>0 DEF Sent, Answer, TypeOK
    <3>3. \A d \in Calls, t \in Tabs, ip \in Addresses : ~SendGet(d, t, ip) /\ ~Fetch(d, t, ip)
      <4> SUFFICES ASSUME NEW d \in Calls, NEW t \in Tabs, NEW ip \in Addresses,
                          SendGet(d, t, ip) \/ Fetch(d, t, ip)
                   PROVE  FALSE
        OBVIOUS
      <4>1. call[d] = NoCall /\ (Sent(d, "get", t) \/ Sent(d, "fetch", t))
        BY <2>0, GetSends DEF SendGet, Fetch
      <4>2. d # c
        BY <3>2, <4>1
      <4>3. call'[c] = call[c]
        BY <2>0, <4>1, <4>2 DEF Sent, TypeOK
      <4> QED BY <4>3
    <3>4. \A d \in Calls, user \in Accounts, ip \in Addresses : SendPost(d, user, ip) => d = c
      <4> SUFFICES ASSUME NEW d \in Calls, NEW user \in Accounts, NEW ip \in Addresses,
                          SendPost(d, user, ip)
                   PROVE  d = c
        OBVIOUS
      <4>1. call[d].tab \in Tabs
        BY <2>0 DEF SendPost, TypeOK, Waiting, NoCall, Answer
      <4>2. Sent(d, "post", call[d].tab)
        BY <2>0, <4>1, PostSends DEF SendPost
      <4> QED BY <2>0, <4>2 DEF Sent, TypeOK
    <3>5. \A d \in Calls, t \in Tabs : ~Begin(d, t)
      BY <2>0, <3>1 DEF Begin, TypeOK
    <3>6. \A d \in Calls : ~Receive(d) /\ ~Lose(d)
      BY <2>0, <3>1 DEF Receive, Lose, TypeOK
    <3>7. \A t \in Tabs : ~Reload(t)
      <4> SUFFICES ASSUME NEW t \in Tabs, Reload(t)
                   PROVE  FALSE
        OBVIOUS
      <4>1. call'[c] = NoCall \/ call'[c] = call[c]
        BY DEF Reload, Orphan
      <4> QED BY <3>1, <4>1
    <3>8. ~CloseBrowser /\ ~Tick /\ ~Restart /\ ~UNCHANGED vars
      BY <3>1 DEF CloseBrowser, Tick, Restart, Browser, vars
    <3> QED BY <1>2, <3>3, <3>4, <3>5, <3>6, <3>7, <3>8 DEF Next
  <2>2. call[c].tab \in Tabs
    BY <2>0, <2>1 DEF SendPost, TypeOK, Waiting, NoCall, Answer
  <2>3. Sent(c, "post", call[c].tab)
    BY <2>0, <2>1, <2>2, PostSends DEF SendPost
  <2>4. jar.secret = 0 \/ jar.xsrf # jar.secret
    BY <2>0, <2>3 DEF Sent, Answer, TypeOK
  <2>5. csrf[call[c].tab] # "fetched"
    BY <2>0, <2>2, <2>4 DEF Cookies
  <2> QED BY <2>1, <2>5 DEF SendPost, ensureCsrf
<1>3. GInv /\ [Next]_vars => [Explained]_vars
  BY <1>2
<1>4. [][Explained]_vars => RefusedOnlyAfterTrouble
  BY PTL DEF RefusedOnlyAfterTrouble
<1> QED BY <1>1, <1>3, <1>4, PTL DEF Spec
=============================================================================
