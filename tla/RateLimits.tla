----------------------------- MODULE RateLimits -----------------------------
(***************************************************************************)
(* The limiters of express-rate-limit (rateLimiters.js): the global one    *)
(* counts the requests of an address, the one of the sensitive actions     *)
(* those of a user.  Its store keeps for every key the hits of a window    *)
(* that begins with the first of them.  Time is counted in ticks, of which *)
(* a window lasts WindowTicks.                                             *)
(***************************************************************************)
EXTENDS Naturals

CONSTANTS
  Addresses,   \* IP addresses
  Accounts,    \* users
  GlobalMax,
  SensitiveMax,
  WindowTicks

ASSUME LimitsTyped == {GlobalMax, SensitiveMax, WindowTicks} \subseteq Nat \ {0}
ASSUME KeysApart == Addresses \cap Accounts = {}

VARIABLES
  window,  \* of a key: the hits, refused ones included, and the ticks since the first
  recent   \* history: how many requests were admitted in the last n ticks, this one included

limits == <<window, recent>>

Keys == Addresses \cup Accounts
Ticks == 1..WindowTicks

Limit(k) == IF k \in Addresses THEN GlobalMax ELSE SensitiveMax

NoWindow == [hits |-> 0, age |-> WindowTicks]

InitLimits ==
  /\ window = [k \in Keys |-> NoWindow]
  /\ recent = [k \in Keys |-> [n \in Ticks |-> 0]]

Over(w) == w.age = WindowTicks

(* Hits past the limit are not told apart from one more. *)
Hit(k) == LET w == window[k] IN
  IF Over(w) THEN [hits |-> 1, age |-> 0]
  ELSE [w EXCEPT !.hits = IF @ > Limit(k) THEN @ ELSE @ + 1]

(* a mistake: the request after the last is admitted *)
AdmittedOneMore(k) == Hit(k).hits <= Limit(k) + 1
Admitted(k) == Hit(k).hits <= Limit(k)

(* a mistake: the sensitive actions are counted by address *)
KeyOfAddress(user, ip) == ip
(* keyGenerator: the request is authenticated *)
keyGenerator(user, ip) == user

Served(keys) ==
  recent' = [k \in Keys |-> [n \in Ticks |-> IF k \in keys THEN recent[k][n] + 1 ELSE recent[k][n]]]

(* Windows go by, and what happened WindowTicks ago is forgotten. *)
TickLimits ==
  /\ window' = [k \in Keys |-> IF window[k].age + 1 >= WindowTicks THEN NoWindow
                               ELSE [window[k] EXCEPT !.age = @ + 1]]
  /\ recent' = [k \in Keys |-> [n \in Ticks |-> IF n = 1 THEN 0 ELSE recent[k][n - 1]]]

(* the store is in memory *)
ForgetLimits ==
  /\ window' = [k \in Keys |-> NoWindow]
  /\ recent' = [k \in Keys |-> [n \in Ticks |-> 0]]

LimitsTypeOK ==
  /\ window \in [Keys -> [hits : 0..GlobalMax + SensitiveMax, age : 0..WindowTicks]]
  /\ recent \in [Keys -> [Ticks -> Nat]]

(* In every span as long as a window less than twice the limit is admitted: the request that
   began the first window is over when the second begins. *)
LessThanTwice(k) == recent[k][WindowTicks] < 2 * Limit(k)
=============================================================================
