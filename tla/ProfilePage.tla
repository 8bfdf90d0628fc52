---------------------------- MODULE ProfilePage ----------------------------
(***************************************************************************)
(* The profile page of one tab (Profile.jsx), the user AuthContext shows   *)
(* beside it, and the server's part of the calls (profileService.js).      *)
(*                                                                         *)
(* A handler runs to its await; it goes on, with the `user` of the render  *)
(* it was clicked in, when the answer arrives, even after the page was     *)
(* left.  The server's part of a call is one step: Mfa has its statements. *)
(***************************************************************************)
EXTENDS Naturals

CONSTANTS
  Users, Nobody,
  Editors,     \* the users who open the page: bounds the instance
  Names,       \* what is typed as full name and bio
  Sanitized,   \* what the server makes of it
  Keys,        \* TOTP secrets and sets of recovery codes, numbered; one nobody
               \* holds any more is reused
  NoKey,
  Requests     \* bounds the calls under way

ASSUME NobodyIsNoUser == Nobody \notin Users /\ Editors \subseteq Users
ASSUME NoKeyIsNoKey == NoKey \notin Keys
ASSUME NobodyIsNoView == Nobody \notin [id : Users, name : Names, mfa : BOOLEAN]
(* a plain text stays as it is *)
ASSUME SanitizedTyped == Sanitized \in [Names -> Names] /\ \E n \in Names : Sanitized[n] = n

VARIABLES
  stored,     \* users: name, mfa_enabled, mfa_secret, and the user's recovery codes
  owner,      \* whose session the cookies carry
  shown,      \* AuthContext: the user this tab shows
  open,       \* the profile page is mounted
  setup,      \* MfaSection: the secret of the form it shows
  codes,      \* MfaSection: the recovery codes it shows
  request,    \* the calls under way
  concurrent, \* two were, since the page was loaded or the user logged in
  unanswered, \* one, or its answer, was lost since then
  crossed,    \* one was under way when the session changed
  told,       \* the recovery codes users have seen
  missed      \* users whose page was left, or answer lost, while enabling

screen == <<shown, open, setup, codes>>
pageHistory == <<concurrent, unanswered, crossed, told, missed>>
pageVars == <<stored, owner, screen, request, pageHistory>>

Buttons == {"save", "setup", "enable", "disable", "logout"}

AnyName == CHOOSE n \in Names : Sanitized[n] = n

Free == [kind |-> "save", stage |-> "free", who |-> Nobody, was |-> Nobody,
         name |-> AnyName, key |-> NoKey, here |-> FALSE]

(* what getMe answers *)
publicView(u) == [id |-> u, name |-> stored[u].name, mfa |-> stored[u].mfa]

PageInit ==
  /\ stored = [u \in Users |-> [name |-> AnyName, mfa |-> FALSE, secret |-> NoKey, codes |-> NoKey]]
  /\ owner = Nobody /\ shown = Nobody
  /\ open = FALSE /\ setup = NoKey /\ codes = NoKey
  /\ request = [r \in Requests |-> Free]
  /\ concurrent = FALSE /\ unanswered = FALSE /\ crossed = FALSE /\ told = {} /\ missed = {}

-----------------------------------------------------------------------------

UnderWay == {r \in Requests : request[r] # Free}

KeysHeld == {setup, codes} \cup {request[r].key : r \in Requests}
        \cup UNION {{stored[u].secret, stored[u].codes} : u \in Users}
KeysFree == {k \in Keys : k \notin KeysHeld}
FreshKey(k) == k \in KeysFree /\ \A j \in KeysFree : k <= j

Enabling == {request[r].who : r \in {q \in Requests : request[q].kind = "enable"}}

-----------------------------------------------------------------------------
(* the page *)

Open ==
  /\ ~open /\ shown # Nobody /\ shown.id \in Editors
  /\ open' = TRUE
  /\ UNCHANGED <<stored, owner, shown, setup, codes, request, pageHistory>>

(* the sections are unmounted and forget their state; their calls stay under way *)
Unmount ==
  /\ open' = FALSE /\ setup' = NoKey /\ codes' = NoKey
  /\ missed' = missed \cup (Enabling \ {Nobody})

Leave ==
  /\ open
  /\ Unmount
  /\ request' = [r \in Requests |-> [request[r] EXCEPT !.here = FALSE]]
  /\ UNCHANGED <<stored, owner, shown, concurrent, unanswered, crossed, told>>

(* the `busy` of a section disables its buttons while one of these calls is its own *)
Disabled(kinds) == \E r \in Requests : request[r].here /\ request[r].kind \in kinds

Mfa == {"setup", "enable", "disable"}

Click(r, kind, name, key) ==
  /\ request[r] = Free
  /\ request' = [request EXCEPT ![r] = [kind |-> kind, stage |-> "sent", who |-> owner, was |-> shown,
                                        name |-> name, key |-> key, here |-> open]]
  /\ concurrent' = (concurrent \/ UnderWay # {})
  /\ UNCHANGED <<stored, owner, screen, unanswered, crossed, told, missed>>

save(r) ==
  /\ open /\ ~Disabled({"save"})
  /\ \E n \in Names : Click(r, "save", n, NoKey)

startSetup(r) ==
  /\ open /\ ~Disabled(Mfa)
  /\ ~shown.mfa /\ setup = NoKey /\ codes = NoKey
  /\ Click(r, "setup", AnyName, NoKey)

(* with a code of the secret the form shows, or a wrong one *)
confirmEnable(r) ==
  /\ open /\ ~Disabled(Mfa)
  /\ setup # NoKey
  /\ \E k \in {setup, NoKey} : Click(r, "enable", AnyName, k)

(* a mistake: the button stays beside the fresh codes *)
disableAnyway(r) ==
  /\ open /\ ~Disabled(Mfa)
  /\ shown.mfa
  /\ Click(r, "disable", AnyName, NoKey)

disable(r) ==
  /\ open /\ ~Disabled(Mfa)
  /\ shown.mfa /\ codes = NoKey
  /\ Click(r, "disable", AnyName, NoKey)

logout(r) ==
  /\ shown # Nobody
  /\ Click(r, "logout", AnyName, NoKey)

-----------------------------------------------------------------------------
(* the server *)

Answer(r, key) == request' = [request EXCEPT ![r].stage = "served", ![r].key = key]
Refuse(r)      == request' = [request EXCEPT ![r].stage = "refused"]

At(r, kind) == request[r].stage = "sent" /\ request[r].kind = kind /\ request[r].who # Nobody

Row(r) == stored[request[r].who]

(* updateProfile RETURNING *, the sanitized texts *)
UpdateMe(r) ==
  /\ At(r, "save")
  /\ stored' = [stored EXCEPT ![request[r].who].name = Sanitized[request[r].name]]
  /\ request' = [request EXCEPT ![r].stage = "served", ![r].name = Sanitized[request[r].name]]
  /\ UNCHANGED <<owner, screen, pageHistory>>

SetupMfa(r) ==
  /\ At(r, "setup")
  /\ \/ /\ Row(r).mfa
        /\ Refuse(r)
        /\ UNCHANGED <<stored, told>>
     \/ /\ ~Row(r).mfa
        /\ \E k \in Keys : /\ FreshKey(k)
                           /\ stored' = [stored EXCEPT ![request[r].who].secret = k]
                           /\ Answer(r, k)
                           /\ told' = told \ {k}
  /\ UNCHANGED <<owner, screen, concurrent, unanswered, crossed, missed>>

(* MFA that is on may be enabled again: it gets new codes *)
EnableMfa(r) ==
  /\ At(r, "enable")
  /\ \/ /\ Row(r).secret = NoKey \/ request[r].key # Row(r).secret
        /\ Refuse(r)
        /\ UNCHANGED <<stored, told>>
     \/ /\ Row(r).secret # NoKey /\ request[r].key = Row(r).secret
        /\ \E k \in Keys : /\ FreshKey(k)
                           /\ stored' = [stored EXCEPT ![request[r].who].mfa = TRUE,
                                                       ![request[r].who].codes = k]
                           /\ Answer(r, k)
                           /\ told' = told \ {k}
  /\ UNCHANGED <<owner, screen, concurrent, unanswered, crossed, missed>>

DisableMfa(r) ==
  /\ At(r, "disable")
  /\ stored' = [stored EXCEPT ![request[r].who].mfa = FALSE, ![request[r].who].secret = NoKey,
                              ![request[r].who].codes = NoKey]
  /\ Answer(r, NoKey)
  /\ UNCHANGED <<owner, screen, pageHistory>>

EndSession(r) ==
  /\ At(r, "logout")
  /\ Answer(r, NoKey)
  /\ UNCHANGED <<stored, owner, screen, pageHistory>>

(* no session in the cookies: 401 *)
Anonymous(r) ==
  /\ request[r].stage = "sent" /\ request[r].who = Nobody
  /\ Refuse(r)
  /\ UNCHANGED <<stored, owner, screen, pageHistory>>

-----------------------------------------------------------------------------
(* the answers *)

Done(r) == request' = [request EXCEPT ![r] = Free]

Served(r, kind) == request[r].stage = "served" /\ request[r].kind = kind

(* a mistake: what was typed, not what was stored *)
savedAsTyped(r) ==
  /\ Served(r, "save")
  /\ \E n \in Names : Sanitized[n] = request[r].name /\ shown' = [request[r].was EXCEPT !.name = n]
  /\ Done(r)
  /\ UNCHANGED <<stored, owner, open, setup, codes, pageHistory>>

saved(r) ==
  /\ Served(r, "save")
  /\ shown' = [request[r].was EXCEPT !.name = request[r].name]
  /\ Done(r)
  /\ UNCHANGED <<stored, owner, open, setup, codes, pageHistory>>

(* a setter of the section: without effect when it was unmounted *)
Set(r, old, new) == IF request[r].here THEN new ELSE old

setupStarted(r) ==
  /\ Served(r, "setup")
  /\ setup' = Set(r, setup, request[r].key)
  /\ Done(r)
  /\ UNCHANGED <<stored, owner, shown, open, codes, pageHistory>>

(* a mistake: the codes are set and cleared again with the form *)
enabledWithoutCodes(r) ==
  /\ Served(r, "enable")
  /\ codes' = NoKey
  /\ setup' = Set(r, setup, NoKey)
  /\ shown' = [request[r].was EXCEPT !.mfa = TRUE]
  /\ Done(r)
  /\ UNCHANGED <<stored, owner, open, pageHistory>>

enabled(r) ==
  /\ Served(r, "enable")
  /\ codes' = Set(r, codes, request[r].key)
  /\ setup' = Set(r, setup, NoKey)
  /\ shown' = [request[r].was EXCEPT !.mfa = TRUE]
  /\ IF request[r].here
     THEN /\ told' = told \cup {request[r].key}
          /\ missed' = missed \ {request[r].who}
     ELSE UNCHANGED <<told, missed>>
  /\ Done(r)
  /\ UNCHANGED <<stored, owner, open, concurrent, unanswered, crossed>>

disabled(r) ==
  /\ Served(r, "disable")
  /\ shown' = [request[r].was EXCEPT !.mfa = FALSE]
  /\ codes' = Set(r, codes, NoKey)
  /\ Done(r)
  /\ UNCHANGED <<stored, owner, open, setup, pageHistory>>

(* a mistake: the page keeps its user *)
KeepUser == UNCHANGED shown
ForgetUser == shown' = Nobody

(* setUser(null): ProtectedRoute unmounts the page *)
loggedOut(r) ==
  /\ Served(r, "logout")
  /\ ForgetUser /\ owner' = Nobody
  /\ Unmount
  /\ crossed' = (crossed \/ UnderWay # {r})
  /\ request' = [q \in Requests |-> IF q = r THEN Free ELSE [request[q] EXCEPT !.here = FALSE]]
  /\ UNCHANGED <<stored, concurrent, unanswered, told>>

refused(r) ==
  /\ request[r].stage = "refused"
  /\ Done(r)
  /\ UNCHANGED <<stored, owner, screen, pageHistory>>

(* The request or its answer is lost, or its statements stop in the middle and it is
   answered 500: after setMfaEnabled and before the codes are in (mfaService.js:83 and
   60-67) as after a call that was served. *)
Lose(r) ==
  /\ request[r].stage \in {"sent", "served"}
  /\ Done(r)
  /\ unanswered' = TRUE
  /\ missed' = missed \cup (IF request[r].kind = "enable" THEN {request[r].who} \ {Nobody} ELSE {})
  /\ UNCHANGED <<stored, owner, screen, concurrent, crossed, told>>

-----------------------------------------------------------------------------

(* submitPassword or submitOtp *)
SignIn(u) ==
  /\ shown = Nobody
  /\ owner' = u /\ shown' = publicView(u)
  /\ concurrent' = (UnderWay # {}) /\ crossed' = (UnderWay # {}) /\ unanswered' = FALSE
  /\ UNCHANGED <<stored, open, setup, codes, request, told, missed>>

(* a reload while nothing is under way: AuthProvider asks who it is *)
Reload ==
  /\ UnderWay = {}
  /\ shown' = IF owner = Nobody THEN Nobody ELSE publicView(owner)
  /\ Unmount
  /\ concurrent' = FALSE /\ crossed' = FALSE /\ unanswered' = FALSE
  /\ UNCHANGED <<stored, owner, request, told>>

PageNext ==
  \/ \E r \in Requests :
       \/ save(r) \/ startSetup(r) \/ confirmEnable(r) \/ disable(r) \/ logout(r)
       \/ UpdateMe(r) \/ SetupMfa(r) \/ EnableMfa(r) \/ DisableMfa(r) \/ EndSession(r) \/ Anonymous(r)
       \/ saved(r) \/ setupStarted(r) \/ enabled(r) \/ disabled(r) \/ loggedOut(r) \/ refused(r)
       \/ Lose(r)
  \/ \E u \in Users : SignIn(u)
  \/ Open \/ Leave \/ Reload

PageSpec == PageInit /\ [][PageNext]_pageVars

-----------------------------------------------------------------------------
Views == [id : Users, name : Names, mfa : BOOLEAN] \cup {Nobody}

(* Types; a page that is not mounted shows nothing. *)
PageTypeOK ==
  /\ stored \in [Users -> [name : Names, mfa : BOOLEAN, secret : Keys \cup {NoKey},
                           codes : Keys \cup {NoKey}]]
  /\ owner \in Users \cup {Nobody}
  /\ shown \in Views
  /\ open \in BOOLEAN /\ (open => shown # Nobody)
  /\ setup \in Keys \cup {NoKey} /\ codes \in Keys \cup {NoKey}
  /\ setup # NoKey \/ codes # NoKey => open
  /\ request \in [Requests -> [kind : Buttons, stage : {"free", "sent", "served", "refused"},
                               who : Users \cup {Nobody}, was : Views, name : Names,
                               key : Keys \cup {NoKey}, here : BOOLEAN]]
  /\ concurrent \in BOOLEAN /\ unanswered \in BOOLEAN /\ crossed \in BOOLEAN
  /\ told \subseteq Keys /\ missed \subseteq Users

(* With nothing under way the tab shows the user as the server has it, unless calls
   overlapped (the handlers copy the `user` of their click) or an answer was lost: a 500
   after mfa_enabled was set (mfaService.js:83) is such a loss. *)
ShownIsStored ==
  UnderWay = {} /\ shown # Nobody => shown = publicView(shown.id) \/ concurrent \/ unanswered

(* The tab shows the user whose session it has, and nobody after a logout, unless a call
   was under way when the session changed: its answer brings the old user back. *)
ShowsTheSession ==
  shown = Nobody \/ shown.id = owner \/ crossed

(* The recovery codes on the screen are the ones that work, unless calls overlapped. *)
CodesShownWork ==
  codes # NoKey => stored[shown.id].codes = codes \/ concurrent

(* Whoever has MFA on has seen the recovery codes, which are "shown only once"
   (Profile.jsx:74), unless the page was left or the answer lost while enabling, which a
   500 between setMfaEnabled and the last code is, too (mfaService.js:83, 60-67). *)
CodesWereTold ==
  \A u \in Users : stored[u].mfa /\ u \notin Enabling => stored[u].codes \in told \/ u \in missed
=============================================================================
