# Verification of the secure event platform

The platform is a Node/Express API over PostgreSQL (`backend/`) and a React
single-page client (`frontend/`): accounts with passwords and optional TOTP,
sessions with rotating refresh tokens, events, bookings with a seat counter, an
audit log and an administration. This directory holds TLA+ modules that model its
stateful parts, TLC configurations that check them on small instances, and TLAPS
proofs of what matters most.

Paths below are relative to `backend/src/` unless they start otherwise.

## The system

| Component | State | Operations | Talks to |
|---|---|---|---|
| Bookings (`services/bookingService.js`) | `bookings`, `events.seats_taken` | `book`, `cancel`, `history` | transactions, audit |
| Events (`services/eventService.js`, `models/eventModel.js`) | `events` | `create`, `update`, `remove`, reads | audit |
| Sessions (`services/tokenService.js`) | `refresh_tokens` | `startSession`, `rotate`, `revoke`, `revokeAllForUser` | audit, `loadUser` callback |
| Accounts (`services/authService.js`, `models/userModel.js`) | `users`, `password_history`, `user_tokens` | register, verify, log in, change the password | sessions, MFA, mail, audit |
| MFA (`services/mfaService.js`) | `users.mfa_*`, `recovery_codes` | set up, enable, verify, disable | accounts |
| Profile (`services/profileService.js`) | - | read, edit, export, delete the account | sessions, MFA, cascade over every table |
| Administration (`controllers/adminController.js`) | `users.role`, `users.status` | change role, suspend, reactivate, read | sessions, audit |
| Audit (`services/auditService.js`) | `audit_logs` | `record`, `search` | its own pool connection |
| Pool and transactions (`config/db.js`) | ten connections | `query`, `withTransaction` | PostgreSQL |
| Middleware (`middleware/`) | rate-limit counters | authenticate, authorize, limit, CSRF, CAPTCHA, errors | every route |
| API client (`frontend/src/api/client.js`, `context/AuthContext.jsx`) | `refreshing`, `csrfReady`, the signed-in user | request and response interceptors | cookies shared by tabs, the API |
| Profile page (`frontend/src/pages/Profile.jsx`) | the forms, the recovery codes on the screen | edit, enrol in MFA, leave | API client, the signed-in user |

What makes it hard. Node runs one handler at a time but every `await` is a point
where any other request may run, so handlers interleave between any two SQL
statements. Only `book` and `cancel` use a transaction; every other operation is
a chain of statements that commit one by one and may stop in the middle (a lost
connection, a pool timeout, a crash). Inside the transactions two requests lock
rows in opposite orders, and the audit row goes through a second connection. The
deletion of an account cascades over tables others are working on. In the
browser, tabs share the cookies but not the client's variables.

What makes each component correct:

- bookings: no event oversold, the counter equal to the confirmed bookings, no
  deadlock or only ones PostgreSQL breaks, every request ends, the audit log says
  what happened;
- sessions: one live token per family, a reused token ends its family, a change
  of the password, a suspension or a deletion ends every session;
- accounts: an account is usable only when verified and not suspended, guesses
  are bounded by the lockout, a password is not reused;
- MFA: enabled only with a secret that can verify codes, a recovery code works
  once;
- access control: what was taken from a user is soon ignored by no token, and an
  administrator remains;
- pool: every client and lock comes back, every request is answered;
- limiters and CSRF: a budget holds in every window, and the application itself is let
  through;
- API client: a session that is alive stays usable from every tab;
- profile page: it shows what the server has, and recovery codes reach their user.

`PROJECT.json` lists the hazards at their lines, with the properties that answer
them.

## Modules

| Module | Models | How |
|---|---|---|
| `Booking` | `bookingService`, `eventService`, `eventModel`, `deleteAccount`, `withTransaction`, `audit.record` | one action per SQL statement and the code up to the next; PostgreSQL's row locks (share, key share, update), waits, deadlock detection and statement failures explicit |
| `SeatLedger` | what a reader of the committed tables is promised | abstract: a booking and its seat change together; `Booking` implements it (`LedgerSpec`) |
| `Sessions` | `tokenService`, and `authService`, `profileService`, `adminController` as far as they start or end sessions | one action per statement; each commits by itself |
| `Mfa` | `mfaService` and its callers: enrolment, recovery codes, the second step of a login | one account; one action per statement |
| `Accounts` | `authService`, `userModel`, `sendVerification`, suspension, reactivation and deletion: one account's registration, verification, lockout, password history and status | one action per statement |
| `AccessControl` | `signAccessToken`, `authenticate`, `requireRole`, `adminController`, `deleteAccount` | roles and status in the database against the access tokens signed from them; a clock in ticks |
| `ConnectionPool` | `config/db.js`, `book` and `exportData` as users of connections, `server.js` | pg-pool's clients and queue; one action per wait for a connection or an answer |
| `RateLimits` | `rateLimiters.js` over express-rate-limit's store | fixed windows per address or user, in ticks |
| `Gate` | the middleware of `app.js` and `userRoutes.js` in its order, `csrf.js`, the request interceptor of `client.js` | extends `RateLimits`; requests and answers of one browser, an answer carries the cookies it sets |
| `ApiClient` | the response interceptor, `AuthContext.jsx`, the cookies, logout | tabs that share cookies; the handler of an answer is one action, the server's rotation one per statement |
| `ProfilePage` | `Profile.jsx` with `AuthContext.jsx` and `profileService.js` | one tab; a handler up to its `await` and after it, the server's part one action |

`BookingInvariant`, `SessionsInvariant`, `MfaInvariant` and `AccountsInvariant` hold
the inductive invariants, `*Proofs` the theorems (`BrowserProofs` those of `ApiClient` and
`ProfilePage`; where there is no `*Invariant`, the inductive invariant is with the
theorems), `MC*` the instances for TLC.

State and code. In `Booking` the tables are `store` (committed) with each
transaction's own writes kept apart until COMMIT, `locks` are the row locks a
request holds, `pc` is the statement a request is at. An action's guard is the
lock it needs; a request without it waits. In `Sessions`, `row`, `holder` and
`family` are the columns `revoked_at`, `user_id` and `family_id`; `status` and
`password` are those of `users`. The variables `alarmed`, `raced`, `loose` of
`Sessions` (and `opened`, the password behind a session) are history: they record
that statements overlapped, so that a property can say "unless". In `Mfa`,
`enabled`, `secret` and `code` are the columns and rows of the account; `given`
and `proven` are what the client was told and what it confirmed; `torn` and
`mixed` are history again: a change of the enrolment was overtaken by another or
stopped between two of its statements, and nothing has put it right since.

In `Accounts`, `status`, `verified`, `password`, `count` and `locked` are columns of
`users`, `past` the rows of `password_history` that `recentPasswordHashes` reads,
`link` the row of `user_tokens`. History: `was`, the passwords the account really
had; `reused` and `raced`, one was taken again, changes overlapped or stopped;
`cut`, the registration or the verification stopped or the link expired; `barred`
and `open`, an administrator suspended the account, while its verification was
unfinished; `guesses`, the wrong passwords counted since the counter was reset or
the lock was lifted. `Accounts` hands over to `Sessions` where a login is admitted.

In `AccessControl`, `role` and `status` are the columns of `users`; `life` is what is
left of the youngest access token of a user that names a role, which is all that
matters of the older ones; `signing` and `acting` are requests between the read they
rely on and what they do; `since` and `late` are history: how long ago what a user
may do was changed, and which tokens were signed from a row read before that.

In `ConnectionPool`, `pool` is what pg-pool keeps: who holds a client and who waits.
`pc` is what a request awaits, `lock` the row its transaction locked, `left` the queries
of a rejected `Promise.all` that go on by themselves, `phase` where `shutdown` is.
`connected` are the requests whose connection is still open while the server closes: the
pool is ended when there are none, though a handler may go on without its client
(`server.close` waits for connections). It then gets no further connection: the audit row
of a transaction is not written, an export is answered with an error.

In `ApiClient`, `access` and `cookie` are the two cookies, `refreshing` is the variable
of `client.js` in each tab, `user` that of `AuthContext`, `call` and `ref` the requests
under way, `live` and `family` the rows of `refresh_tokens`. `overlapped`, `lost`,
`ended` and `alarmed` are history: the trouble since the login.

In `ProfilePage`, `setup` and `codes` are the state of `MfaSection`, `shown` the `user` of
`AuthContext`; a request carries the `user` of the render it was clicked in (`was`) and
whether the section it will report to is still mounted (`here`). `told` and `missed`
are history: the recovery codes users have seen, and who left too early; so are
`concurrent`, `unanswered` and `crossed`: two calls were under way together, one or its
answer was lost, one was under way when the session changed. Its specification is
`PageSpec`, and no name of it is one of `ApiClient`, so that `BrowserProofs` extends both.

In `Gate`, `jar` are the cookies `_csrf` and `XSRF-TOKEN`, `csrf` is `csrfReady` in each
tab; a token is named by the secret it was made from. `tangled` is history: two answers
with a new secret each were under way together. `recent` in `RateLimits` likewise: how
many requests were admitted in the last n ticks, for every n up to a window.

`Mfa` ends where `verifyMfa` admits a login; what a session is from then on is in
`Sessions`, where the second step brings a right or a wrong code. The deletion of
the account is left to `Sessions` and `Booking`: it ends every operation of `Mfa`
in an error, which `Lose` covers.

Abstractions. A password is a model value and its bcrypt hash accepts just that
value. A JWT is the row it names; a client only sends tokens and challenges it
was given. Texts, prices and dates are left out. Clocks are replaced by choice:
a refresh token may be expired whenever it is presented. A TOTP code is the secret
it is computed from and verifies against that secret only; its time step is left
out. A client brings secrets and codes it was told, or something wrong. In
`Accounts` the current password, or the code of the second step, is right or
wrong by choice; email and username are one name; the counter of failures stops
at `MaxAttempts`, above which the code does not tell values apart; the lock and
the link expire at any time.

`AccessControl` takes the tick as its unit of time and a token's lifetime as `Ttl` of
them; the operations take none. The identifier in a URL is the canonical text of a uuid
or another text of the same one, since `isUUID()` lets capitals through and PostgreSQL
reads them. `ConnectionPool` leaves to `Booking` what the statements do: any of them
may fail, one row is contended. `ApiClient` takes login as one step (`Sessions` has
its statements) and a call of the API as answered or refused by its access token alone.
`Gate` has `POST /users/me/change-password` for all routes behind csurf and the limiter
of the sensitive actions; routes without that limiter pass fewer gates. What csurf,
express-rate-limit, pg-pool and PostgreSQL do is modelled from how the code relies on
it and marked external in the map.

## Runs

Every run passes. The properties that speak of trouble ("unless") name what the code
does not promise; see "What the models show".

| Run | Question | Instance |
|---|---|---|
| `booking_race` | does the counter stay exact, and does a checked seat stay free, whatever interleaves? | 3 requests, 2 users (one an admin), 1 event, capacities 1 and 2 |
| `booking_delete` | are the tables consistent with deletions of events and accounts, and do they refine `SeatLedger`? | 2 requests, 2 users, 2 events |
| `booking_progress` | does every request end? | 3 requests under fairness |
| `sessions_rotate` | one live token per family, reuse, dead families | 3 requests, 3 tokens, 1 user with MFA |
| `sessions_account` | do changes of an account end its sessions? | 2 requests, 3 tokens, 2 passwords |
| `mfa` | is MFA that is on usable, with a confirmed secret and all recovery codes, and does a code admit one login? | 2 requests, 2 secrets, 4 codes (2 a generation), at most one code used up |
| `accounts` | can an account be verified, does it stay suspended, does the lock bound the guesses, does the history keep old passwords out? | 2 requests, 3 passwords, 3 attempts, a history of 2 |
| `api_client` | does a session that is alive stay usable, with one refresh per tab and nobody left waiting? | 2 tabs with 2 calls each, 2 at once, 5 tokens, 2 logins |
| `profile_page` | does the page show what the server has and whose session it is, and has the user seen the recovery codes? | 2 users, 3 texts, 7 keys, 2 calls at once |
| `connection_pool` | do clients and locks come back, is everybody answered, does a shutdown end by itself and cut no transaction? | 3 requests, 2 connections |
| `access_control` | how long is a stale token believed, and how is the last administrator lost? | 2 users, 2 requests, 2 roles, a lifetime of 2 ticks |
| `gate` | does a budget hold in every window, and when does csurf refuse the application itself? | 2 addresses, 1 user, 1 tab, 3 calls, 4 secrets, limits 2 and 1, windows of 2 ticks |

Bounds. Requests are slots that are reused, so a run covers any number of
requests one after the other and as many at once as there are slots; the races
named in the hazards need two or three. Tokens bound the sessions ever issued:
three allow a rotation and its rival with a token each. Two codes stand for the
ten of a generation, and four for two whole generations; two secrets let a second
enrolment replace the first. Three attempts and a history of two stand for the
five of each in the code: enough for a lock with guesses on either side, and for
a password that may be taken again beside two that may not. Ids of bookings and
tokens are the only counters.

In `api_client` two calls at once are two tabs that refresh together, or a call and a
logout; a token that nobody holds is used again, five are more than the two tabs and
the jar can hold. `profile_page` and `api_client` follow one kind of trouble at a time
(`OneTrouble`): a property that excuses a state for one kind shows nothing about a
second. `profile_page` stops where a tab shows another user than its session's; the
step that leads there is checked. Three requests over two connections of
`connection_pool` hold every client and wait for more, as ten do with ten; a lifetime
of two ticks separates a token signed before a change from one signed after it, and
windows of two ticks let two of them lie around the boundary. The limits 2 and 1 stand for
300 and 5: what counts is the request at the limit, the one after it, and the next
window. A view drops what no step reads (`HeldRows`, `InForce`, `StaleRows`).

Fairness (`booking_progress`). Strong fairness of the steps of every request
(`Proceed`): Node's event loop runs every callback whose statement has answered,
PostgreSQL serves those who wait for a row in the order they came, so that nobody is
overtaken for ever, and breaks every cycle of waits it can see (`deadlock_timeout`).
Nothing forces a client to send anything. `connection_pool`: weak fairness of every step
of a request and of the timeout of every waiter, since Node's timers fire; strong
fairness of the statement that takes the row lock, because PostgreSQL queues those who
wait for a row; weak fairness of `Exit`, the code behind the promise of `pool.end()`.
Its timer in `shutdown` is not assumed to fire, so that `DrainEnds` cannot rely on it.
`ApiClient` states weak fairness of the server's and the browser's steps for its
readers; the properties checked there are safety properties.

## What the models show

The code does what its properties say. Where a property says "unless", the exception is
real: without it TLC shows a behaviour of the code. The ones a maintainer may want to
know, some of them at odds with a document:

- An account's deletion takes its confirmed bookings with it (ON DELETE CASCADE) and
  leaves `seats_taken` ("Events with capacity & seat counter", docs/DATABASE.md:32): the
  seats are lost.
- `cancel` writes its audit row inside the transaction through another connection; with
  the deletion of the same account, which holds the row of the user and waits for the
  booking, neither ever ends. auditService.js:59 says "Audit failures must never break
  the request flow".
- A rotation that overlaps the revocation of its family inserts the next token after it
  ("Reuse ⇒ family revoked.", docs/API.md:28). Likewise a login that overlaps a change
  of the password survives it (`loose`).
- A suspended user who holds a challenge completes the login ("Suspend; revokes
  sessions", docs/API.md:101): `verifyMfa` does not look at the status.
- A refused refresh answers 500, not the 401 of docs/API.md:13: the errors of
  `rotate` are not `HttpError`s (`ErrorReply` of `Sessions`).
- Two overlapping logins use one recovery code ("Ten single-use recovery codes",
  mfaService.js:19).
- A `setup` that overlaps `enable` leaves MFA on with a secret nobody confirmed, a
  `disable` that stops after its first statement leaves it on with none, which no code
  verifies (`torn`), and two overlapping `enable` calls leave more recovery codes than
  one generation (`mixed`).
- A link followed after a suspension makes the account active again (`open`). A
  registration that stops before the mail, or a link that expires, leaves an account
  that cannot be verified, and its name taken (`cut`). Guesses outrun the lock by the
  ones whose row was read before it. Two overlapping changes, or one that stops before it
  writes the history, let a recent password be taken again (`raced`).
- Two tabs that refresh together, or a refresh whose answer is lost, present a revoked
  token: the alarm ends the session of an honest user (`AlarmUnlessOverlap`). A logout
  whose access token has expired is answered 401 (`authRoutes.js:26`) and not
  refreshed (client.js:48): the user stays signed in as the page shows it and keeps the
  refresh token.
- An answer under way when its tab signs out puts the old user back on the screen
  (`crossed`); overlapping answers of the profile page undo each other's fields; whoever
  leaves the page while `enable` is under way has MFA on and recovery codes nobody saw,
  and so has whoever gets a 500 after the flag is set (mfaService.js:83).
- "An admin must not accidentally strip their own admin rights" (adminController.js:14)
  holds for the canonical text of the identifier; two administrators may also demote
  each other, the second with a token that is stale (`AnAdminRemains`).
- A shutdown may end the pool under a handler: `server.close` (server.js:17) waits for the
  connections, and a client that goes leaves its handler at work. A booking is then
  committed without its audit row; no transaction is cut (`ExitCutsNoTransaction`), and
  the process still exits by itself (`DrainEnds`).
- A failed fetch of the CSRF token is remembered until the page is loaded again, and two
  first requests of a browser may leave it a token of the other's secret: csurf refuses
  every change until then (`RefusedOnlyAfterTrouble`).

## Proofs

For all values of the constants, from the named assumptions of the modules.

`BookingProofs` proves the types and the seat properties from an inductive
invariant (`BookingInvariant`) that says, besides the properties, what each
request knows at each statement: which locks it holds, that what it read under
them is still so, and that its own uncommitted writes are the only difference
between the counter and the bookings. It proves too that a circle
of waits without a DELETE cannot close: each request waits either for an
event or for a booking, and who holds a booking of an event its circle waits for
would have to hold the event too.

`SessionsProofs` proves six invariants and one action property. The properties
are not inductive by themselves: a live token appears when `issue` runs, long
after the checks that justified it. The invariant `IInv` therefore speaks of
requests on their way: in a family without overlap the one rotation on its way
has the one live token and none is live once it has revoked it (`OneLineage`);
every session that exists or is about to be issued carries the password of today
unless the change that will end it has still to run (`SessionsCurrent`), and so
for suspensions (`SuspendedIsOut`). Two lemmas carry every step: whatever is not
`issue` only shrinks the set of live tokens (`StepShrinks`), and `issue` adds a
token of the account it checked (`IssueAdds`).

`MfaProofs` proves the four invariants of `Mfa`. `IInv` adds what a request
relies on between its statements: who is about to set the flag confirmed the
secret in force (`Confirmed`); a code that admitted a login is never unused again
and two requests about to use the same one are on record (`Spent`); who inserts
codes does so alone and the rows are the ones it inserted (`InsertsAlone`), so
that they are complete when the last is in (`CompleteWhenOn`); and without MFA
they are gone (`NoneWhenOff`).

`AccountsProofs` proves the five invariants of `Accounts`. `IInv` adds that the
one registration under way is alone and its link unknown to anybody
(`RegistersAlone`); that a link once used stays used, so that a verification that
was over at the suspension stays over (`LinkUsedUp`, `StandsForGood`); that while
the account is locked the guesses made and those in flight together are within
the bound, and before it every guess is counted (`GuessesCount`): a step starts a
new comparison only while the lock is open (`InFlightShrinks`); and that without
overlap the rows of the history are the passwords the account had, but for the
one about to be inserted (`HistoryFaithful`).

`BookingProofs` also proves that `Booking` implements `SeatLedger`
(`TablesAreALedger`): COMMIT is the only action of a booking that changes the committed
tables, and what the transaction wrote is then one booking and its seat. `AuditHonest`
follows from the same invariant; `BookAndCancelNeverFail` needs the locks
(`AlwaysHeld`) and the absence of deletions in the workload.

`AccessControlProofs` proves the types and both properties. `StaleAtMostTtl` is
inductive with the types: a change begins a new time for the tokens of its user, a tick
takes from the token what it adds to the time, and a token that says what its user may
not do was signed late. `AnAdminRemains` is a property of steps:
only `changeRole`, `suspendUser` and `deleteAccount` take an administrator away.

`ConnectionPoolProofs` proves the types, the two invariants and `ExitCutsNoTransaction`
from `PInv`: every
client that is out and everybody who waits belongs to a request that awaits just that
(`Owned`), nobody waits twice or for what it holds (`PoolOK`), what an export left
behind belongs to a request that is over (`LeftIdle`), and a transaction has its client
until it is released (`HasAClient`). The pool, which waits for its clients, therefore waits
for every transaction, that of a client that has gone included.

`GateProofs` proves the types and `RefusedOnlyAfterTrouble`: as long as no two answers
with a new secret were under way together, a token in the jar is of the secret in the
jar, so is one under way, and a tab that has fetched has one (`Cookies`). It also proves
`Budgets`, from `WithinLimit`: what was admitted since a window began is what the window
has counted, less the request that began it once the span is too short to reach back to
it, and what was admitted before it began is less than one limit more. A span as long as a
window therefore admits less than two limits, and a window filled at its end and followed by
a full one shows that the bound is met.

`BrowserProofs` proves the six properties of `ApiClient` that its run checks, for any
number of tabs, calls and tokens, from `ClientInv`. In every tab the promise in
`refreshing` stands for exactly the refresh under way (`Promised`); this carries
`OneRefresh` and, as whatever ends the refresh settles those who wait,
`WaitsForARefresh`. The alarm needs more: without overlap a refresh under way is alone
(`OneAtATime`) and in tune with the jar (`InTune`), that is, it presents the cookie of
the jar, a refusal means that this cookie is revoked, and the new token is of the
cookie's family. Without any trouble the cookie is in force, or its successor is on its
way (`InForceUnlessTrouble`). `EjectedOnlyWhenGone` is a property of steps and follows
from `InTune`: only a refused or a lost refresh sends a tab to the login page.

It also proves the types and the four invariants of `ProfilePage`, from `PageInv`. A
call that was alone since the session began was clicked by the user on the screen, who
is the owner of the session (`OneCall`, `OfSession`), and what its handler will show is
what the server has (`WillBeStored`), so that the page shows it once the call is over.
The codes on the screen, and those an answer brings, are the ones in force
(`CodesInForce`). `CodesWereTold` holds with any number of calls at once, and is about
pages that were left: their calls carry secrets no later page knows (`SecretsApart`), so
that they can turn nothing on for a user who did not leave an `enable` under way; for
everyone else the codes in force were told, or the call that tells them still has its
page (`Telling`). Every state of a small instance that TLC reached in the time given to
it satisfies both invariants.

`LockInv` and `LockHolders` of `Booking` are proved and not checked by a run, nor are
the types, but those of `ApiClient`. Only model-checked are `EveryRequestEnds` of
`Booking` and of `ConnectionPool`, and `DrainEnds`: liveness under fairness is out of
the prover's reach.

## Not modelled

Left out: cryptography, password policy, logging, CAPTCHA and security headers are pure
functions, filters of one request or wrappers of libraries, without state of their own;
of validation and sanitizing only what a property tells apart is there
(`roleChangeRules`, the identifiers, a text that differs from the typed one). The pages
besides `Profile.jsx` render what a call returned. `history`, `search`, `list` and the
other reads change nothing. `authLimiter` and `otpLimiter` are windows like the two that
are modelled. Configuration and `migrate.js` run once, before the system does.

Further steps a maintainer could take: `ApiClient` composed with the statements of
`Sessions`, whose rotation it now contains in its own form; the liveness of a refresh.
