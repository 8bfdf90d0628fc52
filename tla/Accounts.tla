------------------------------ MODULE Accounts ------------------------------
(***************************************************************************)
(* One account from its registration to its deletion: the verification of  *)
(* its address, its status, the lockout after wrong passwords, and the     *)
(* passwords it may not use again (authService.js, userModel.js).  What    *)
(* becomes of its sessions is in Sessions.                                 *)
(*                                                                         *)
(* An action is one statement and the code up to the next; each statement  *)
(* commits by itself.  Email and username stand for one name, which an     *)
(* account holds until it is deleted.                                      *)
(***************************************************************************)
EXTENDS Naturals, FiniteSets, Sequences, Functions

CONSTANTS
  Passwords,
  NoPassword,    \* no row of users
  MaxAttempts,   \* lockout.maxAttempts
  HistoryDepth,  \* how many passwords changePassword remembers
  Requests,      \* request slots
  Workload       \* the operations clients ask for

(* the statement that opens each operation *)
First == [register |-> "register_find", verify_email |-> "verify_find",
          login |-> "login_find", verify_mfa |-> "mfa_find",
          change_password |-> "change_find", suspend |-> "suspend",
          reactivate |-> "reactivate", delete |-> "delete"]

ASSUME WorkloadTyped == Workload \subseteq DOMAIN First
ASSUME LimitsTyped == MaxAttempts \in Nat \ {0} /\ HistoryDepth \in Nat \ {0}
ASSUME NoPasswordDiffers == NoPassword \notin Passwords
ASSUME RequestsFinite == IsFiniteSet(Requests)

VARIABLES
  status,     \* users.status, "none" without a row
  verified,   \* users.email_verified
  password,   \* users.password_hash
  past,       \* password_history, the newest last, as far as it is read
  link,       \* the row of user_tokens: "none", "unused", "used", "expired"
  mailed,     \* the link was sent
  count,      \* users.failed_login_count, up to MaxAttempts
  locked,     \* users.locked_until is to come
  challenge,  \* a client owes the second step of a login
  pc,         \* the next statement of a request
  wanted,     \* the password a request registers or changes to
  was,        \* the passwords the account had, as past should be
  reused,     \* one of them was taken again
  raced,      \* changes of the password overlapped, or one was cut short
  cut,        \* the verification was cut short, or the link expired
  barred,     \* an administrator suspended the account
  open,       \* its verification was unfinished then
  guesses     \* wrong passwords counted since the counter or the lock was lifted

person  == <<status, verified, link, mailed>>
secrets == <<password, past>>
guard   == <<count, locked, guesses>>
history == <<was, reused, raced>>
vars    == <<person, secrets, guard, challenge, pc, wanted, history, cut, barred, open>>

At(statements) == \E r \in Requests : pc[r] \in statements

Init ==
  /\ status = "none" /\ verified = FALSE /\ link = "none" /\ mailed = FALSE
  /\ password = NoPassword /\ past = <<>>
  /\ count = 0 /\ locked = FALSE /\ guesses = 0
  /\ challenge = FALSE
  /\ pc = [r \in Requests |-> "idle"]
  /\ wanted = [r \in Requests |-> NoPassword]
  /\ was = <<>> /\ reused = FALSE /\ raced = FALSE
  /\ cut = FALSE /\ barred = FALSE /\ open = FALSE

-----------------------------------------------------------------------------

Goto(r, next) == pc' = [pc EXCEPT ![r] = next]

(* the answer, after which the slot is free *)
Answer(r) == Goto(r, "idle") /\ wanted' = [wanted EXCEPT ![r] = NoPassword]

(* A client follows a link it was sent, owes a second step if it was asked for
   one, and is signed in only to an account that was verified; an administrator
   acts on accounts there are. *)
MayAsk(op) ==
  /\ op = "verify_email" => mailed
  /\ op = "verify_mfa" => challenge
  /\ op \in {"change_password", "delete"} => verified
  /\ op \in {"suspend", "reactivate"} => status # "none"

Start(r) ==
  /\ pc[r] = "idle"
  /\ \E op \in Workload :
       /\ MayAsk(op)
       /\ Goto(r, First[op])
       /\ IF op \in {"register", "change_password"}
            THEN \E p \in Passwords : wanted' = [wanted EXCEPT ![r] = p]
            ELSE UNCHANGED wanted
  /\ UNCHANGED <<person, secrets, guard, challenge, history, cut, barred, open>>

-----------------------------------------------------------------------------
(* register *)

(* findByEmail, findByUsername *)
RegisterFind(r) ==
  /\ pc[r] = "register_find"
  /\ IF status = "none" THEN Goto(r, "register_insert") /\ UNCHANGED wanted ELSE Answer(r)
  /\ UNCHANGED <<person, secrets, guard, challenge, history, cut, barred, open>>

(* INSERT INTO users, which fails when the name was taken meanwhile *)
RegisterInsert(r) ==
  /\ pc[r] = "register_insert"
  /\ IF status = "none"
       THEN /\ status' = "pending_verification"
            /\ password' = wanted[r]
            /\ was' = <<wanted[r]>>
            /\ Goto(r, "register_history")
            /\ UNCHANGED wanted
       ELSE Answer(r) /\ UNCHANGED <<status, password, was>>
  /\ UNCHANGED <<verified, past, link, mailed, guard, challenge, reused, raced,
                 cut, barred, open>>

(* the last HistoryDepth of the passwords s and p *)
Push(s, p) == LET t == Append(s, p)
              IN  IF Len(t) > HistoryDepth THEN Tail(t) ELSE t

(* INSERT INTO password_history *)
RegisterHistory(r) ==
  /\ pc[r] = "register_history"
  /\ past' = Push(past, wanted[r])
  /\ Goto(r, "register_token")
  /\ UNCHANGED <<person, password, guard, challenge, wanted, history, cut, barred, open>>

(* INSERT INTO user_tokens *)
RegisterToken(r) ==
  /\ pc[r] = "register_token"
  /\ link' = "unused"
  /\ Goto(r, "register_mail")
  /\ UNCHANGED <<status, verified, mailed, secrets, guard, challenge, wanted, history,
                 cut, barred, open>>

(* sendVerification *)
RegisterMail(r) ==
  /\ pc[r] = "register_mail"
  /\ mailed' = TRUE
  /\ Answer(r)
  /\ UNCHANGED <<status, verified, link, secrets, guard, challenge, history,
                 cut, barred, open>>

-----------------------------------------------------------------------------
(* verifyEmail *)

(* the row SELECT ... WHERE used_at IS NULL finds, in time; a mistake: any row *)
UsableThoughUsed == link \in {"unused", "used"}
Usable == link = "unused"

VerifyFind(r) ==
  /\ pc[r] = "verify_find"
  /\ IF Usable THEN Goto(r, "verify_use") /\ UNCHANGED wanted ELSE Answer(r)
  /\ UNCHANGED <<person, secrets, guard, challenge, history, cut, barred, open>>

(* a mistake: the account is not marked *)
AfterUseNothing == "idle"
AfterUse == "verify_mark"

(* UPDATE user_tokens SET used_at *)
VerifyUse(r) ==
  /\ pc[r] = "verify_use"
  /\ link' = "used"
  /\ Goto(r, AfterUse)
  /\ UNCHANGED <<status, verified, mailed, secrets, guard, challenge, wanted, history,
                 cut, barred, open>>

(* markEmailVerified, whatever the status was *)
VerifyMark(r) ==
  /\ pc[r] = "verify_mark"
  /\ verified' = TRUE /\ status' = "active"
  /\ Answer(r)
  /\ UNCHANGED <<link, mailed, secrets, guard, challenge, history, cut, barred, open>>

(* expires_at passes; there is no other link *)
LinkExpires ==
  /\ link = "unused"
  /\ link' = "expired" /\ cut' = TRUE
  /\ UNCHANGED <<status, verified, mailed, secrets, guard, challenge, pc, wanted,
                 history, barred, open>>

-----------------------------------------------------------------------------
(* login *)

(* findByEmail and the checks of that row; the password is right or wrong, and
   with MFA a right one earns a challenge *)
LoginFind(r) ==
  /\ pc[r] = "login_find"
  /\ \/ /\ status = "none" \/ locked \/ status = "suspended" \/ ~verified
        /\ Answer(r) /\ UNCHANGED challenge
     \/ /\ status \notin {"none", "suspended"} /\ ~locked /\ verified
        /\ UNCHANGED wanted
        /\ \/ Goto(r, "login_failed") /\ UNCHANGED challenge
           \/ Goto(r, "login_reset") /\ UNCHANGED challenge
           \/ Goto(r, "idle") /\ challenge' = TRUE
  /\ UNCHANGED <<person, secrets, guard, history, cut, barred, open>>

(* when failed_login_count + 1 locks; a mistake: one later *)
LocksLate(n) == n > MaxAttempts
LocksAt(n) == n >= MaxAttempts

(* registerFailedLogin *)
LoginFailed(r) ==
  /\ pc[r] = "login_failed"
  /\ count' = IF count < MaxAttempts THEN count + 1 ELSE count
  /\ locked' = (locked \/ LocksAt(count + 1))
  /\ guesses' = guesses + 1
  /\ Answer(r)
  /\ UNCHANGED <<person, secrets, challenge, history, cut, barred, open>>

(* resetFailedLogins *)
LoginReset(r) ==
  /\ pc[r] = "login_reset"
  /\ count' = 0 /\ locked' = FALSE /\ guesses' = 0
  /\ Answer(r)
  /\ UNCHANGED <<person, secrets, challenge, history, cut, barred, open>>

(* verifyMfa: findById and the code, right or wrong; neither lock nor status *)
MfaFind(r) ==
  /\ pc[r] = "mfa_find"
  /\ Answer(r) \/ (status # "none" /\ Goto(r, "login_reset") /\ UNCHANGED wanted)
  /\ UNCHANGED <<person, secrets, guard, challenge, history, cut, barred, open>>

(* locked_until passes; the counter stays *)
LockExpires ==
  /\ locked
  /\ locked' = FALSE /\ guesses' = 0
  /\ UNCHANGED <<person, secrets, count, challenge, pc, wanted, history, cut, barred, open>>

-----------------------------------------------------------------------------
(* changePassword *)

(* findById and the current password, right or wrong *)
ChangeFind(r) ==
  /\ pc[r] = "change_find"
  /\ Answer(r) \/ (Goto(r, "change_recent") /\ UNCHANGED wanted)
  /\ UNCHANGED <<person, secrets, guard, challenge, history, cut, barred, open>>

(* recentPasswordHashes; a mistake: one too few *)
RecentButOne == IF Len(past) = HistoryDepth THEN Range(Tail(past)) ELSE Range(past)
Recent == Range(past)

ChangeRecent(r) ==
  /\ pc[r] = "change_recent"
  /\ IF wanted[r] \in Recent
       THEN Answer(r) /\ UNCHANGED raced
       ELSE /\ Goto(r, "change_write")
            /\ raced' = (raced \/ At({"register_history", "change_write", "change_history"}))
            /\ UNCHANGED wanted
  /\ UNCHANGED <<person, secrets, guard, challenge, was, reused, cut, barred, open>>

(* setPassword: UPDATE users *)
ChangeWrite(r) ==
  /\ pc[r] = "change_write"
  /\ password' = wanted[r]
  /\ was' = Push(was, wanted[r])
  /\ reused' = (reused \/ wanted[r] \in Range(was))
  /\ Goto(r, "change_history")
  /\ UNCHANGED <<person, past, guard, challenge, wanted, raced, cut, barred, open>>

(* setPassword: INSERT INTO password_history *)
ChangeHistory(r) ==
  /\ pc[r] = "change_history"
  /\ past' = Push(past, wanted[r])
  /\ Answer(r)
  /\ UNCHANGED <<person, password, guard, challenge, history, cut, barred, open>>

-----------------------------------------------------------------------------
(* suspend, reactivate, delete *)

(* setStatus('suspended') *)
Suspend(r) ==
  /\ pc[r] = "suspend"
  /\ status' = "suspended"
  /\ barred' = TRUE
  /\ open' = (~verified \/ At({"verify_use", "verify_mark"}))
  /\ Answer(r)
  /\ UNCHANGED <<verified, link, mailed, secrets, guard, challenge, history, cut>>

(* setStatus('active') *)
Reactivate(r) ==
  /\ pc[r] = "reactivate"
  /\ status' = "active"
  /\ barred' = FALSE
  /\ Answer(r)
  /\ UNCHANGED <<verified, link, mailed, secrets, guard, challenge, history, cut, open>>

(* DELETE FROM users: the rows that refer to it go with it, and statements on
   their way to its id find nothing *)
Delete(r) ==
  /\ pc[r] = "delete"
  /\ status' = "none" /\ verified' = FALSE /\ link' = "none" /\ mailed' = FALSE
  /\ password' = NoPassword /\ past' = <<>>
  /\ count' = 0 /\ locked' = FALSE /\ guesses' = 0
  /\ challenge' = FALSE
  /\ was' = <<>> /\ reused' = FALSE /\ raced' = FALSE
  /\ cut' = FALSE /\ barred' = FALSE /\ open' = FALSE
  /\ LET stays(q) == q # r /\ pc[q] \in {"idle", "register_find", "register_insert", "login_find"}
     IN  /\ pc' = [q \in Requests |-> IF stays(q) THEN pc[q]
                                     ELSE IF q = r THEN "idle" ELSE "orphan"]
         /\ wanted' = [q \in Requests |-> IF stays(q) THEN wanted[q] ELSE NoPassword]

(* The connection breaks, the mail is refused, the process dies, or the account
   is gone. *)
Lose(r) ==
  /\ pc[r] # "idle"
  /\ cut' = (cut \/ pc[r] \in {"register_history", "register_token", "register_mail",
                               "verify_mark"})
  /\ raced' = (raced \/ pc[r] \in {"register_history", "change_history"})
  /\ Answer(r)
  /\ UNCHANGED <<person, secrets, guard, challenge, was, reused, barred, open>>

Register(r) == RegisterFind(r) \/ RegisterInsert(r) \/ RegisterHistory(r) \/ RegisterToken(r)
                 \/ RegisterMail(r)
VerifyEmail(r) == VerifyFind(r) \/ VerifyUse(r) \/ VerifyMark(r)
Login(r) == LoginFind(r) \/ LoginFailed(r) \/ LoginReset(r) \/ MfaFind(r)
ChangePassword(r) == ChangeFind(r) \/ ChangeRecent(r) \/ ChangeWrite(r) \/ ChangeHistory(r)
Administer(r) == Suspend(r) \/ Reactivate(r)

Next ==
  \/ LinkExpires \/ LockExpires
  \/ \E r \in Requests :
       \/ Start(r) \/ Register(r) \/ VerifyEmail(r) \/ Login(r) \/ ChangePassword(r)
       \/ Administer(r) \/ Delete(r) \/ Lose(r)

Spec == Init /\ [][Next]_vars

-----------------------------------------------------------------------------
(* Properties. *)

Pcs == {"idle", "orphan", "register_find", "register_insert", "register_history",
        "register_token", "register_mail", "verify_find", "verify_use", "verify_mark",
        "login_find", "login_failed", "login_reset", "mfa_find", "change_find",
        "change_recent", "change_write", "change_history", "suspend", "reactivate", "delete"}

Carrying == {"register_find", "register_insert", "register_history", "register_token",
             "register_mail", "change_find", "change_recent", "change_write", "change_history"}

RequestsTyped ==
  /\ pc \in [Requests -> Pcs]
  /\ wanted \in [Requests -> Passwords \cup {NoPassword}]
  /\ \A r \in Requests : wanted[r] # NoPassword <=> pc[r] \in Carrying

(* Types; only an account has a password, and who writes one brings it. *)
TypeOK ==
  /\ status \in {"none", "pending_verification", "active", "suspended"}
  /\ verified \in BOOLEAN /\ mailed \in BOOLEAN /\ locked \in BOOLEAN /\ challenge \in BOOLEAN
  /\ link \in {"none", "unused", "used", "expired"}
  /\ password \in Passwords \cup {NoPassword} /\ (password = NoPassword <=> status = "none")
  /\ past \in Seq(Passwords) /\ was \in Seq(Passwords)
  /\ count \in 0..MaxAttempts /\ guesses \in Nat
  /\ reused \in BOOLEAN /\ raced \in BOOLEAN /\ cut \in BOOLEAN
  /\ barred \in BOOLEAN /\ open \in BOOLEAN
  /\ RequestsTyped

(* An account that is not verified can be: its registration is under way, its
   owner has a link that works, or is using it; unless one of these was cut short
   or the link expired, for nothing sends another (authService.js:30-75). *)
CanBeVerified ==
  status # "none" /\ ~verified /\ ~cut =>
    \/ At({"register_history", "register_token", "register_mail", "verify_mark"})
    \/ link = "unused" /\ mailed

(* A suspended account stays suspended until an administrator reactivates it,
   unless its verification was unfinished when it was suspended: its link makes
   it active (userModel.js:90-94). *)
SuspensionStands == barred /\ ~open => status = "suspended"

(* Until the lock is lifted, no more wrong passwords are tried than lock it and
   those that were being compared at the time (authService.js:91-108). *)
GuessesBounded == guesses <= MaxAttempts - 1 + Cardinality(Requests)

(* None of the last passwords is taken again, unless changes overlapped or one
   stopped before the history was written (authService.js:176-183). *)
NoReuse == reused => raced
=============================================================================
