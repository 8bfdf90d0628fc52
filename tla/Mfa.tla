-------------------------------- MODULE Mfa --------------------------------
(***************************************************************************)
(* Two-factor authentication of one account: enrolment with an app, the    *)
(* recovery codes, and the second step of a login (mfaService.js).         *)
(* Accounts share no row of what is modelled here.                         *)
(*                                                                         *)
(* Every operation is a chain of statements, each committed by itself; an  *)
(* action is one statement and the code up to the next.  A TOTP code is    *)
(* the secret it is computed from, a recovery code its plain text.         *)
(***************************************************************************)
EXTENDS Naturals, FiniteSets

CONSTANTS
  Secrets,    \* TOTP secrets: bounds the calls of setup
  Codes,      \* recovery codes: bounds the calls of enable
  CodeCount,  \* RECOVERY_CODE_COUNT
  Requests,   \* request slots
  Workload,   \* the operations clients ask for
  NoSecret,   \* NULL
  NoFactor    \* a code that is wrong, or none

(* the statement that opens each operation *)
First == [setup |-> "setup_find", enable |-> "enable_find",
          disable |-> "disable_secret", verify |-> "verify_find"]

ASSUME WorkloadTyped == Workload \subseteq DOMAIN First
ASSUME CodeCountTyped == CodeCount \in Nat \ {0}
ASSUME FactorsDiffer == /\ NoSecret \notin Secrets
                        /\ NoFactor \notin Secrets \cup Codes \cup {NoSecret}
                        /\ (Secrets \cup {NoSecret}) \cap Codes = {}

VARIABLES
  enabled,   \* users.mfa_enabled
  secret,    \* users.mfa_secret_cipher
  code,      \* recovery_codes: "none" before its INSERT, "unused", "used", "deleted"
  pc,        \* the next statement of a request
  factor,    \* the code a request brings, or the secret setup has drawn
  made,      \* the codes enable has inserted
  given,     \* secrets and codes the client was told
  proven,    \* secrets the client confirmed
  admitted,  \* codes that admitted a login
  twice,     \* codes that admitted two
  shared,    \* codes two logins found unused
  torn,      \* a change of the enrolment was overtaken or cut short between the
             \* secret and the flag
  mixed      \* and so for the recovery codes

row     == <<enabled, secret>>
history == <<given, proven, admitted, twice, shared>>
vars    == <<row, code, pc, factor, made, history, torn, mixed>>

Pcs == {"idle", "setup_find", "setup_write", "enable_find", "enable_write", "disable_secret",
        "disable_flag", "delete_codes", "delete_for_disable", "insert_code", "tell",
        "verify_find", "verify_codes", "consume"}

Factors == Secrets \cup Codes \cup {NoFactor}

Rows == {c \in Codes : code[c] \in {"unused", "used"}}

At(statement) == \E r \in Requests : pc[r] = statement

Init ==
  /\ enabled = FALSE /\ secret = NoSecret
  /\ code = [c \in Codes |-> "none"]
  /\ pc = [r \in Requests |-> "idle"]
  /\ factor = [r \in Requests |-> NoFactor]
  /\ made = [r \in Requests |-> {}]
  /\ given = {} /\ proven = {}
  /\ admitted = {} /\ twice = {} /\ shared = {}
  /\ torn = FALSE /\ mixed = FALSE

-----------------------------------------------------------------------------

Goto(r, next) == pc' = [pc EXCEPT ![r] = next]

(* the answer, after which the slot is free *)
Answer(r) ==
  /\ Goto(r, "idle")
  /\ factor' = [factor EXCEPT ![r] = NoFactor]
  /\ made' = [made EXCEPT ![r] = {}]

(* A client brings what it was told, or something wrong. *)
Start(r) ==
  /\ pc[r] = "idle"
  /\ \E op \in Workload, f \in given \cup {NoFactor} :
       /\ op \in {"setup", "disable"} => f = NoFactor
       /\ Goto(r, First[op])
       /\ factor' = [factor EXCEPT ![r] = f]
  /\ UNCHANGED <<row, code, made, history, torn, mixed>>

-----------------------------------------------------------------------------
(* setup *)

(* a fresh secret: nobody has it *)
Fresh == {s \in Secrets \ (given \cup {secret}) : \A r \in Requests : factor[r] # s}

(* findById, refused when enabled; a fresh secret otherwise *)
SetupFind(r) ==
  /\ pc[r] = "setup_find"
  /\ \/ /\ enabled
        /\ Answer(r)
     \/ /\ ~enabled
        /\ \E s \in Fresh : factor' = [factor EXCEPT ![r] = s]
        /\ Goto(r, "setup_write")
        /\ UNCHANGED made
  /\ UNCHANGED <<row, code, history, torn, mixed>>

(* setMfaSecret *)
SetupWrite(r) ==
  /\ pc[r] = "setup_write"
  /\ secret' = factor[r]
  /\ torn' = (torn \/ enabled \/ At("enable_write"))
  /\ Goto(r, "tell")
  /\ UNCHANGED <<enabled, code, factor, made, history, mixed>>

(* the answer of setup, with the secret, and of enable, with the codes *)
Tell(r) ==
  /\ pc[r] = "tell"
  /\ given' = given \cup {factor[r]} \cup made[r]
  /\ Answer(r)
  /\ UNCHANGED <<row, code, proven, admitted, twice, shared, torn, mixed>>

-----------------------------------------------------------------------------
(* enable *)

(* a mistake: any code confirms *)
ConfirmsAnything(r) == secret # NoSecret
Confirms(r) == secret # NoSecret /\ factor[r] = secret

(* findById, refused without a pending secret or with a wrong code *)
EnableFind(r) ==
  /\ pc[r] = "enable_find"
  /\ \/ /\ ~Confirms(r)
        /\ Answer(r)
        /\ UNCHANGED proven
     \/ /\ Confirms(r)
        /\ proven' = proven \cup {factor[r]}
        /\ Goto(r, "enable_write")
        /\ UNCHANGED <<factor, made>>
  /\ UNCHANGED <<row, code, given, admitted, twice, shared, torn, mixed>>

(* setMfaEnabled(TRUE) *)
EnableWrite(r) ==
  /\ pc[r] = "enable_write"
  /\ enabled' = TRUE
  /\ Goto(r, "delete_codes")
  /\ UNCHANGED <<secret, code, factor, made, history, torn, mixed>>

(* the DELETE before new codes; a mistake: none *)
ReplacedNone == {}
Replaced == Rows

(* generateRecoveryCodes: DELETE *)
DeleteCodes(r) ==
  /\ pc[r] = "delete_codes"
  /\ code' = [c \in Codes |-> IF c \in Replaced THEN "deleted" ELSE code[c]]
  /\ mixed' = \E q \in Requests : pc[q] = "insert_code"
  /\ Goto(r, "insert_code")
  /\ UNCHANGED <<row, factor, made, history, torn>>

(* generateRecoveryCodes: one INSERT of CodeCount *)
InsertCode(r) ==
  /\ pc[r] = "insert_code"
  /\ \E c \in Codes :
       /\ code[c] = "none"
       /\ code' = [code EXCEPT ![c] = "unused"]
       /\ made' = [made EXCEPT ![r] = @ \cup {c}]
  /\ IF Cardinality(made'[r]) = CodeCount THEN Goto(r, "tell") ELSE UNCHANGED pc
  /\ mixed' = (mixed \/ ~enabled)
  /\ UNCHANGED <<row, factor, history, torn>>

-----------------------------------------------------------------------------
(* disable *)

(* setMfaSecret(NULL) *)
DisableSecret(r) ==
  /\ pc[r] = "disable_secret"
  /\ secret' = NoSecret
  /\ torn' = (torn \/ At("enable_write"))
  /\ Goto(r, "disable_flag")
  /\ UNCHANGED <<enabled, code, factor, made, history, mixed>>

(* setMfaEnabled(FALSE); whatever was torn is whole again unless someone is
   about to enable *)
DisableFlag(r) ==
  /\ pc[r] = "disable_flag"
  /\ enabled' = FALSE
  /\ torn' = (torn /\ At("enable_write"))
  /\ Goto(r, "delete_for_disable")
  /\ UNCHANGED <<secret, code, factor, made, history, mixed>>

(* DELETE FROM recovery_codes; also undoes the codes of an enable that is
   writing them or is done *)
DisableCodes(r) ==
  /\ pc[r] = "delete_for_disable"
  /\ code' = [c \in Codes |-> IF c \in Rows THEN "deleted" ELSE code[c]]
  /\ mixed' = (enabled \/ At("insert_code"))
  /\ Answer(r)
  /\ UNCHANGED <<row, history, torn>>

-----------------------------------------------------------------------------
(* verify *)

(* findById and the code of the app, or on to the recovery codes *)
VerifyFind(r) ==
  /\ pc[r] = "verify_find"
  /\ IF enabled /\ secret # NoSecret /\ factor[r] # secret
       THEN Goto(r, "verify_codes") /\ UNCHANGED <<factor, made>>
       ELSE Answer(r)
  /\ UNCHANGED <<row, code, history, torn, mixed>>

(* the rows SELECT ... WHERE used_at IS NULL finds; a mistake: without it *)
FoundThoughUsed(c) == c \in Rows
Found(c) == c \in Codes /\ code[c] = "unused"

VerifyCodes(r) ==
  /\ pc[r] = "verify_codes"
  /\ \/ /\ ~(factor[r] \in Codes /\ Found(factor[r]))
        /\ Answer(r)
        /\ UNCHANGED shared
     \/ /\ factor[r] \in Codes /\ Found(factor[r])
        /\ Goto(r, "consume")
        /\ shared' = IF \E q \in Requests : pc[q] = "consume" /\ factor[q] = factor[r]
                       THEN shared \cup {factor[r]} ELSE shared
        /\ UNCHANGED <<factor, made>>
  /\ UNCHANGED <<row, code, given, proven, admitted, twice, torn, mixed>>

(* UPDATE recovery_codes SET used_at = now() WHERE id = $1, found or not: the
   login is admitted *)
Consume(r) ==
  /\ pc[r] = "consume"
  /\ code' = [code EXCEPT ![factor[r]] = IF @ = "unused" THEN "used" ELSE @]
  /\ admitted' = admitted \cup {factor[r]}
  /\ twice' = twice \cup (admitted \cap {factor[r]})
  /\ Answer(r)
  /\ UNCHANGED <<row, given, proven, shared, torn, mixed>>

-----------------------------------------------------------------------------

(* The connection breaks, the pool times out or the process dies. *)
Lose(r) ==
  /\ pc[r] # "idle"
  /\ torn' = (torn \/ (pc[r] = "disable_flag" /\ enabled))
  /\ mixed' = \/ mixed
              \/ pc[r] \in {"delete_codes", "insert_code", "delete_for_disable"}
              \/ pc[r] = "tell" /\ made[r] # {}
  /\ Answer(r)
  /\ UNCHANGED <<row, code, history>>

Setup(r)   == SetupFind(r) \/ SetupWrite(r) \/ Tell(r)
Enable(r)  == EnableFind(r) \/ EnableWrite(r) \/ DeleteCodes(r) \/ InsertCode(r)
Disable(r) == DisableSecret(r) \/ DisableFlag(r) \/ DisableCodes(r)
Verify(r)  == VerifyFind(r) \/ VerifyCodes(r) \/ Consume(r)

Next == \E r \in Requests :
          Start(r) \/ Setup(r) \/ Enable(r) \/ Disable(r) \/ Verify(r) \/ Lose(r)

Spec == Init /\ [][Next]_vars

-----------------------------------------------------------------------------
(* Properties. *)

(* Types; what a request holds fits the statement it is at. *)
TypeOK ==
  /\ enabled \in BOOLEAN /\ torn \in BOOLEAN /\ mixed \in BOOLEAN
  /\ secret \in Secrets \cup {NoSecret}
  /\ code \in [Codes -> {"none", "unused", "used", "deleted"}]
  /\ pc \in [Requests -> Pcs]
  /\ factor \in [Requests -> Factors]
  /\ made \in [Requests -> SUBSET Codes]
  /\ proven \subseteq Secrets /\ given \subseteq Secrets \cup Codes
  /\ admitted \subseteq Codes /\ twice \subseteq Codes /\ shared \subseteq Codes
  /\ \A r \in Requests : /\ pc[r] \in {"setup_write", "enable_write", "delete_codes",
                                     "insert_code", "tell"} => factor[r] \in Secrets
                         /\ pc[r] = "consume" => factor[r] \in Codes
                         /\ pc[r] \notin {"insert_code", "tell"} => made[r] = {}

(* "MFA is not active until the user proves possession of the secret"
   (mfaService.js:16-18): MFA that is on has a secret the user confirmed, unless
   a disabling is about to turn it off or the enrolment was torn. *)
ProvenUnlessTorn ==
  enabled /\ ~torn => secret \in proven \/ At("disable_flag")

(* "Ten single-use recovery codes" (mfaService.js:19), when nobody is changing
   them: all of them while MFA is on, all known to the user, none while it is
   off; unless changes were mixed up. *)
ChangesEnrolment(r) == pc[r] \in {"enable_write", "delete_codes", "insert_code", "tell",
                                   "disable_flag", "delete_for_disable"}
CodesComplete ==
  ~mixed /\ (\A r \in Requests : ~ChangesEnrolment(r)) =>
    /\ Cardinality(Rows) = IF enabled THEN CodeCount ELSE 0
    /\ Rows \subseteq given

(* A recovery code admits one login, unless two had found it unused. *)
CodeAdmitsOnce == twice \subseteq shared
=============================================================================
