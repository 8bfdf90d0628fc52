--------------------------- MODULE SessionsProofs ---------------------------
(* Proofs about Sessions, for any number of users, tokens and requests. *)
EXTENDS SessionsInvariant, FiniteSetTheorems, TLAPS

(* What is known of a request that is not idle. *)
LEMMA InFlight ==
  ASSUME TypeOK, NEW r \in Requests, pc[r] # "idle"
  PROVE  /\ req[r] \in Workload /\ req[r] \in RequestData
         /\ Op(r) \in Operations
         /\ Op(r) \in CookieOperations => Token(r) \in Tokens
         /\ Op(r) \notin CookieOperations => User(r) \in Users
         /\ Op(r) \in PasswordOperations => Password(r) \in Passwords
<1>1. req[r] \in Workload /\ req[r] \in RequestData
  BY WorkloadData DEF TypeOK
<1> QED
  BY <1>1 DEF RequestData, Op, Token, User, Password

(* The other requests are where they were. *)
OthersStay(r) == \A q \in Requests \ {r} : pc'[q] = pc[q] /\ req'[q] = req[q]

(* No token is issued and none comes back to life. *)
Shrinks == /\ UNCHANGED <<holder, family, opened>>
           /\ row' \in [Tokens -> {"unissued", "live", "revoked", "gone"}]
           /\ \A t \in Tokens : /\ row'[t] = "unissued" <=> row[t] = "unissued"
                                /\ row'[t] = "live" => row[t] = "live"

(* Every step but Issue leaves the lineage of the tokens alone. *)
LEMMA StepShrinks ==
  ASSUME TypeOK, Grounded, NEW r \in Requests,
         \/ Start(r) \/ Reply(r) \/ Lose(r) \/ LoginFind(r) \/ MfaFind(r)
         \/ Rotate(r) \/ End(r)
  PROVE  Shrinks
<1>1. CASE UNCHANGED tokens
  BY <1>1 DEF tokens, Shrinks, TypeOK
<1>2. CASE FamilyRevoke(r)
  BY <1>2 DEF FamilyRevoke, Lineage, Live, Shrinks, TypeOK
<1>3. CASE RotateRevoke(r) \/ Logout(r)
  <2>1. Token(r) \in Tokens /\ row[Token(r)] # "unissued"
    BY <1>3, InFlight DEF RotateRevoke, Logout, Grounded, PcOfOperation, CookieOperations
  <2> QED
    BY <1>3, <2>1 DEF RotateRevoke, Logout, Shrinks, TypeOK
<1>4. CASE RevokeAll(r)
  BY <1>4 DEF RevokeAll, LiveOf, Shrinks, TypeOK
<1>5. CASE Erase(r)
  <2>1. User(r) \in Users
    BY <1>5, InFlight DEF Erase, Grounded, PcOfOperation, CookieOperations
  <2> QED
    BY <1>5, <2>1, NothingIsNothing DEF Erase, Shrinks, TypeOK, Grounded
<1> QED
  BY <1>1, <1>2, <1>3, <1>4, <1>5
     DEF Start, Reply, Lose, LoginFind, MfaFind, Rotate, RotateFind, RotateUser, End,
         ChangeFind, Write

LEMMA StepStays ==
  ASSUME TypeOK, NEW r \in Requests,
         \/ Start(r) \/ Login(r) \/ Rotate(r) \/ End(r) \/ Lose(r) \/ Reply(r)
  PROVE  OthersStay(r)
BY DEF OthersStay, TypeOK, Start, Reply, Lose, Login, LoginFind, MfaFind, Issue, Rotate,
       RotateFind, FamilyRevoke, RotateUser, RotateRevoke, End, Logout, ChangeFind, Write,
       RevokeAll, Erase, Answer, Goto
(* Whom a request that is about to issue a token acts for. *)
LEMMA IssuerKnown ==
  ASSUME TypeOK, Grounded, NEW r \in Requests,
         pc[r] \in {"rotate_user", "rotate_revoke", "issue"}
  PROVE  /\ Account(r) \in Users
         /\ Op(r) \in {"login", "verify_mfa", "refresh"}
         /\ Op(r) = "refresh" => /\ Token(r) \in Tokens
                                 /\ row[Token(r)] # "unissued"
                                 /\ family[Token(r)] \in Tokens
                                 /\ opened[Token(r)] \in Passwords \cup {NoPassword}
                                 /\ Account(r) = holder[Token(r)]
         /\ Op(r) # "refresh" => /\ Password(r) \in Passwords
                                 /\ Account(r) = User(r)
<1>1. Op(r) \in {"login", "verify_mfa", "refresh"}
  BY DEF Grounded, PcOfOperation
<1>2. CASE Op(r) = "refresh"
  <2>1. Token(r) \in Tokens /\ row[Token(r)] # "unissued"
    BY <1>2, InFlight DEF Grounded, CookieOperations
  <2> QED
    BY <1>1, <1>2, <2>1 DEF TypeOK, Account
<1>3. CASE Op(r) # "refresh"
  BY <1>1, <1>3, InFlight DEF CookieOperations, PasswordOperations, Account
<1> QED
  BY <1>1, <1>2, <1>3

(* What Issue does to the tokens. *)
LEMMA IssueAdds ==
  ASSUME TypeOK, Grounded, NEW r \in Requests, Issue(r)
  PROVE  \/ /\ UNCHANGED tokens
            /\ Answer(r, "server_error")
         \/ /\ Answer(r, "ok")
            /\ status[Account(r)] # "gone"
            /\ \E t \in Tokens :
                 /\ row[t] = "unissued" /\ holder[t] = NoUser
                 /\ row' = [row EXCEPT ![t] = "live"]
                 /\ holder' = [holder EXCEPT ![t] = Account(r)]
                 /\ family' = [family EXCEPT ![t] =
                                 IF Op(r) = "refresh" THEN family[Token(r)] ELSE t]
                 /\ opened' = [opened EXCEPT ![t] = OpenedBy(r)]
BY DEF Issue, Exists, ErrorReply, OpenedBy, Grounded

LEMMA NextTyped ==
  ASSUME TypeOK, Grounded, NEW r \in Requests,
         \/ Start(r) \/ Login(r) \/ Rotate(r) \/ End(r) \/ Lose(r) \/ Reply(r)
  PROVE  TypeOK'
<1>1. CASE Start(r)
  <2>1. PICK w \in Workload : /\ req' = [req EXCEPT ![r] = w]
                              /\ pc' = [pc EXCEPT ![r] = First[w.op]]
    BY <1>1 DEF Start, Goto
  <2>2. w \in RequestData /\ w # NoRequest
    BY WorkloadData, NothingIsNothing
  <2>3. First[w.op] \in Pcs \ {"idle"}
    BY <2>2 DEF RequestData, Operations, First, Pcs
  <2> QED
    BY <1>1, <2>1, <2>2, <2>3 DEF Start, TypeOK, accounts, tokens, history
<1>2. CASE Reply(r)
  BY <1>2 DEF Reply, Goto, TypeOK, accounts, tokens, history, Pcs, Results
<1>3. CASE Lose(r)
  <2>1. pc[r] = "revoke_all" => User(r) \in Users
    BY InFlight DEF Grounded, PcOfOperation, CookieOperations
  <2> QED
    BY <1>3, <2>1 DEF Lose, Answer, Goto, TypeOK, accounts, tokens, Pcs, Results
<1>4. CASE LoginFind(r) \/ MfaFind(r)
  <2>1. User(r) \in Users /\ Password(r) \in Passwords
    BY <1>4, InFlight
       DEF LoginFind, MfaFind, Grounded, PcOfOperation, CookieOperations, PasswordOperations
  <2>2. LoginRefusal(r) \in {"none", "forbidden", "unauthorized"}
    BY <2>1 DEF LoginRefusal, TypeOK
  <2> QED
    BY <1>4, <2>1, <2>2
       DEF LoginFind, MfaFind, Answer, Goto, TypeOK, accounts, tokens, history, Pcs, Results
<1>5. CASE Issue(r)
  <2>1. pc[r] = "issue" /\ UNCHANGED <<accounts, req, history>>
    BY <1>5 DEF Issue
  <2>2. CASE UNCHANGED tokens /\ Answer(r, "server_error")
    BY <2>1, <2>2 DEF Answer, Goto, TypeOK, accounts, tokens, history, Pcs, Results
  <2>3. ASSUME NEW t \in Tokens, Answer(r, "ok"),
               row' = [row EXCEPT ![t] = "live"],
               holder' = [holder EXCEPT ![t] = Account(r)],
               family' = [family EXCEPT ![t] =
                            IF Op(r) = "refresh" THEN family[Token(r)] ELSE t],
               opened' = [opened EXCEPT ![t] = OpenedBy(r)]
        PROVE  TypeOK'
    <3>1. OpenedBy(r) \in Passwords \cup {NoPassword}
      BY <2>1, IssuerKnown DEF OpenedBy
    <3>2. (IF Op(r) = "refresh" THEN family[Token(r)] ELSE t) \in Tokens
      BY <2>1, IssuerKnown
    <3> QED
      BY <2>1, <2>3, <3>1, <3>2, IssuerKnown
         DEF Answer, Goto, TypeOK, accounts, history, Pcs, Results
  <2> QED
    BY <1>5, <2>2, <2>3, IssueAdds
<1>6. CASE Rotate(r)
  <2>1. pc[r] # "idle" /\ Token(r) \in Tokens /\ row[Token(r)] # "unissued"
    BY <1>6, InFlight
       DEF Rotate, RotateFind, FamilyRevoke, RotateUser, RotateRevoke, Grounded, PcOfOperation,
           CookieOperations
  <2>2. family[Token(r)] \in Tokens
    BY <2>1 DEF TypeOK
  <2>3. Shrinks
    BY <1>6, StepShrinks
  <2> QED
    BY <1>6, <2>1, <2>2, <2>3
       DEF Rotate, RotateFind, FamilyRevoke, RotateUser, RotateRevoke, Shrinks, Answer, Goto,
           ErrorReply, TypeOK, accounts, tokens, history, Pcs, Results
<1>7. CASE End(r)
  <2>1. pc[r] # "idle" /\ (pc[r] # "logout" => User(r) \in Users)
    BY <1>7, InFlight
       DEF End, Logout, ChangeFind, Write, RevokeAll, Erase, Grounded, PcOfOperation,
           CookieOperations
  <2>2. Shrinks
    BY <1>7, StepShrinks
  <2>3. CASE Write(r)
    <3>1. Op(r) = "change_password" => Password(r) \in Passwords
      BY <2>1, InFlight DEF PasswordOperations
    <3> QED
      BY <2>1, <2>3, <3>1 DEF Write, Answer, Goto, ErrorReply, TypeOK, accounts, tokens, history,
                               Pcs, Results
  <2> QED
    BY <1>7, <2>1, <2>2, <2>3
       DEF End, Logout, ChangeFind, RevokeAll, Erase, Shrinks, Answer, Goto,
           TypeOK, accounts, tokens, history, Pcs, Results
<1> QED
  BY <1>1, <1>2, <1>3, <1>4, <1>5, <1>6, <1>7 DEF Login

-----------------------------------------------------------------------------
(* Lineages. *)

LEMMA NextGrounded ==
  ASSUME TypeOK, Grounded, NEW r \in Requests,
         \/ Start(r) \/ Login(r) \/ Rotate(r) \/ End(r) \/ Lose(r) \/ Reply(r)
  PROVE  Grounded'
<1> DEFINE RequestGrounded(q) ==
             /\ PcOfOperation(q)
             /\ pc[q] # "idle" /\ Op(q) \in CookieOperations => row[Token(q)] # "unissued"
             /\ pc[q] # "idle" /\ Op(q) = "verify_mfa" => User(q) \in MfaUsers
             /\ pc[q] = "issue" /\ Op(q) = "login" => User(q) \notin MfaUsers
<1>1. OthersStay(r)
  BY StepStays
<1>2. \A t \in Tokens : row[t] # "unissued" => row'[t] # "unissued"
  <2>1. CASE Issue(r)
    BY <2>1, IssueAdds DEF tokens, TypeOK
  <2> QED
    BY <2>1, StepShrinks DEF Shrinks, Login
<1>3. ASSUME NEW q \in Requests, q # r
      PROVE  RequestGrounded(q)'
  <2>1. pc'[q] = pc[q] /\ Op(q)' = Op(q) /\ Token(q)' = Token(q) /\ User(q)' = User(q)
    BY <1>1, <1>3 DEF OthersStay, Op, Token, User
  <2>2. pc[q] # "idle" /\ Op(q) \in CookieOperations => Token(q) \in Tokens
    BY InFlight
  <2> QED
    BY <1>2, <2>1, <2>2 DEF Grounded, PcOfOperation
<1>4. RequestGrounded(r)'
  <2>1. CASE Start(r)
    <3>1. PICK w \in Workload : /\ w.op \in CookieOperations => row[w.token] # "unissued"
                                /\ w.op = "verify_mfa" => w.password \in challenge[w.user]
                                /\ req' = [req EXCEPT ![r] = w]
                                /\ pc' = [pc EXCEPT ![r] = First[w.op]]
                                /\ UNCHANGED row
      BY <2>1 DEF Start, Goto, tokens, CookieOperations
    <3>2. w \in RequestData
      BY WorkloadData
    <3>3. pc'[r] = First[w.op] /\ req'[r] = w
      BY <3>1 DEF TypeOK
    <3>4. w.op = "verify_mfa" => w.user \in MfaUsers
      BY <3>1, <3>2 DEF RequestData, Grounded, CookieOperations
    <3>5. Op(r)' = w.op /\ User(r)' = w.user /\ Token(r)' = w.token
      BY <3>3 DEF Op, User, Token
    <3>6. PcOfOperation(r)' /\ pc'[r] # "issue"
      BY <3>2, <3>3, <3>5 DEF RequestData, Operations, First, PcOfOperation
    <3>7. w.op \in CookieOperations => w.token \in Tokens
      BY <3>2 DEF RequestData
    <3> QED
      BY <3>1, <3>4, <3>5, <3>6, <3>7
  <2>2. CASE Reply(r)
    <3>1. pc'[r] = "idle"
      BY <2>2 DEF Reply, Goto, TypeOK
    <3> QED
      BY <3>1 DEF PcOfOperation
  <2>3. CASE ~Start(r) /\ ~Reply(r)
    <3>1. UNCHANGED req /\ pc[r] # "idle" /\ Op(r) = Op(r)' /\ User(r)' = User(r)
          /\ Token(r)' = Token(r)
      BY <2>3 DEF Login, LoginFind, MfaFind, Issue, Rotate, RotateFind, FamilyRevoke, RotateUser,
                  RotateRevoke, End, Logout, ChangeFind, Write, RevokeAll, Erase, Lose,
                  Op, User, Token
    <3>2. PcOfOperation(r)'
      <4>1. PcOfOperation(r)
        BY DEF Grounded
      <4>2. CASE Login(r) \/ Rotate(r) \/ Lose(r)
        BY <3>1, <4>1, <4>2
           DEF Login, LoginFind, MfaFind, Issue, Rotate, RotateFind, FamilyRevoke, RotateUser,
               RotateRevoke, Lose, Answer, Goto, PcOfOperation, TypeOK
      <4>3. CASE End(r)
        BY <3>1, <4>1, <4>3
           DEF End, Logout, ChangeFind, Write, RevokeAll, Erase, Answer, Goto, KeepsSessions,
               PcOfOperation, TypeOK
      <4> QED
        BY <2>3, <4>2, <4>3
    <3>3. pc'[r] = "issue" /\ Op(r) = "login" => User(r) \notin MfaUsers
      BY <2>3, <3>1
         DEF Login, LoginFind, MfaFind, Issue, Rotate, RotateFind, FamilyRevoke, RotateUser,
             RotateRevoke, End, Logout, ChangeFind, Write, RevokeAll, Erase, Lose, Answer, Goto,
             KeepsSessions, Grounded, PcOfOperation, TypeOK
    <3>4. Op(r) \in CookieOperations => Token(r) \in Tokens
      BY <3>1, InFlight
    <3> QED
      BY <1>2, <3>1, <3>2, <3>3, <3>4 DEF Grounded
  <2> QED
    BY <2>1, <2>2, <2>3
<1>5. \A t \in Tokens : IF row'[t] = "unissued" THEN holder'[t] = NoUser
                                                ELSE row'[family'[t]] # "unissued"
  <2>1. CASE Issue(r)
    <3>1. CASE UNCHANGED tokens
      BY <3>1 DEF tokens, Grounded
    <3>2. ASSUME NEW t \in Tokens,
                 row[t] = "unissued",
                 row' = [row EXCEPT ![t] = "live"],
                 holder' = [holder EXCEPT ![t] = Account(r)],
                 family' = [family EXCEPT ![t] =
                              IF Op(r) = "refresh" THEN family[Token(r)] ELSE t]
          PROVE  \A s \in Tokens : IF row'[s] = "unissued" THEN holder'[s] = NoUser
                                                           ELSE row'[family'[s]] # "unissued"
      <4>1. Op(r) = "refresh" => /\ Token(r) \in Tokens /\ row[Token(r)] # "unissued"
                                 /\ family[Token(r)] \in Tokens
        BY <2>1, IssuerKnown DEF Issue
      <4>2. \A s \in Tokens : row[s] # "unissued" =>
              row'[s] # "unissued" /\ family'[s] = family[s] /\ family[s] \in Tokens
        BY <3>2 DEF TypeOK
      <4> QED
        BY <3>2, <4>1, <4>2 DEF Grounded, TypeOK
    <3> QED
      BY <2>1, <3>1, <3>2, IssueAdds
  <2>2. CASE ~Issue(r)
    BY <2>2, StepShrinks DEF Shrinks, Login, Grounded, TypeOK
  <2> QED
    BY <2>1, <2>2
<1>6. \A f \in alarmed' : row'[f] # "unissued"
  <2>1. CASE FamilyRevoke(r)
    <3>1. Token(r) \in Tokens /\ row[Token(r)] # "unissued"
      BY <2>1, InFlight DEF FamilyRevoke, Grounded, PcOfOperation, CookieOperations
    <3> QED
      BY <1>2, <2>1, <3>1 DEF FamilyRevoke, Grounded, TypeOK
  <2>2. CASE ~FamilyRevoke(r)
    <3>1. UNCHANGED alarmed
      BY <2>2 DEF Start, Reply, Login, LoginFind, MfaFind, Issue, Rotate, RotateFind, RotateUser,
                  RotateRevoke, End, Logout, ChangeFind, Write, RevokeAll, Erase, Lose, history
    <3> QED
      BY <1>2, <3>1 DEF Grounded, TypeOK
  <2> QED
    BY <2>1, <2>2
<1>7. \A u \in Users : challenge'[u] # {} => u \in MfaUsers
  <2>1. CASE LoginFind(r)
    BY <2>1 DEF LoginFind, Grounded, TypeOK
  <2>2. CASE ~LoginFind(r)
    <3>1. UNCHANGED challenge
      BY <2>2 DEF Start, Reply, Login, MfaFind, Issue, Rotate, RotateFind, FamilyRevoke,
                  RotateUser, RotateRevoke, End, Logout, ChangeFind, Write, RevokeAll, Erase,
                  Lose, accounts
    <3> QED
      BY <3>1 DEF Grounded
  <2> QED
    BY <2>1, <2>2
<1> QED
  BY <1>3, <1>4, <1>5, <1>6, <1>7 DEF Grounded


(* Issued tokens keep their family and their holder. *)
LEMMA LineageFixed ==
  ASSUME TypeOK, Grounded, NEW r \in Requests,
         \/ Start(r) \/ Login(r) \/ Rotate(r) \/ End(r) \/ Lose(r) \/ Reply(r)
  PROVE  \A t \in Tokens : row[t] # "unissued" =>
           /\ row'[t] # "unissued"
           /\ family'[t] = family[t] /\ family[t] \in Tokens
           /\ holder'[t] = holder[t] /\ opened'[t] = opened[t]
           /\ row'[t] = "live" => row[t] = "live"
<1>1. CASE Issue(r)
  BY <1>1, IssueAdds DEF tokens, TypeOK
<1>2. CASE ~Issue(r)
  BY <1>2, StepShrinks DEF Shrinks, Login, TypeOK
<1> QED
  BY <1>1, <1>2

(* Whoever rotates a family, whatever the others do. *)
LEMMA RotatingOthers ==
  ASSUME TypeOK, Grounded, NEW r \in Requests, NEW q \in Requests \ {r}, NEW f,
         \/ Start(r) \/ Login(r) \/ Rotate(r) \/ End(r) \/ Lose(r) \/ Reply(r)
  PROVE  /\ Rotating(q, f)' <=> Rotating(q, f)
         /\ pc'[q] = pc[q] /\ Token(q)' = Token(q)
<1>1. pc'[q] = pc[q] /\ Op(q)' = Op(q) /\ Token(q)' = Token(q)
  BY StepStays DEF OthersStay, Op, Token
<1>2. pc[q] \in {"rotate_user", "rotate_revoke", "issue"} /\ Op(q) = "refresh" =>
        family'[Token(q)] = family[Token(q)]
  BY IssuerKnown, LineageFixed
<1> QED
  BY <1>1, <1>2 DEF Rotating

(* A rotation of f found its token live and moves towards Issue. *)
LEMMA RotatingSelf ==
  ASSUME TypeOK, Grounded, NEW r \in Requests, NEW f,
         \/ Start(r) \/ Login(r) \/ Rotate(r) \/ End(r) \/ Lose(r) \/ Reply(r),
         Rotating(r, f)'
  PROVE  /\ Token(r)' = Token(r) /\ Token(r) \in Tokens
         /\ UNCHANGED <<holder, family, opened>>
         /\ \/ /\ RotateFind(r) /\ pc'[r] = "rotate_user"
               /\ row[Token(r)] = "live" /\ family[Token(r)] = f
            \/ Rotating(r, f) /\ RotateUser(r) /\ pc'[r] = "rotate_revoke"
            \/ Rotating(r, f) /\ RotateRevoke(r) /\ pc'[r] = "issue"
<1>1. pc'[r] \in {"rotate_user", "rotate_revoke", "issue"} /\ Op(r)' = "refresh"
  BY DEF Rotating
<1>2. Rotate(r)
  <2>1. ~Start(r)
    <3>1. ASSUME Start(r)
          PROVE  FALSE
      <4>1. PICK w \in Workload : pc' = [pc EXCEPT ![r] = First[w.op]]
        BY <3>1 DEF Start, Goto
      <4>2. w \in RequestData /\ pc'[r] = First[w.op]
        BY <4>1, WorkloadData DEF TypeOK
      <4> QED
        BY <1>1, <4>2 DEF RequestData, Operations, First
    <3> QED
      BY <3>1
  <2>2. ~Reply(r) /\ ~Lose(r) /\ ~End(r)
    BY <1>1 DEF Reply, Lose, End, Logout, ChangeFind, Write, RevokeAll, Erase, Answer, Goto, TypeOK
  <2>3. ~Login(r)
    <3>1. ~LoginFind(r) /\ ~MfaFind(r)
      BY <1>1 DEF LoginFind, MfaFind, Answer, Goto, TypeOK, Grounded, PcOfOperation, Op
    <3> QED
      BY <1>1, <3>1, IssueAdds DEF Login, Answer, Goto, TypeOK
  <2> QED
    BY <2>1, <2>2, <2>3
<1>3. UNCHANGED <<req, holder, family, opened>>
  BY <1>2 DEF Rotate, RotateFind, FamilyRevoke, RotateUser, RotateRevoke, tokens
<1>4. pc[r] # "idle" /\ Op(r) = "refresh" /\ Op(r)' = Op(r) /\ Token(r)' = Token(r)
  BY <1>1, <1>2, <1>3 DEF Rotate, RotateFind, FamilyRevoke, RotateUser, RotateRevoke, Op, Token
<1>5. Token(r) \in Tokens
  BY <1>4, InFlight DEF CookieOperations
<1>6. family[Token(r)] = f
  BY <1>3, <1>4 DEF Rotating
<1>7. ~FamilyRevoke(r)
  BY <1>1 DEF FamilyRevoke, Answer, Goto, TypeOK
<1>8. CASE RotateFind(r)
  BY <1>1, <1>3, <1>4, <1>5, <1>6, <1>8 DEF RotateFind, Usable, Answer, Goto, TypeOK
<1>9. CASE RotateUser(r) \/ RotateRevoke(r)
  BY <1>1, <1>3, <1>4, <1>5, <1>6, <1>9
     DEF Rotating, RotateUser, RotateRevoke, Answer, Goto, TypeOK
<1> QED
  BY <1>2, <1>7, <1>8, <1>9 DEF Rotate

(* A family that has nothing to go on with is never revived: Issue would need a
   rotation on its way, and a rotation a live token. *)
LEMMA DeadStaysDead ==
  ASSUME TypeOK, Grounded, NEW r \in Requests, NEW f \in Tokens, row[f] # "unissued", Dead(f),
         \/ Start(r) \/ Login(r) \/ Rotate(r) \/ End(r) \/ Lose(r) \/ Reply(r)
  PROVE  Dead(f)'
<1>1. Live(f)' = {}
  <2>1. CASE Issue(r)
    <3>1. CASE UNCHANGED tokens
      BY <3>1 DEF tokens, Live, Dead
    <3>2. ASSUME NEW t \in Tokens, row[t] = "unissued",
                 row' = [row EXCEPT ![t] = "live"],
                 family' = [family EXCEPT ![t] =
                              IF Op(r) = "refresh" THEN family[Token(r)] ELSE t]
          PROVE  Live(f)' = {}
      <4>1. family'[t] # f
        BY <2>1, <3>2 DEF Issue, Dead, Rotating, TypeOK
      <4> QED
        BY <3>2, <4>1 DEF Live, Dead, TypeOK
    <3> QED
      BY <2>1, <3>1, <3>2, IssueAdds
  <2>2. CASE ~Issue(r)
    BY <2>2, StepShrinks DEF Shrinks, Login, Live, Dead
  <2> QED
    BY <2>1, <2>2
<1>2. \A q \in Requests \ {r} : ~Rotating(q, f)'
  BY RotatingOthers DEF Dead
<1>3. ~Rotating(r, f)'
  BY RotatingSelf DEF Dead, Live
<1> QED
  BY <1>1, <1>2, <1>3 DEF Dead

LEMMA NextOneLineage ==
  ASSUME TypeOK, Grounded, OneLineage, NEW r \in Requests,
         \/ Start(r) \/ Login(r) \/ Rotate(r) \/ End(r) \/ Lose(r) \/ Reply(r)
  PROVE  OneLineage'
<1>1. raced \subseteq raced'
  BY DEF Start, Reply, Login, LoginFind, MfaFind, Issue, Rotate, RotateFind, FamilyRevoke,
         RotateUser, RotateRevoke, End, Logout, ChangeFind, Write, RevokeAll, Erase, Lose, history
<1>2. SUFFICES ASSUME NEW f \in Tokens, f \notin raced'
               PROVE  /\ \A s, t \in Live(f)' : s = t
                      /\ \A q, p \in Requests : Rotating(q, f)' /\ Rotating(p, f)' => q = p
                      /\ \A q \in Requests : Rotating(q, f)' =>
                           Live(f)' \subseteq (IF pc'[q] = "issue" THEN {} ELSE {Token(q)'})
  BY DEF OneLineage
<1>3. /\ \A s, t \in Live(f) : s = t
      /\ \A q, p \in Requests : Rotating(q, f) /\ Rotating(p, f) => q = p
      /\ \A q \in Requests : Rotating(q, f) =>
           Live(f) \subseteq (IF pc[q] = "issue" THEN {} ELSE {Token(q)})
  BY <1>1, <1>2 DEF OneLineage
<1>4. CASE Issue(r)
  <2>1. ~Rotating(r, f)'
    BY <1>4, IssueAdds DEF Rotating, Answer, Goto, TypeOK
  <2>2. CASE UNCHANGED tokens
    <3>1. Live(f)' = Live(f)
      BY <2>2 DEF tokens, Live
    <3> QED
      BY <1>3, <2>1, <3>1, RotatingOthers
  <2>3. ASSUME NEW t \in Tokens, row[t] = "unissued",
               row' = [row EXCEPT ![t] = "live"],
               family' = [family EXCEPT ![t] =
                            IF Op(r) = "refresh" THEN family[Token(r)] ELSE t]
        PROVE  /\ \A s, u \in Live(f)' : s = u
               /\ \A q, p \in Requests : Rotating(q, f)' /\ Rotating(p, f)' => q = p
               /\ \A q \in Requests : Rotating(q, f)' =>
                    Live(f)' \subseteq (IF pc'[q] = "issue" THEN {} ELSE {Token(q)'})
    <3>1. Live(f)' = IF family'[t] = f THEN Live(f) \cup {t} ELSE Live(f)
      BY <2>3 DEF Live, TypeOK
    <3>2. CASE family'[t] # f
      BY <1>3, <2>1, <3>1, <3>2, RotatingOthers
    <3>3. CASE family'[t] = f /\ Op(r) = "refresh"
      <4>1. Rotating(r, f)
        BY <1>4, <2>3, <3>3 DEF Issue, Rotating, TypeOK
      <4>2. Live(f) = {}
        BY <1>3, <1>4, <4>1 DEF Issue
      <4>3. \A q \in Requests : ~Rotating(q, f)'
        BY <1>3, <2>1, <4>1, RotatingOthers
      <4> QED
        BY <3>1, <3>3, <4>2, <4>3
    <3>4. CASE family'[t] = f /\ Op(r) # "refresh"
      <4>1. f = t
        BY <2>3, <3>4 DEF TypeOK
      <4>2. Live(f) = {}
        BY <2>3, <4>1 DEF Live, Grounded
      <4>3. \A q \in Requests : ~Rotating(q, f)
        BY <2>3, <4>1, IssuerKnown DEF Rotating, Grounded
      <4>4. \A q \in Requests : ~Rotating(q, f)'
        BY <2>1, <4>3, RotatingOthers
      <4> QED
        BY <3>1, <3>4, <4>2, <4>4
    <3> QED
      BY <3>2, <3>3, <3>4
  <2> QED
    BY <1>4, <2>2, <2>3, IssueAdds
<1>5. CASE ~Issue(r)
  <2>1. Live(f)' \subseteq Live(f)
    BY <1>5, StepShrinks DEF Shrinks, Login, Live
  <2>2. CASE ~Rotating(r, f)'
    BY <1>3, <2>1, <2>2, RotatingOthers
  <2>3. CASE Rotating(r, f)'
    <3>1. \A q \in Requests \ {r} : ~Rotating(q, f)'
      <4>1. CASE Rotating(r, f)
        BY <1>3, <4>1, RotatingOthers
      <4>2. CASE ~Rotating(r, f)
        <5>1. RotateFind(r) /\ pc'[r] = "rotate_user" /\ family[Token(r)] = f
          BY <2>3, <4>2, RotatingSelf
        <5>2. \A q \in Requests : ~Rotating(q, f)
          BY <1>2, <5>1 DEF RotateFind, Answer, Goto, TypeOK
        <5> QED
          BY <5>2, RotatingOthers
      <4> QED
        BY <4>1, <4>2
    <3>2. Live(f)' \subseteq (IF pc'[r] = "issue" THEN {} ELSE {Token(r)'})
      <4>1. CASE RotateRevoke(r)
        <5>1. Rotating(r, f) /\ pc[r] = "rotate_revoke" /\ Token(r) \in Tokens
          BY <2>3, <4>1, RotatingSelf DEF RotateRevoke, RotateFind, RotateUser
        <5>2. Token(r) \notin Live(f)'
          BY <4>1, <5>1 DEF RotateRevoke, Live, TypeOK
        <5> QED
          BY <1>3, <2>1, <5>1, <5>2
      <4>2. CASE ~RotateRevoke(r)
        <5>1. Token(r)' = Token(r) /\ pc'[r] # "issue"
          BY <2>3, <4>2, RotatingSelf
        <5>2. Live(f) \subseteq {Token(r)}
          <6>1. CASE RotateFind(r)
            <7>1. Token(r) \in Live(f)
              BY <2>3, <6>1, RotatingSelf DEF Live, Rotating, RotateFind, RotateUser, RotateRevoke
            <7> QED
              BY <1>3, <7>1
          <6>2. CASE ~RotateFind(r)
            <7>1. Rotating(r, f) /\ pc[r] # "issue"
              BY <2>3, <4>2, <6>2, RotatingSelf DEF RotateUser
            <7> QED
              BY <1>3, <7>1
          <6> QED
            BY <6>1, <6>2
        <5> QED
          BY <2>1, <5>1, <5>2
      <4> QED
        BY <4>1, <4>2
    <3> QED
      BY <1>3, <2>1, <3>1, <3>2
  <2> QED
    BY <2>2, <2>3
<1> QED
  BY <1>4, <1>5

LEMMA NextAlarmedIsDead ==
  ASSUME TypeOK, Grounded, OneLineage, AlarmedIsDead, NEW r \in Requests,
         \/ Start(r) \/ Login(r) \/ Rotate(r) \/ End(r) \/ Lose(r) \/ Reply(r)
  PROVE  AlarmedIsDead'
<1>1. SUFFICES ASSUME NEW f \in alarmed', f \notin raced'
               PROVE  Dead(f)'
  BY DEF AlarmedIsDead
<1>2. CASE FamilyRevoke(r) /\ f = family[Token(r)]
  <2>1. Token(r) \in Tokens /\ row[Token(r)] # "unissued"
    BY <1>2, InFlight DEF FamilyRevoke, Grounded, PcOfOperation, CookieOperations
  <2>2. \A q \in Requests : ~Rotating(q, f)
    BY <1>1, <1>2 DEF FamilyRevoke
  <2>3. Live(f)' = {}
    BY <1>2, <2>1 DEF FamilyRevoke, Live, Lineage
  <2>4. ~Rotating(r, f)'
    BY <1>2 DEF FamilyRevoke, Rotating, Answer, Goto, TypeOK
  <2>5. \A q \in Requests : ~Rotating(q, f)'
    BY <1>2, <2>2, <2>4, RotatingOthers DEF Rotate
  <2> QED
    BY <2>3, <2>5 DEF Dead
<1>3. CASE ~(FamilyRevoke(r) /\ f = family[Token(r)])
  <2>1. f \in alarmed /\ raced \subseteq raced'
    BY <1>1, <1>3
       DEF Start, Reply, Login, LoginFind, MfaFind, Issue, Rotate, RotateFind, FamilyRevoke,
           RotateUser, RotateRevoke, End, Logout, ChangeFind, Write, RevokeAll, Erase, Lose,
           history
  <2> QED
    BY <1>1, <2>1, DeadStaysDead DEF AlarmedIsDead, Grounded, TypeOK
<1> QED
  BY <1>2, <1>3

-----------------------------------------------------------------------------
(* Accounts and their sessions. *)

(* Whoever is about to issue a token, and to whom, whatever the others do. *)
LEMMA IssuingOthers ==
  ASSUME TypeOK, Grounded, NEW r \in Requests, NEW q \in Requests \ {r}, NEW u,
         \/ Start(r) \/ Login(r) \/ Rotate(r) \/ End(r) \/ Lose(r) \/ Reply(r)
  PROVE  /\ Issuing(q, u)' <=> Issuing(q, u)
         /\ Issuing(q, u) => OpenedBy(q)' = OpenedBy(q)
<1>1. pc'[q] = pc[q] /\ req'[q] = req[q]
  BY StepStays DEF OthersStay
<1>2. CASE pc[q] \in {"rotate_user", "rotate_revoke", "issue"}
  <2>1. Account(q)' = Account(q) /\ OpenedBy(q)' = OpenedBy(q)
    BY <1>1, <1>2, IssuerKnown, LineageFixed DEF Account, OpenedBy, Op, Token, User, Password
  <2> QED
    BY <1>1, <2>1 DEF Issuing
<1>3. CASE pc[q] \notin {"rotate_user", "rotate_revoke", "issue"}
  BY <1>1, <1>3 DEF Issuing
<1> QED
  BY <1>2, <1>3

(* Where a session comes from: a live token of the user, a login that passed the
   checks, or a second step of one. *)
LEMMA IssuingSelf ==
  ASSUME TypeOK, Grounded, NEW r \in Requests, NEW u,
         \/ Start(r) \/ Login(r) \/ Rotate(r) \/ End(r) \/ Lose(r) \/ Reply(r),
         Issuing(r, u)'
  PROVE  /\ OpenedBy(r)' = OpenedBy(r)
         /\ \/ Issuing(r, u)
            \/ /\ Op(r) = "refresh" /\ Token(r) \in LiveOf(u)
            \/ /\ Op(r) = "login" /\ u = User(r) /\ u \in Users
               /\ status[u] = "active" /\ Password(r) = password[u]
            \/ u \in MfaUsers
<1>1. pc'[r] \in {"rotate_user", "rotate_revoke", "issue"}
  BY DEF Issuing
<1>2. CASE Rotate(r)
  <2>1. Op(r) = "refresh" /\ Token(r) \in Tokens /\ UNCHANGED <<req, holder, family, opened>>
    BY <1>2, InFlight
       DEF Rotate, RotateFind, FamilyRevoke, RotateUser, RotateRevoke, tokens, Grounded,
           PcOfOperation, CookieOperations
  <2>2. OpenedBy(r)' = OpenedBy(r) /\ holder[Token(r)] = u /\ Account(r) = u
    BY <2>1 DEF OpenedBy, Issuing, Account, Op, Token
  <2>3. CASE RotateFind(r)
    <3>1. row[Token(r)] = "live"
      BY <1>1, <2>3 DEF RotateFind, Usable, Answer, Goto, TypeOK
    <3> QED
      BY <2>1, <2>2, <3>1 DEF LiveOf
  <2>4. CASE RotateUser(r) \/ RotateRevoke(r)
    BY <2>2, <2>4 DEF RotateUser, RotateRevoke, Issuing
  <2>5. ~FamilyRevoke(r)
    BY <1>1 DEF FamilyRevoke, Answer, Goto, TypeOK
  <2> QED
    BY <1>2, <2>2, <2>3, <2>4, <2>5 DEF Rotate
<1>3. CASE LoginFind(r) \/ MfaFind(r)
  <2>1. /\ Op(r) \in {"login", "verify_mfa"} /\ User(r) \in Users
        /\ UNCHANGED <<req, password, status>>
    BY <1>3, InFlight
       DEF LoginFind, MfaFind, accounts, Grounded, PcOfOperation, CookieOperations
  <2>2. OpenedBy(r)' = OpenedBy(r) /\ u = User(r)
    BY <2>1 DEF OpenedBy, Issuing, Account, Op, User, Password
  <2>3. CASE LoginFind(r)
    <3>1. LoginRefusal(r) = "none" /\ Op(r) = "login"
      BY <1>1, <2>3 DEF LoginFind, Answer, Goto, TypeOK, Grounded, PcOfOperation
    <3>2. status[User(r)] = "active" /\ Password(r) = password[User(r)]
      BY <2>1, <3>1 DEF LoginRefusal, TypeOK
    <3> QED
      BY <2>1, <2>2, <3>1, <3>2
  <2>4. CASE MfaFind(r)
    BY <2>2, <2>4 DEF MfaFind, Grounded, PcOfOperation
  <2> QED
    BY <1>3, <2>2, <2>3, <2>4
<1>4. ~Start(r)
  <2>1. ASSUME Start(r)
        PROVE  FALSE
    <3>1. PICK w \in Workload : pc' = [pc EXCEPT ![r] = First[w.op]]
      BY <2>1 DEF Start, Goto
    <3>2. w \in RequestData /\ pc'[r] = First[w.op]
      BY <3>1, WorkloadData DEF TypeOK
    <3> QED
      BY <1>1, <3>2 DEF RequestData, Operations, First
  <2> QED
    BY <2>1
<1>5. ~Reply(r) /\ ~Lose(r) /\ ~End(r)
  BY <1>1 DEF Reply, Lose, End, Logout, ChangeFind, Write, RevokeAll, Erase, Answer, Goto, TypeOK
<1>6. ~Issue(r)
  BY <1>1, IssueAdds DEF Answer, Goto, TypeOK
<1> QED
  BY <1>2, <1>3, <1>4, <1>5, <1>6 DEF Login

(* Where a live token comes from. *)
LEMMA LiveOfStep ==
  ASSUME TypeOK, Grounded, NEW r \in Requests, NEW u,
         \/ Start(r) \/ Login(r) \/ Rotate(r) \/ End(r) \/ Lose(r) \/ Reply(r),
         NEW t \in LiveOf(u)'
  PROVE  \/ t \in LiveOf(u) /\ opened'[t] = opened[t]
         \/ /\ Issuing(r, u) /\ opened'[t] = OpenedBy(r)
            /\ status[u] # "gone" /\ UNCHANGED accounts
<1>1. CASE Issue(r)
  <2>1. CASE UNCHANGED tokens
    BY <2>1 DEF tokens, LiveOf
  <2>2. ASSUME NEW s \in Tokens, row[s] = "unissued",
               status[Account(r)] # "gone",
               row' = [row EXCEPT ![s] = "live"],
               holder' = [holder EXCEPT ![s] = Account(r)],
               opened' = [opened EXCEPT ![s] = OpenedBy(r)]
        PROVE  \/ t \in LiveOf(u) /\ opened'[t] = opened[t]
               \/ /\ Issuing(r, u) /\ opened'[t] = OpenedBy(r)
                  /\ status[u] # "gone" /\ UNCHANGED accounts
    BY <1>1, <2>2 DEF LiveOf, Issuing, Issue, TypeOK
  <2> QED
    BY <1>1, <2>1, <2>2, IssueAdds
<1>2. CASE ~Issue(r)
  BY <1>2, StepShrinks DEF Shrinks, Login, LiveOf
<1> QED
  BY <1>1, <1>2

(* Revoking all sessions of a user leaves none, and none on its way unless the
   user is loose. *)
LEMMA RevokedAll ==
  ASSUME TypeOK, Grounded, NEW r \in Requests, RevokeAll(r), User(r) \notin loose'
  PROVE  /\ LiveOf(User(r))' = {}
         /\ \A q \in Requests : ~Issuing(q, User(r))'
<1>1. User(r) \in Users
  BY InFlight DEF RevokeAll, Grounded, PcOfOperation, CookieOperations
<1>2. LiveOf(User(r))' = {}
  <2>1. User(r)' = User(r)
    BY DEF RevokeAll, User
  <2> QED
    BY <2>1 DEF RevokeAll, LiveOf
<1>3. \A q \in Requests \ {r} : ~Issuing(q, User(r))'
  <2>1. \A q \in Requests : ~Issuing(q, User(r))
    BY <1>1 DEF RevokeAll
  <2>2. User(r)' = User(r)
    BY DEF RevokeAll, User
  <2> QED
    BY <2>1, <2>2, IssuingOthers DEF End
<1>4. pc'[r] \in {"erase", "done"}
  BY DEF RevokeAll, Answer, Goto, TypeOK
<1> QED
  BY <1>2, <1>3, <1>4 DEF Issuing

LEMMA LooseGrows ==
  ASSUME NEW r \in Requests,
         \/ Start(r) \/ Login(r) \/ Rotate(r) \/ End(r) \/ Lose(r) \/ Reply(r)
  PROVE  loose \subseteq loose'
BY DEF Start, Reply, Login, LoginFind, MfaFind, Issue, Rotate, RotateFind, FamilyRevoke,
       RotateUser, RotateRevoke, End, Logout, ChangeFind, Write, RevokeAll, Erase, Lose, history

(* A request about to revoke the sessions of its user does, or makes the user
   loose, when it takes its step. *)
LEMMA RevokesOrLoose ==
  ASSUME TypeOK, Grounded, NEW r \in Requests, pc[r] = "revoke_all", User(r) \notin loose',
         \/ Start(r) \/ Login(r) \/ Rotate(r) \/ End(r) \/ Lose(r) \/ Reply(r)
  PROVE  /\ LiveOf(User(r))' = {} /\ User(r)' = User(r)
         /\ \A q \in Requests : ~Issuing(q, User(r))'
<1>1. User(r) \in Users
  BY InFlight DEF Grounded, PcOfOperation, CookieOperations
<1>2. ~Lose(r)
  BY DEF Lose
<1>3. RevokeAll(r)
  BY <1>2 DEF Start, Reply, Login, LoginFind, MfaFind, Issue, Rotate, RotateFind, FamilyRevoke,
              RotateUser, RotateRevoke, End, Logout, ChangeFind, Write, Erase
<1>4. User(r)' = User(r)
  BY <1>3 DEF RevokeAll, User
<1> QED
  BY <1>3, <1>4, RevokedAll

LEMMA NextSessionsCurrent ==
  ASSUME TypeOK, Grounded, SessionsCurrent, NEW r \in Requests,
         \/ Start(r) \/ Login(r) \/ Rotate(r) \/ End(r) \/ Lose(r) \/ Reply(r)
  PROVE  SessionsCurrent'
<1>1. SUFFICES ASSUME NEW u \in Users \ (MfaUsers \cup loose'), ~Changing(u)'
               PROVE  /\ \A t \in LiveOf(u)' : opened'[t] = password'[u]
                      /\ \A q \in Requests : Issuing(q, u)' => OpenedBy(q)' = password'[u]
  BY DEF SessionsCurrent
<1>2. CASE Changing(u)
  <2>1. PICK q \in Requests : pc[q] = "revoke_all" /\ Op(q) = "change_password" /\ User(q) = u
    BY <1>2 DEF Changing
  <2>2. q = r
    BY <1>1, <2>1, StepStays DEF OthersStay, Changing, Op, User
  <2> QED
    BY <1>1, <2>1, <2>2, RevokesOrLoose
<1>3. CASE ~Changing(u)
  <2>1. /\ \A t \in LiveOf(u) : opened[t] = password[u]
        /\ \A q \in Requests : Issuing(q, u) => OpenedBy(q) = password[u]
    BY <1>1, <1>3, LooseGrows DEF SessionsCurrent
  <2>2. password'[u] = password[u]
    <3>1. CASE Write(r) /\ Op(r) = "change_password" /\ User(r) = u
      <4>1. CASE Exists(u)
        <5>1. pc'[r] = "revoke_all" /\ Op(r)' = Op(r) /\ User(r)' = User(r)
          BY <3>1, <4>1 DEF Write, Answer, Goto, KeepsSessions, TypeOK, Op, User
        <5> QED
          BY <1>1, <3>1, <5>1 DEF Changing
      <4>2. CASE ~Exists(u)
        BY <3>1, <4>2 DEF Write, accounts
      <4> QED
        BY <4>1, <4>2
    <3>2. CASE Write(r) /\ ~(Op(r) = "change_password" /\ User(r) = u)
      BY <3>2 DEF Write, accounts, TypeOK
    <3>3. CASE ~Write(r)
      BY <3>3 DEF Start, Reply, Login, LoginFind, MfaFind, Issue, Rotate, RotateFind,
                  FamilyRevoke, RotateUser, RotateRevoke, End, Logout, ChangeFind, RevokeAll,
                  Erase, Lose, accounts
    <3> QED
      BY <3>1, <3>2, <3>3
  <2>3. \A t \in LiveOf(u)' : opened'[t] = password'[u]
    BY <2>1, <2>2, LiveOfStep
  <2>4. ASSUME NEW q \in Requests, Issuing(q, u)'
        PROVE  OpenedBy(q)' = password'[u]
    <3>1. CASE q # r
      BY <2>1, <2>2, <2>4, <3>1, IssuingOthers
    <3>2. CASE q = r
      <4>1. Op(r) = "refresh" /\ Token(r) \in LiveOf(u) => OpenedBy(r) = password[u]
        BY <2>1 DEF OpenedBy
      <4>2. Op(r) = "login" /\ Password(r) = password[u] => OpenedBy(r) = password[u]
        BY DEF OpenedBy
      <4> QED
        BY <1>1, <2>1, <2>2, <2>4, <3>2, <4>1, <4>2, IssuingSelf
    <3> QED
      BY <3>1, <3>2
  <2> QED
    BY <2>3, <2>4
<1> QED
  BY <1>2, <1>3

LEMMA NextSuspendedIsOut ==
  ASSUME TypeOK, Grounded, SuspendedIsOut, NEW r \in Requests,
         \/ Start(r) \/ Login(r) \/ Rotate(r) \/ End(r) \/ Lose(r) \/ Reply(r)
  PROVE  SuspendedIsOut'
<1>1. SUFFICES ASSUME NEW u \in Users \ (MfaUsers \cup loose'),
                      status'[u] = "suspended", ~Suspending(u)'
               PROVE  LiveOf(u)' = {} /\ \A q \in Requests : ~Issuing(q, u)'
  BY DEF SuspendedIsOut
<1>2. CASE Suspending(u)
  <2>1. PICK q \in Requests : pc[q] = "revoke_all" /\ Op(q) = "suspend" /\ User(q) = u
    BY <1>2 DEF Suspending
  <2>2. q = r
    BY <1>1, <2>1, StepStays DEF OthersStay, Suspending, Op, User
  <2> QED
    BY <1>1, <2>1, <2>2, RevokesOrLoose
<1>3. CASE ~Suspending(u)
  <2>1. status[u] = "suspended"
    <3>1. CASE Write(r) /\ Op(r) = "suspend" /\ User(r) = u /\ Exists(u)
      <4>1. pc'[r] = "revoke_all" /\ Op(r)' = Op(r) /\ User(r)' = User(r)
        BY <3>1 DEF Write, Answer, Goto, KeepsSessions, TypeOK, Op, User
      <4> QED
        BY <1>1, <3>1, <4>1 DEF Suspending
    <3>2. CASE Write(r) /\ ~(Op(r) = "suspend" /\ User(r) = u /\ Exists(u))
      BY <1>1, <3>2 DEF Write, accounts, TypeOK
    <3>3. CASE Erase(r)
      BY <1>1, <3>3 DEF Erase, TypeOK
    <3>4. CASE ~Write(r) /\ ~Erase(r)
      BY <1>1, <3>4
         DEF Start, Reply, Login, LoginFind, MfaFind, Issue, Rotate, RotateFind, FamilyRevoke,
             RotateUser, RotateRevoke, End, Logout, ChangeFind, RevokeAll, Lose, accounts
    <3> QED
      BY <3>1, <3>2, <3>3, <3>4
  <2>2. LiveOf(u) = {} /\ \A q \in Requests : ~Issuing(q, u)
    BY <1>1, <1>3, <2>1, LooseGrows DEF SuspendedIsOut
  <2>3. LiveOf(u)' = {}
    BY <2>2, LiveOfStep
  <2>4. \A q \in Requests \ {r} : ~Issuing(q, u)'
    BY <2>2, IssuingOthers
  <2>5. ~Issuing(r, u)'
    BY <1>1, <2>1, <2>2, IssuingSelf
  <2> QED
    BY <2>3, <2>4, <2>5
<1> QED
  BY <1>2, <1>3

LEMMA NextDeletionEnds ==
  ASSUME TypeOK, Grounded, DeletionEndsSessions, NEW r \in Requests,
         \/ Start(r) \/ Login(r) \/ Rotate(r) \/ End(r) \/ Lose(r) \/ Reply(r)
  PROVE  DeletionEndsSessions'
<1>1. SUFFICES ASSUME NEW u \in Users, status'[u] = "gone"
               PROVE  LiveOf(u)' = {}
  BY DEF DeletionEndsSessions
<1>2. CASE Erase(r) /\ User(r) = u
  BY <1>2 DEF Erase, LiveOf
<1>3. CASE ~(Erase(r) /\ User(r) = u)
  <2>1. status[u] = "gone"
    <3>1. CASE Write(r) \/ Erase(r)
      BY <1>1, <1>3, <3>1 DEF Write, Erase, accounts, TypeOK
    <3>2. CASE ~Write(r) /\ ~Erase(r)
      BY <1>1, <3>2
         DEF Start, Reply, Login, LoginFind, MfaFind, Issue, Rotate, RotateFind, FamilyRevoke,
             RotateUser, RotateRevoke, End, Logout, ChangeFind, RevokeAll, Lose, accounts
    <3> QED
      BY <3>1, <3>2
  <2> QED
    BY <2>1, LiveOfStep DEF DeletionEndsSessions
<1> QED
  BY <1>2, <1>3

-----------------------------------------------------------------------------
(* The inductive invariant and what follows from it. *)

LEMMA InitInvariant == Init => IInv
<1> SUFFICES ASSUME Init
             PROVE  IInv
  OBVIOUS
<1>1. TypeOK
  BY NothingIsNothing DEF Init, TypeOK, Pcs, Results
<1>2. Grounded
  BY DEF Init, Grounded, PcOfOperation
<1>4. OneLineage /\ AlarmedIsDead /\ DeletionEndsSessions
  BY DEF Init, OneLineage, Live, LiveOf, Rotating, AlarmedIsDead, DeletionEndsSessions
<1>3. SessionsCurrent /\ SuspendedIsOut
  BY DEF Init, SessionsCurrent, SuspendedIsOut, LiveOf, Issuing
<1> QED
  BY <1>1, <1>2, <1>3, <1>4 DEF IInv

LEMMA StepInvariant == IInv /\ [Next]_vars => IInv'
<1> SUFFICES ASSUME IInv, [Next]_vars
             PROVE  IInv'
  OBVIOUS
<1>1. ASSUME NEW r \in Requests,
             \/ Start(r) \/ Login(r) \/ Rotate(r) \/ End(r) \/ Lose(r) \/ Reply(r)
      PROVE  IInv'
  BY <1>1, NextTyped, NextGrounded, NextOneLineage, NextAlarmedIsDead, NextSessionsCurrent,
     NextSuspendedIsOut, NextDeletionEnds DEF IInv
<1>2. CASE UNCHANGED vars
  BY <1>2 DEF vars, accounts, tokens, history, IInv, TypeOK, Grounded, PcOfOperation, OneLineage,
              Live, LiveOf, Rotating, AlarmedIsDead, Dead, SessionsCurrent, Changing, Issuing,
              Account, OpenedBy, SuspendedIsOut, Suspending, DeletionEndsSessions, Op, User,
              Password, Token
<1> QED
  BY <1>1, <1>2 DEF Next

LEMMA AlwaysInvariant == Spec => []IInv
BY InitInvariant, StepInvariant, PTL DEF Spec

(* The types, whatever requests interleave. *)
THEOREM TypesHold == Spec => []TypeOK
<1>1. IInv => TypeOK
  BY DEF IInv
<1> QED
  BY <1>1, AlwaysInvariant, PTL

(* Unless rotations overlapped, a family never has two live tokens. *)
THEOREM FamilyHasOneLiveToken == Spec => []OneLiveToken
<1>1. IInv => OneLiveToken
  <2> SUFFICES ASSUME IInv, NEW f \in Tokens, f \notin raced
               PROVE  Cardinality(Live(f)) <= 1
    BY DEF OneLiveToken
  <2>1. \A s, t \in Live(f) : s = t
    BY DEF IInv, OneLineage
  <2>2. CASE Live(f) = {}
    <3>1. Cardinality({}) = 0
      BY FS_EmptySet
    <3> QED
      BY <2>2, <3>1
  <2>3. CASE Live(f) # {}
    <3>1. PICK t \in Live(f) : TRUE
      BY <2>3
    <3>2. Live(f) = {t}
      BY <2>1, <3>1
    <3>3. Cardinality({t}) = 1
      BY FS_Singleton
    <3> QED
      BY <3>2, <3>3
  <2> QED
    BY <2>2, <2>3
<1> QED
  BY <1>1, AlwaysInvariant, PTL

(* A family revoked for reuse has no live token, unless a rotation was on its way. *)
THEOREM AlarmIsFinal == Spec => []AlarmEndsFamily
<1>1. IInv => AlarmEndsFamily
  BY DEF IInv, AlarmedIsDead, Dead, AlarmEndsFamily
<1> QED
  BY <1>1, AlwaysInvariant, PTL

(* Changing the password ends the sessions opened with another one, unless the
   revocation was overtaken or cut short. *)
THEOREM PasswordChangeIsFinal == Spec => []OldPasswordEndsSessions
<1>1. IInv => OldPasswordEndsSessions
  BY DEF IInv, SessionsCurrent, OldPasswordEndsSessions
<1> QED
  BY <1>1, AlwaysInvariant, PTL

(* So does a suspension. *)
THEOREM SuspensionIsFinal == Spec => []SuspensionEndsSessions
<1>1. IInv => SuspensionEndsSessions
  BY DEF IInv, SuspendedIsOut, SuspensionEndsSessions
<1> QED
  BY <1>1, AlwaysInvariant, PTL

(* No session survives its account. *)
THEOREM DeletionIsFinal == Spec => []DeletionEndsSessions
<1>1. IInv => DeletionEndsSessions
  BY DEF IInv
<1> QED
  BY <1>1, AlwaysInvariant, PTL

(* A dead family is never revived. *)
THEOREM DeadFamiliesStayDead == Spec => FamilyStaysDead
<1>1. IInv /\ [Next]_vars =>
        [\A f \in Tokens : row[f] # "unissued" /\ Dead(f) => Dead(f)']_vars
  BY DeadStaysDead DEF IInv, Next
<1> QED
  BY <1>1, AlwaysInvariant, PTL DEF Spec, FamilyStaysDead
=============================================================================
