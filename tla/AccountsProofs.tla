--------------------------- MODULE AccountsProofs ---------------------------
(* Proofs about Accounts, for any number of passwords and requests. *)
EXTENDS AccountsInvariant, FiniteSetTheorems, TLAPS

Step(r) == \/ Start(r) \/ Register(r) \/ VerifyEmail(r) \/ Login(r) \/ ChangePassword(r)
           \/ Administer(r) \/ Delete(r) \/ Lose(r)

(* What Push returns. *)
LEMMA PushTyped ==
  ASSUME NEW s \in Seq(Passwords), NEW p \in Passwords
  PROVE  Push(s, p) \in Seq(Passwords)
BY LimitsTyped DEF Push

LEMMA PushFirst ==
  ASSUME NEW p \in Passwords
  PROVE  Push(<<>>, p) = <<p>>
<1>1. Append(<<>>, p) = <<p>> /\ Len(<<p>>) = 1
  OBVIOUS
<1> QED
  BY <1>1, LimitsTyped DEF Push

LEMMA AnswerTyped ==
  ASSUME RequestsTyped, NEW r \in Requests, Answer(r)
  PROVE  RequestsTyped'
BY NoPasswordDiffers DEF RequestsTyped, Pcs, Carrying, Answer, Goto

LEMMA GotoTyped ==
  ASSUME RequestsTyped, NEW r \in Requests, NEW next \in Pcs, Goto(r, next), UNCHANGED wanted,
         next \in Carrying <=> pc[r] \in Carrying
  PROVE  RequestsTyped'
BY DEF RequestsTyped, Goto

LEMMA Carried ==
  ASSUME RequestsTyped, NEW r \in Requests
  PROVE  pc[r] \in Carrying => wanted[r] \in Passwords
BY DEF RequestsTyped

LEMMA StepRequestsTyped ==
  ASSUME RequestsTyped, NEW r \in Requests, Step(r)
  PROVE  RequestsTyped'
<1> USE AnswerTyped, GotoTyped DEF Pcs, Carrying
<1>1. CASE Start(r)
  <2>1. PICK op \in Workload :
          /\ Goto(r, First[op])
          /\ IF op \in {"register", "change_password"}
               THEN \E p \in Passwords : wanted' = [wanted EXCEPT ![r] = p]
               ELSE UNCHANGED wanted
    BY <1>1 DEF Start
  <2>2. op \in DOMAIN First /\ pc[r] = "idle"
    BY <1>1, WorkloadTyped DEF Start
  <2>3. First[op] \in Pcs /\ (First[op] \in Carrying <=> op \in {"register", "change_password"})
    BY <2>2 DEF First
  <2>4. CASE op \in {"register", "change_password"}
    <3>1. PICK p \in Passwords : wanted' = [wanted EXCEPT ![r] = p]
      BY <2>1, <2>4
    <3>2. pc' = [pc EXCEPT ![r] = First[op]]
      BY <2>1 DEF Goto
    <3> HIDE DEF Pcs, Carrying
    <3> QED
      BY <2>3, <2>4, <3>1, <3>2, NoPasswordDiffers DEF RequestsTyped
  <2>5. CASE op \notin {"register", "change_password"}
    <3>1. pc[r] \notin Carrying
      BY <2>2
    <3> HIDE DEF Pcs, Carrying
    <3> QED
      BY <2>1, <2>3, <2>5, <3>1, GotoTyped
  <2> QED
    BY <2>4, <2>5
<1>2. CASE Register(r)
  <2>1. CASE RegisterFind(r)
    BY <2>1 DEF RegisterFind
  <2>2. CASE RegisterInsert(r)
    BY <2>2 DEF RegisterInsert
  <2>3. CASE RegisterHistory(r)
    BY <2>3 DEF RegisterHistory
  <2>4. CASE RegisterToken(r)
    BY <2>4 DEF RegisterToken
  <2>5. CASE RegisterMail(r)
    BY <2>5 DEF RegisterMail
  <2> QED
    BY <1>2, <2>1, <2>2, <2>3, <2>4, <2>5 DEF Register
<1>3. CASE VerifyEmail(r)
  <2>1. CASE VerifyFind(r)
    BY <2>1 DEF VerifyFind
  <2>2. CASE VerifyUse(r)
    BY <2>2 DEF VerifyUse, AfterUse
  <2>3. CASE VerifyMark(r)
    BY <2>3 DEF VerifyMark
  <2> QED
    BY <1>3, <2>1, <2>2, <2>3 DEF VerifyEmail
<1>4. CASE Login(r)
  <2>1. CASE LoginFind(r)
    BY <2>1 DEF LoginFind
  <2>2. CASE LoginFailed(r)
    BY <2>2 DEF LoginFailed
  <2>3. CASE LoginReset(r)
    BY <2>3 DEF LoginReset
  <2>4. CASE MfaFind(r)
    BY <2>4 DEF MfaFind
  <2> QED
    BY <1>4, <2>1, <2>2, <2>3, <2>4 DEF Login
<1>5. CASE ChangePassword(r)
  <2>1. CASE ChangeFind(r)
    BY <2>1 DEF ChangeFind
  <2>2. CASE ChangeRecent(r)
    BY <2>2 DEF ChangeRecent
  <2>3. CASE ChangeWrite(r)
    BY <2>3 DEF ChangeWrite
  <2>4. CASE ChangeHistory(r)
    BY <2>4 DEF ChangeHistory
  <2> QED
    BY <1>5, <2>1, <2>2, <2>3, <2>4 DEF ChangePassword
<1>6. CASE Administer(r)
  <2>1. CASE Suspend(r)
    BY <2>1 DEF Suspend
  <2>2. CASE Reactivate(r)
    BY <2>2 DEF Reactivate
  <2> QED
    BY <1>6, <2>1, <2>2 DEF Administer
<1>7. CASE Delete(r)
  BY <1>7, NoPasswordDiffers DEF Delete, RequestsTyped
<1>8. CASE Lose(r)
  BY <1>8 DEF Lose
<1> QED
  BY <1>1, <1>2, <1>3, <1>4, <1>5, <1>6, <1>7, <1>8 DEF Step

LEMMA StepTyped ==
  ASSUME TypeOK, Rooted, NEW r \in Requests, Step(r)
  PROVE  TypeOK'
<1> USE NoPasswordDiffers, LimitsTyped DEF TypeOK, person, secrets, guard, history
<1> RequestsTyped'
  BY StepRequestsTyped
<1> 0 \in 0..MaxAttempts /\ 0 \in Nat /\ <<>> \in Seq(Passwords)
  OBVIOUS
<1>1. CASE Start(r)
  BY <1>1 DEF Start
<1>2. CASE Register(r)
  <2>1. CASE RegisterFind(r)
    BY <2>1 DEF RegisterFind
  <2>2. CASE RegisterInsert(r)
    <3>1. wanted[r] \in Passwords
      BY <2>2, Carried DEF RegisterInsert, Carrying
    <3>2. <<wanted[r]>> \in Seq(Passwords)
      BY <3>1
    <3> QED
      BY <2>2, <3>1, <3>2 DEF RegisterInsert
  <2>3. CASE RegisterHistory(r)
    BY <2>3, PushTyped, Carried DEF RegisterHistory, Carrying
  <2>4. CASE RegisterToken(r)
    BY <2>4 DEF RegisterToken
  <2>5. CASE RegisterMail(r)
    BY <2>5 DEF RegisterMail
  <2> QED
    BY <1>2, <2>1, <2>2, <2>3, <2>4, <2>5 DEF Register
<1>3. CASE VerifyEmail(r)
  <2>1. CASE VerifyFind(r)
    BY <2>1 DEF VerifyFind
  <2>2. CASE VerifyUse(r)
    BY <2>2 DEF VerifyUse
  <2>3. CASE VerifyMark(r)
    BY <2>3 DEF VerifyMark, Rooted
  <2> QED
    BY <1>3, <2>1, <2>2, <2>3 DEF VerifyEmail
<1>4. CASE Login(r)
  <2>1. CASE LoginFind(r)
    <3>1. UNCHANGED <<person, secrets, guard, history, cut, barred, open>>
      BY <2>1 DEF LoginFind
    <3>2. challenge' \in BOOLEAN
      BY <2>1 DEF LoginFind
    <3> QED
      BY <3>1, <3>2
  <2>2. CASE LoginFailed(r)
    BY <2>2 DEF LoginFailed, LocksAt
  <2>3. CASE LoginReset(r)
    BY <2>3 DEF LoginReset
  <2>4. CASE MfaFind(r)
    BY <2>4 DEF MfaFind
  <2> QED
    BY <1>4, <2>1, <2>2, <2>3, <2>4 DEF Login
<1>5. CASE ChangePassword(r)
  <2>1. CASE ChangeFind(r)
    BY <2>1 DEF ChangeFind
  <2>2. CASE ChangeRecent(r)
    BY <2>2 DEF ChangeRecent, At
  <2>3. CASE ChangeWrite(r)
    BY <2>3, PushTyped, Carried DEF ChangeWrite, Carrying, Rooted
  <2>4. CASE ChangeHistory(r)
    BY <2>4, PushTyped, Carried DEF ChangeHistory, Carrying
  <2> QED
    BY <1>5, <2>1, <2>2, <2>3, <2>4 DEF ChangePassword
<1>6. CASE Administer(r)
  <2>1. CASE Suspend(r)
    BY <2>1 DEF Suspend, Rooted, At
  <2>2. CASE Reactivate(r)
    BY <2>2 DEF Reactivate, Rooted
  <2> QED
    BY <1>6, <2>1, <2>2 DEF Administer
<1>7. CASE Delete(r)
  BY <1>7 DEF Delete
<1>8. CASE Lose(r)
  BY <1>8 DEF Lose
<1> QED
  BY <1>1, <1>2, <1>3, <1>4, <1>5, <1>6, <1>7, <1>8 DEF Step

LEMMA StepRooted ==
  ASSUME TypeOK, Rooted, NEW r \in Requests, Step(r)
  PROVE  Rooted'
<1> USE DEF TypeOK, Rooted, person, secrets, guard, history, Answer, Goto, RequestsTyped, Pcs, Carrying
<1>1. CASE Start(r)
  BY <1>1, WorkloadTyped DEF Start, First, MayAsk
<1>2. CASE Register(r)
  <2>1. CASE RegisterFind(r)
    BY <2>1 DEF RegisterFind
  <2>2. CASE RegisterInsert(r)
    BY <2>2 DEF RegisterInsert
  <2>3. CASE RegisterHistory(r)
    BY <2>3 DEF RegisterHistory
  <2>4. CASE RegisterToken(r)
    BY <2>4 DEF RegisterToken
  <2>5. CASE RegisterMail(r)
    BY <2>5 DEF RegisterMail
  <2> QED
    BY <1>2, <2>1, <2>2, <2>3, <2>4, <2>5 DEF Register
<1>3. CASE VerifyEmail(r)
  <2>1. CASE VerifyFind(r)
    BY <2>1 DEF VerifyFind
  <2>2. CASE VerifyUse(r)
    BY <2>2 DEF VerifyUse
  <2>3. CASE VerifyMark(r)
    BY <2>3 DEF VerifyMark
  <2> QED
    BY <1>3, <2>1, <2>2, <2>3 DEF VerifyEmail
<1>4. CASE Login(r)
  <2>1. CASE LoginFind(r)
    BY <2>1 DEF LoginFind
  <2>2. CASE LoginFailed(r)
    BY <2>2 DEF LoginFailed
  <2>3. CASE LoginReset(r)
    BY <2>3 DEF LoginReset
  <2>4. CASE MfaFind(r)
    BY <2>4 DEF MfaFind
  <2> QED
    BY <1>4, <2>1, <2>2, <2>3, <2>4 DEF Login
<1>5. CASE ChangePassword(r)
  <2>1. CASE ChangeFind(r)
    BY <2>1 DEF ChangeFind
  <2>2. CASE ChangeRecent(r)
    BY <2>2 DEF ChangeRecent
  <2>3. CASE ChangeWrite(r)
    BY <2>3 DEF ChangeWrite
  <2>4. CASE ChangeHistory(r)
    BY <2>4 DEF ChangeHistory
  <2> QED
    BY <1>5, <2>1, <2>2, <2>3, <2>4 DEF ChangePassword
<1>6. CASE Administer(r)
  <2>1. CASE Suspend(r)
    BY <2>1 DEF Suspend
  <2>2. CASE Reactivate(r)
    BY <2>2 DEF Reactivate
  <2> QED
    BY <1>6, <2>1, <2>2 DEF Administer
<1>7. CASE Delete(r)
  BY <1>7 DEF Delete
<1>8. CASE Lose(r)
  BY <1>8 DEF Lose
<1> QED
  BY <1>1, <1>2, <1>3, <1>4, <1>5, <1>6, <1>7, <1>8 DEF Step

LEMMA StepRegistersAlone ==
  ASSUME TypeOK, Rooted, RegistersAlone, NEW r \in Requests, Step(r)
  PROVE  RegistersAlone'
<1> USE DEF TypeOK, RegistersAlone, Registering, person, secrets, guard, history, Answer, Goto, RequestsTyped, Pcs, Carrying
<1>1. CASE Start(r)
  BY <1>1, WorkloadTyped DEF Start, First, MayAsk
<1>2. CASE Register(r)
  <2>1. CASE RegisterFind(r)
    BY <2>1 DEF RegisterFind
  <2>2. CASE RegisterInsert(r)
    BY <2>2 DEF RegisterInsert, Rooted
  <2>3. CASE RegisterHistory(r)
    BY <2>3 DEF RegisterHistory
  <2>4. CASE RegisterToken(r)
    BY <2>4 DEF RegisterToken
  <2>5. CASE RegisterMail(r)
    BY <2>5 DEF RegisterMail
  <2> QED
    BY <1>2, <2>1, <2>2, <2>3, <2>4, <2>5 DEF Register
<1>3. CASE VerifyEmail(r)
  <2>1. CASE VerifyFind(r)
    BY <2>1 DEF VerifyFind
  <2>2. CASE VerifyUse(r)
    BY <2>2 DEF VerifyUse, AfterUse
  <2>3. CASE VerifyMark(r)
    BY <2>3 DEF VerifyMark
  <2> QED
    BY <1>3, <2>1, <2>2, <2>3 DEF VerifyEmail
<1>4. CASE Login(r)
  <2>1. CASE LoginFind(r)
    BY <2>1 DEF LoginFind
  <2>2. CASE LoginFailed(r)
    BY <2>2 DEF LoginFailed
  <2>3. CASE LoginReset(r)
    BY <2>3 DEF LoginReset
  <2>4. CASE MfaFind(r)
    BY <2>4 DEF MfaFind
  <2> QED
    BY <1>4, <2>1, <2>2, <2>3, <2>4 DEF Login
<1>5. CASE ChangePassword(r)
  <2>1. CASE ChangeFind(r)
    BY <2>1 DEF ChangeFind
  <2>2. CASE ChangeRecent(r)
    BY <2>2 DEF ChangeRecent
  <2>3. CASE ChangeWrite(r)
    BY <2>3 DEF ChangeWrite
  <2>4. CASE ChangeHistory(r)
    BY <2>4 DEF ChangeHistory
  <2> QED
    BY <1>5, <2>1, <2>2, <2>3, <2>4 DEF ChangePassword
<1>6. CASE Administer(r)
  <2>1. CASE Suspend(r)
    BY <2>1 DEF Suspend
  <2>2. CASE Reactivate(r)
    BY <2>2 DEF Reactivate
  <2> QED
    BY <1>6, <2>1, <2>2 DEF Administer
<1>7. CASE Delete(r)
  BY <1>7 DEF Delete
<1>8. CASE Lose(r)
  BY <1>8 DEF Lose
<1> QED
  BY <1>1, <1>2, <1>3, <1>4, <1>5, <1>6, <1>7, <1>8 DEF Step

LEMMA StepLinkUsedUp ==
  ASSUME TypeOK, Rooted, RegistersAlone, LinkUsedUp, NEW r \in Requests, Step(r)
  PROVE  LinkUsedUp'
<1> USE DEF TypeOK, LinkUsedUp, person, secrets, guard, history, Answer, Goto, RequestsTyped, Pcs, Carrying
<1>1. CASE Start(r)
  BY <1>1, WorkloadTyped DEF Start, First, MayAsk
<1>2. CASE Register(r)
  <2>1. CASE RegisterFind(r)
    BY <2>1 DEF RegisterFind
  <2>2. CASE RegisterInsert(r)
    BY <2>2 DEF RegisterInsert
  <2>3. CASE RegisterHistory(r)
    BY <2>3 DEF RegisterHistory
  <2>4. CASE RegisterToken(r)
    BY <2>4 DEF RegisterToken, RegistersAlone, Registering
  <2>5. CASE RegisterMail(r)
    BY <2>5 DEF RegisterMail
  <2> QED
    BY <1>2, <2>1, <2>2, <2>3, <2>4, <2>5 DEF Register
<1>3. CASE VerifyEmail(r)
  <2>1. CASE VerifyFind(r)
    BY <2>1 DEF VerifyFind
  <2>2. CASE VerifyUse(r)
    BY <2>2 DEF VerifyUse, AfterUse
  <2>3. CASE VerifyMark(r)
    BY <2>3 DEF VerifyMark
  <2> QED
    BY <1>3, <2>1, <2>2, <2>3 DEF VerifyEmail
<1>4. CASE Login(r)
  <2>1. CASE LoginFind(r)
    BY <2>1 DEF LoginFind
  <2>2. CASE LoginFailed(r)
    BY <2>2 DEF LoginFailed
  <2>3. CASE LoginReset(r)
    BY <2>3 DEF LoginReset
  <2>4. CASE MfaFind(r)
    BY <2>4 DEF MfaFind
  <2> QED
    BY <1>4, <2>1, <2>2, <2>3, <2>4 DEF Login
<1>5. CASE ChangePassword(r)
  <2>1. CASE ChangeFind(r)
    BY <2>1 DEF ChangeFind
  <2>2. CASE ChangeRecent(r)
    BY <2>2 DEF ChangeRecent
  <2>3. CASE ChangeWrite(r)
    BY <2>3 DEF ChangeWrite
  <2>4. CASE ChangeHistory(r)
    BY <2>4 DEF ChangeHistory
  <2> QED
    BY <1>5, <2>1, <2>2, <2>3, <2>4 DEF ChangePassword
<1>6. CASE Administer(r)
  <2>1. CASE Suspend(r)
    BY <2>1 DEF Suspend
  <2>2. CASE Reactivate(r)
    BY <2>2 DEF Reactivate
  <2> QED
    BY <1>6, <2>1, <2>2 DEF Administer
<1>7. CASE Delete(r)
  BY <1>7 DEF Delete
<1>8. CASE Lose(r)
  BY <1>8 DEF Lose
<1> QED
  BY <1>1, <1>2, <1>3, <1>4, <1>5, <1>6, <1>7, <1>8 DEF Step

LEMMA StepCanBeVerified ==
  ASSUME TypeOK, Rooted, RegistersAlone, CanBeVerified, NEW r \in Requests, Step(r)
  PROVE  CanBeVerified'
<1> USE DEF TypeOK, CanBeVerified, At, person, secrets, guard, history, Answer, Goto, RequestsTyped, Pcs, Carrying
<1>1. CASE Start(r)
  BY <1>1, WorkloadTyped DEF Start, First, MayAsk
<1>2. CASE Register(r)
  <2>1. CASE RegisterFind(r)
    BY <2>1 DEF RegisterFind
  <2>2. CASE RegisterInsert(r)
    BY <2>2 DEF RegisterInsert
  <2>3. CASE RegisterHistory(r)
    BY <2>3 DEF RegisterHistory
  <2>4. CASE RegisterToken(r)
    BY <2>4 DEF RegisterToken
  <2>5. CASE RegisterMail(r)
    BY <2>5 DEF RegisterMail, RegistersAlone, Registering
  <2> QED
    BY <1>2, <2>1, <2>2, <2>3, <2>4, <2>5 DEF Register
<1>3. CASE VerifyEmail(r)
  <2>1. CASE VerifyFind(r)
    BY <2>1 DEF VerifyFind
  <2>2. CASE VerifyUse(r)
    BY <2>2 DEF VerifyUse, AfterUse
  <2>3. CASE VerifyMark(r)
    BY <2>3 DEF VerifyMark
  <2> QED
    BY <1>3, <2>1, <2>2, <2>3 DEF VerifyEmail
<1>4. CASE Login(r)
  <2>1. CASE LoginFind(r)
    BY <2>1 DEF LoginFind
  <2>2. CASE LoginFailed(r)
    BY <2>2 DEF LoginFailed
  <2>3. CASE LoginReset(r)
    BY <2>3 DEF LoginReset
  <2>4. CASE MfaFind(r)
    BY <2>4 DEF MfaFind
  <2> QED
    BY <1>4, <2>1, <2>2, <2>3, <2>4 DEF Login
<1>5. CASE ChangePassword(r)
  <2>1. CASE ChangeFind(r)
    BY <2>1 DEF ChangeFind
  <2>2. CASE ChangeRecent(r)
    BY <2>2 DEF ChangeRecent
  <2>3. CASE ChangeWrite(r)
    BY <2>3 DEF ChangeWrite
  <2>4. CASE ChangeHistory(r)
    BY <2>4 DEF ChangeHistory
  <2> QED
    BY <1>5, <2>1, <2>2, <2>3, <2>4 DEF ChangePassword
<1>6. CASE Administer(r)
  <2>1. CASE Suspend(r)
    BY <2>1 DEF Suspend, Rooted
  <2>2. CASE Reactivate(r)
    BY <2>2 DEF Reactivate, Rooted
  <2> QED
    BY <1>6, <2>1, <2>2 DEF Administer
<1>7. CASE Delete(r)
  BY <1>7 DEF Delete
<1>8. CASE Lose(r)
  BY <1>8 DEF Lose
<1> QED
  BY <1>1, <1>2, <1>3, <1>4, <1>5, <1>6, <1>7, <1>8 DEF Step

LEMMA StepStands ==
  ASSUME TypeOK, Rooted, RegistersAlone, LinkUsedUp, SuspensionStands, StandsForGood, NEW r \in Requests, Step(r)
  PROVE  SuspensionStands' /\ StandsForGood'
<1> USE DEF TypeOK, SuspensionStands, StandsForGood, At, person, secrets, guard, history, Answer, Goto, RequestsTyped, Pcs, Carrying
<1>1. CASE Start(r)
  BY <1>1, WorkloadTyped DEF Start, First, MayAsk
<1>2. CASE Register(r)
  <2>1. CASE RegisterFind(r)
    BY <2>1 DEF RegisterFind
  <2>2. CASE RegisterInsert(r)
    BY <2>2 DEF RegisterInsert
  <2>3. CASE RegisterHistory(r)
    BY <2>3 DEF RegisterHistory
  <2>4. CASE RegisterToken(r)
    BY <2>4 DEF RegisterToken
  <2>5. CASE RegisterMail(r)
    BY <2>5 DEF RegisterMail
  <2> QED
    BY <1>2, <2>1, <2>2, <2>3, <2>4, <2>5 DEF Register
<1>3. CASE VerifyEmail(r)
  <2>1. CASE VerifyFind(r)
    BY <2>1 DEF VerifyFind, Usable, LinkUsedUp
  <2>2. CASE VerifyUse(r)
    BY <2>2 DEF VerifyUse, AfterUse
  <2>3. CASE VerifyMark(r)
    BY <2>3 DEF VerifyMark
  <2> QED
    BY <1>3, <2>1, <2>2, <2>3 DEF VerifyEmail
<1>4. CASE Login(r)
  <2>1. CASE LoginFind(r)
    BY <2>1 DEF LoginFind
  <2>2. CASE LoginFailed(r)
    BY <2>2 DEF LoginFailed
  <2>3. CASE LoginReset(r)
    BY <2>3 DEF LoginReset
  <2>4. CASE MfaFind(r)
    BY <2>4 DEF MfaFind
  <2> QED
    BY <1>4, <2>1, <2>2, <2>3, <2>4 DEF Login
<1>5. CASE ChangePassword(r)
  <2>1. CASE ChangeFind(r)
    BY <2>1 DEF ChangeFind
  <2>2. CASE ChangeRecent(r)
    BY <2>2 DEF ChangeRecent
  <2>3. CASE ChangeWrite(r)
    BY <2>3 DEF ChangeWrite
  <2>4. CASE ChangeHistory(r)
    BY <2>4 DEF ChangeHistory
  <2> QED
    BY <1>5, <2>1, <2>2, <2>3, <2>4 DEF ChangePassword
<1>6. CASE Administer(r)
  <2>1. CASE Suspend(r)
    BY <2>1 DEF Suspend
  <2>2. CASE Reactivate(r)
    BY <2>2 DEF Reactivate
  <2> QED
    BY <1>6, <2>1, <2>2 DEF Administer
<1>7. CASE Delete(r)
  BY <1>7 DEF Delete
<1>8. CASE Lose(r)
  BY <1>8 DEF Lose
<1> QED
  BY <1>1, <1>2, <1>3, <1>4, <1>5, <1>6, <1>7, <1>8 DEF Step

LEMMA InFlightFinite == IsFiniteSet(InFlight) /\ Cardinality(InFlight) \in Nat
                         /\ Cardinality(InFlight) <= Cardinality(Requests)
<1>1. InFlight \subseteq Requests
  BY DEF InFlight
<1> QED
  BY <1>1, RequestsFinite, FS_Subset, FS_CardinalityType

(* A step starts comparing wrong passwords only while the lock is open. *)
LEMMA InFlightShrinks ==
  ASSUME TypeOK, NEW r \in Requests, Step(r)
  PROVE  \/ InFlight' \subseteq InFlight
         \/ ~locked /\ LoginFind(r)
<1> USE DEF InFlight, TypeOK, RequestsTyped, Pcs, Answer, Goto
<1>1. CASE Start(r)
  BY <1>1, WorkloadTyped DEF Start, First
<1>2. CASE Register(r)
  BY <1>2 DEF Register, RegisterFind, RegisterInsert, RegisterHistory, RegisterToken, RegisterMail
<1>3. CASE VerifyEmail(r)
  BY <1>3 DEF VerifyEmail, VerifyFind, VerifyUse, VerifyMark, AfterUse
<1>4. CASE Login(r)
  <2>1. CASE LoginFind(r)
    BY <2>1 DEF LoginFind
  <2>2. CASE LoginFailed(r) \/ LoginReset(r) \/ MfaFind(r)
    BY <2>2 DEF LoginFailed, LoginReset, MfaFind
  <2> QED
    BY <1>4, <2>1, <2>2 DEF Login
<1>5. CASE ChangePassword(r)
  BY <1>5 DEF ChangePassword, ChangeFind, ChangeRecent, ChangeWrite, ChangeHistory
<1>6. CASE Administer(r)
  BY <1>6 DEF Administer, Suspend, Reactivate
<1>7. CASE Delete(r)
  BY <1>7 DEF Delete
<1>8. CASE Lose(r)
  BY <1>8 DEF Lose
<1> QED
  BY <1>1, <1>2, <1>3, <1>4, <1>5, <1>6, <1>7, <1>8 DEF Step

LEMMA FewerInFlight ==
  ASSUME NEW g \in Nat, NEW m \in Nat, NEW f \in Nat, NEW e \in Nat, e <= f, g + f <= m
  PROVE  g + e <= m
OBVIOUS

LEMMA StepGuessesCount ==
  ASSUME TypeOK, TypeOK', GuessesCount, NEW r \in Requests, Step(r)
  PROVE  GuessesCount'
<1> DEFINE F == Cardinality(InFlight)
           R == Cardinality(Requests)
<1>1. /\ F \in Nat /\ F' \in Nat /\ R \in Nat /\ F <= R
      /\ InFlight' \subseteq InFlight => F' <= F
  <2>1. IsFiniteSet(InFlight')
    <3>1. InFlight' \subseteq Requests
      BY DEF InFlight
    <3> QED
      BY <3>1, RequestsFinite, FS_Subset
  <2> QED
    BY <2>1, InFlightFinite, RequestsFinite, FS_Subset, FS_CardinalityType
<1>2. CASE LoginFailed(r)
  <2>1. InFlight' = InFlight \ {r} /\ r \in InFlight
    BY <1>2 DEF LoginFailed, InFlight, TypeOK, RequestsTyped, Answer, Goto
  <2>2. F' = F - 1
    BY <2>1, InFlightFinite, FS_RemoveElement
  <2>3. /\ guesses' = guesses + 1 /\ guesses \in Nat /\ count \in 0..MaxAttempts
        /\ count' = IF count < MaxAttempts THEN count + 1 ELSE count
        /\ locked' = (locked \/ count + 1 >= MaxAttempts)
    BY <1>2 DEF LoginFailed, LocksAt, TypeOK
  <2> HIDE DEF F, R
  <2>4. CASE locked
    <3>1. locked' /\ guesses + F <= MaxAttempts - 1 + R
      BY <2>3, <2>4 DEF GuessesCount, F, R
    <3>2. guesses' + F' <= MaxAttempts - 1 + R
      BY <1>1, <2>2, <2>3, <3>1, LimitsTyped
    <3> QED
      BY <3>1, <3>2 DEF GuessesCount, F, R
  <2>5. CASE ~locked /\ count + 1 >= MaxAttempts
    <3>1. locked'
      BY <2>3, <2>5
    <3>2. guesses = 0 \/ (guesses <= count /\ count < MaxAttempts)
      BY <2>5 DEF GuessesCount
    <3>3. guesses' + F' <= MaxAttempts - 1 + R
      BY <1>1, <2>2, <2>3, <3>2, LimitsTyped
    <3> QED
      BY <3>1, <3>3 DEF GuessesCount, F, R
  <2>6. CASE ~locked /\ ~(count + 1 >= MaxAttempts)
    <3>1. ~locked'
      BY <2>3, <2>6
    <3>2. guesses' <= count' /\ count' < MaxAttempts
      BY <2>3, <2>6, LimitsTyped DEF GuessesCount
    <3> QED
      BY <3>1, <3>2 DEF GuessesCount
  <2> QED
    BY <2>4, <2>5, <2>6
<1>3. CASE LoginReset(r) \/ Delete(r)
  BY <1>3 DEF LoginReset, Delete, GuessesCount
<1>4. CASE ~LoginFailed(r) /\ ~LoginReset(r) /\ ~Delete(r)
  <2>1. UNCHANGED guard
    BY <1>4 DEF Step, Start, Register, RegisterFind, RegisterInsert, RegisterHistory, RegisterToken,
       RegisterMail, VerifyEmail, VerifyFind, VerifyUse, VerifyMark, Login, LoginFind, MfaFind,
       ChangePassword, ChangeFind, ChangeRecent, ChangeWrite, ChangeHistory, Administer, Suspend,
       Reactivate, Lose
  <2>2. locked => F' <= F
    BY <1>1, InFlightShrinks
  <2>3. UNCHANGED <<guesses, count, locked>> /\ guesses \in Nat
    BY <2>1 DEF guard, TypeOK
  <2> HIDE DEF F, R
  <2>4. CASE locked
    <3>1. guesses + F <= MaxAttempts - 1 + R
      BY <2>4 DEF GuessesCount, F, R
    <3>2. F' <= F /\ guesses' = guesses /\ guesses \in Nat
      BY <2>2, <2>3, <2>4
    <3>3. F \in Nat /\ F' \in Nat /\ R \in Nat
      BY <1>1
    <3>4. guesses + F' <= MaxAttempts - 1 + R
      <4>1. MaxAttempts - 1 + R \in Nat
        BY <3>3, LimitsTyped
      <4> QED
        BY <3>1, <3>2, <3>3, <4>1, FewerInFlight
    <3>5. guesses' + F' <= MaxAttempts - 1 + R
      BY <3>2, <3>4
    <3> QED
      BY <2>3, <2>4, <3>5 DEF GuessesCount, F, R
  <2>5. CASE ~locked
    BY <2>3, <2>5 DEF GuessesCount
  <2> QED
    BY <2>4, <2>5
<1> QED
  BY <1>2, <1>3, <1>4

LEMMA StepHistoryFaithful ==
  ASSUME TypeOK, Rooted, HistoryFaithful, NEW r \in Requests, Step(r)
  PROVE  HistoryFaithful'
<1> USE DEF TypeOK, RequestsTyped, Pcs, HistoryFaithful, Writing, At, person, secrets, guard,
            history, Answer, Goto
<1>1. CASE Start(r)
  BY <1>1, WorkloadTyped DEF Start, First
<1>2. CASE Register(r)
  <2>1. CASE RegisterFind(r)
    BY <2>1 DEF RegisterFind
  <2>2. CASE RegisterInsert(r)
    <3>1. wanted[r] \in Passwords
      BY <2>2, Carried DEF RegisterInsert, Carrying
    <3>2. Push(<<>>, wanted[r]) = <<wanted[r]>>
      BY <3>1, PushFirst
    <3> QED
      BY <2>2, <3>2 DEF RegisterInsert, Rooted
  <2>3. CASE RegisterHistory(r)
    BY <2>3 DEF RegisterHistory
  <2>4. CASE RegisterToken(r)
    BY <2>4 DEF RegisterToken
  <2>5. CASE RegisterMail(r)
    BY <2>5 DEF RegisterMail
  <2> QED
    BY <1>2, <2>1, <2>2, <2>3, <2>4, <2>5 DEF Register
<1>3. CASE VerifyEmail(r)
  <2>1. CASE VerifyFind(r)
    BY <2>1 DEF VerifyFind
  <2>2. CASE VerifyUse(r)
    BY <2>2 DEF VerifyUse, AfterUse
  <2>3. CASE VerifyMark(r)
    BY <2>3 DEF VerifyMark
  <2> QED
    BY <1>3, <2>1, <2>2, <2>3 DEF VerifyEmail
<1>4. CASE Login(r)
  <2>1. CASE LoginFind(r)
    BY <2>1 DEF LoginFind
  <2>2. CASE LoginFailed(r)
    BY <2>2 DEF LoginFailed
  <2>3. CASE LoginReset(r)
    BY <2>3 DEF LoginReset
  <2>4. CASE MfaFind(r)
    BY <2>4 DEF MfaFind
  <2> QED
    BY <1>4, <2>1, <2>2, <2>3, <2>4 DEF Login
<1>5. CASE ChangePassword(r)
  <2>1. CASE ChangeFind(r)
    BY <2>1 DEF ChangeFind
  <2>2. CASE ChangeRecent(r)
    BY <2>2 DEF ChangeRecent, Recent
  <2>3. CASE ChangeWrite(r)
    BY <2>3 DEF ChangeWrite
  <2>4. CASE ChangeHistory(r)
    BY <2>4 DEF ChangeHistory
  <2> QED
    BY <1>5, <2>1, <2>2, <2>3, <2>4 DEF ChangePassword
<1>6. CASE Administer(r)
  BY <1>6 DEF Administer, Suspend, Reactivate
<1>7. CASE Delete(r)
  BY <1>7 DEF Delete
<1>8. CASE Lose(r)
  BY <1>8 DEF Lose
<1> QED
  BY <1>1, <1>2, <1>3, <1>4, <1>5, <1>6, <1>7, <1>8 DEF Step

(* Time passes. *)
LEMMA ExpiryKeeps ==
  ASSUME IInv, LinkExpires \/ LockExpires
  PROVE  IInv'
<1>1. InFlight' = InFlight
  BY DEF LinkExpires, LockExpires, InFlight
<1>2. CASE LinkExpires
  BY <1>1, <1>2 DEF LinkExpires, IInv, TypeOK, RequestsTyped, Rooted, RegistersAlone, Registering,
     LinkUsedUp, CanBeVerified, SuspensionStands, StandsForGood, GuessesCount, HistoryFaithful,
     Writing, At, secrets, guard, history
<1>3. CASE LockExpires
  <2>1. GuessesCount'
    BY <1>3 DEF LockExpires, GuessesCount
  <2>2. TypeOK'
    BY <1>3, LimitsTyped DEF LockExpires, IInv, TypeOK, RequestsTyped, person, secrets, history
  <2>3. (Rooted /\ RegistersAlone /\ LinkUsedUp /\ CanBeVerified)'
    BY <1>3 DEF LockExpires, IInv, Rooted, RegistersAlone, Registering, LinkUsedUp, CanBeVerified,
       At, person, secrets, history
  <2>4. (SuspensionStands /\ StandsForGood /\ HistoryFaithful)'
    BY <1>3 DEF LockExpires, IInv, SuspensionStands, StandsForGood, HistoryFaithful, Writing, At,
       person, secrets, history
  <2> QED
    BY <2>1, <2>2, <2>3, <2>4 DEF IInv
<1> QED
  BY <1>2, <1>3

LEMMA StutterKeeps == ASSUME IInv, UNCHANGED vars PROVE IInv'
<1>1. InFlight' = InFlight
  BY DEF InFlight, vars
<1> QED
  BY <1>1 DEF vars, IInv, TypeOK, RequestsTyped, Rooted, RegistersAlone, Registering,
     LinkUsedUp, CanBeVerified, SuspensionStands, StandsForGood, GuessesCount, HistoryFaithful,
     Writing, At, person, secrets, guard, history

LEMMA InitHolds == Init => IInv
<1> SUFFICES ASSUME Init PROVE IInv
  OBVIOUS
<1>1. TypeOK
  <2>1. 0 \in 0..MaxAttempts /\ 0 \in Nat /\ <<>> \in Seq(Passwords)
    BY LimitsTyped
  <2>2. RequestsTyped
    BY DEF Init, RequestsTyped, Pcs, Carrying
  <2> QED
    BY <2>1, <2>2 DEF Init, TypeOK
<1>2. SuspensionStands /\ StandsForGood /\ LinkUsedUp /\ CanBeVerified /\ Rooted /\ GuessesCount
  BY DEF Init, SuspensionStands, StandsForGood, LinkUsedUp, CanBeVerified, Rooted, GuessesCount
<1>3. RegistersAlone /\ HistoryFaithful
  BY DEF Init, RegistersAlone, Registering, HistoryFaithful, Writing, At
<1> QED
  BY <1>1, <1>2, <1>3 DEF IInv

LEMMA AlwaysInvariant == Spec => []IInv
<1>1. IInv /\ [Next]_vars => IInv'
  <2> SUFFICES ASSUME IInv, Next PROVE IInv'
    BY StutterKeeps
  <2>1. CASE LinkExpires \/ LockExpires
    BY <2>1, ExpiryKeeps
  <2>2. CASE \E r \in Requests : Step(r)
    <3>1. PICK r \in Requests : Step(r)
      BY <2>2
    <3>2. TypeOK'
      BY <3>1, StepTyped DEF IInv
    <3> QED
      BY <3>1, <3>2, StepRooted, StepRegistersAlone, StepLinkUsedUp, StepCanBeVerified,
         StepStands, StepGuessesCount, StepHistoryFaithful DEF IInv
  <2> QED
    BY <2>1, <2>2 DEF Next, Step
<1> QED
  BY <1>1, InitHolds, PTL DEF Spec

(* Every variable keeps its type; only an account has a password. *)
THEOREM TypesHold == Spec => []TypeOK
<1>1. IInv => TypeOK
  BY DEF IInv
<1> QED
  BY <1>1, AlwaysInvariant, PTL

(* An account that is not verified still can be, unless its registration or its
   verification was cut short or the link expired. *)
THEOREM VerificationStaysPossible == Spec => []CanBeVerified
<1>1. IInv => CanBeVerified
  BY DEF IInv
<1> QED
  BY <1>1, AlwaysInvariant, PTL

(* Only an administrator, or a verification unfinished at the time, ends a
   suspension. *)
THEOREM SuspensionIsKept == Spec => []SuspensionStands
<1>1. IInv => SuspensionStands
  BY DEF IInv
<1> QED
  BY <1>1, AlwaysInvariant, PTL

(* At most MaxAttempts - 1 wrong passwords, and one more for every request, are
   tried before the lock holds. *)
THEOREM GuessesAreBounded == Spec => []GuessesBounded
<1>1. IInv => GuessesBounded
  <2> SUFFICES ASSUME IInv PROVE GuessesBounded
    OBVIOUS
  <2> DEFINE F == Cardinality(InFlight)
             R == Cardinality(Requests)
  <2>1. F \in Nat /\ R \in Nat /\ guesses \in Nat /\ count \in 0..MaxAttempts
    BY InFlightFinite, RequestsFinite, FS_CardinalityType DEF IInv, TypeOK
  <2>2. CASE locked
    <3>1. guesses + F <= MaxAttempts - 1 + R
      BY <2>2 DEF IInv, GuessesCount
    <3> HIDE DEF F, R
    <3>2. guesses <= MaxAttempts - 1 + R
      BY <2>1, <3>1, LimitsTyped
    <3> QED
      BY <3>2 DEF GuessesBounded, R
  <2>3. CASE ~locked
    <3>1. guesses = 0 \/ (guesses <= count /\ count < MaxAttempts)
      BY <2>3 DEF IInv, GuessesCount
    <3> HIDE DEF F, R
    <3>2. guesses <= MaxAttempts - 1 + R
      BY <2>1, <3>1, LimitsTyped
    <3> QED
      BY <3>2 DEF GuessesBounded, R
  <2> QED
    BY <2>2, <2>3
<1> QED
  BY <1>1, AlwaysInvariant, PTL

(* None of the last passwords is taken again, unless changes overlapped or one
   was cut short. *)
THEOREM NoPasswordIsReused == Spec => []NoReuse
<1>1. IInv => NoReuse
  BY DEF IInv, HistoryFaithful, NoReuse, TypeOK
<1> QED
  BY <1>1, AlwaysInvariant, PTL
=============================================================================
