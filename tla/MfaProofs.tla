----------------------------- MODULE MfaProofs -----------------------------
(* Proofs about Mfa, for any number of secrets, codes and requests. *)
EXTENDS MfaInvariant, FiniteSetTheorems, TLAPS

Step(r) == Start(r) \/ Setup(r) \/ Enable(r) \/ Disable(r) \/ Verify(r) \/ Lose(r)

LEMMA StepTyped ==
  ASSUME TypeOK, NEW r \in Requests, Step(r)
  PROVE  TypeOK'
<1> USE FactorsDiffer DEF TypeOK, Factors, Pcs, row, history, Answer, Goto
<1>1. CASE Start(r)
  BY <1>1, WorkloadTyped DEF Start, First
<1>2. CASE Setup(r)
  <2>1. CASE SetupFind(r)
    BY <2>1 DEF SetupFind, Fresh
  <2>2. CASE SetupWrite(r)
    BY <2>2 DEF SetupWrite, At
  <2>3. CASE Tell(r)
    BY <2>3 DEF Tell
  <2> QED
    BY <1>2, <2>1, <2>2, <2>3 DEF Setup
<1>3. CASE Enable(r)
  <2>1. CASE EnableFind(r)
    BY <2>1 DEF EnableFind, Confirms
  <2>2. CASE EnableWrite(r)
    BY <2>2 DEF EnableWrite
  <2>3. CASE DeleteCodes(r)
    BY <2>3 DEF DeleteCodes
  <2>4. CASE InsertCode(r)
    BY <2>4 DEF InsertCode
  <2> QED
    BY <1>3, <2>1, <2>2, <2>3, <2>4 DEF Enable
<1>4. CASE Disable(r)
  <2>1. CASE DisableSecret(r)
    BY <2>1 DEF DisableSecret, At
  <2>2. CASE DisableFlag(r)
    BY <2>2 DEF DisableFlag, At
  <2>3. CASE DisableCodes(r)
    BY <2>3 DEF DisableCodes, At
  <2> QED
    BY <1>4, <2>1, <2>2, <2>3 DEF Disable
<1>5. CASE Verify(r)
  BY <1>5 DEF Verify, VerifyFind, VerifyCodes, Consume
<1>6. CASE Lose(r)
  BY <1>6 DEF Lose
<1> QED
  BY <1>1, <1>2, <1>3, <1>4, <1>5, <1>6 DEF Step

LEMMA StepConfirmed ==
  ASSUME TypeOK, Confirmed, NEW r \in Requests, Step(r)
  PROVE  Confirmed'
<1> USE DEF TypeOK, Confirmed, row, history, Answer, Goto
<1>1. CASE Start(r)
  BY <1>1, WorkloadTyped DEF Start, First
<1>2. CASE Setup(r)
  BY <1>2 DEF Setup, SetupFind, SetupWrite, Tell, At
<1>3. CASE Enable(r)
  BY <1>3 DEF Enable, EnableFind, EnableWrite, DeleteCodes, InsertCode, Confirms
<1>4. CASE Disable(r)
  BY <1>4 DEF Disable, DisableSecret, DisableFlag, DisableCodes, At
<1>5. CASE Verify(r)
  BY <1>5 DEF Verify, VerifyFind, VerifyCodes, Consume
<1>6. CASE Lose(r)
  BY <1>6 DEF Lose
<1> QED
  BY <1>1, <1>2, <1>3, <1>4, <1>5, <1>6 DEF Step

LEMMA StepProven ==
  ASSUME TypeOK, Confirmed, ProvenUnlessTorn, NEW r \in Requests, Step(r)
  PROVE  ProvenUnlessTorn'
<1> USE DEF TypeOK, ProvenUnlessTorn, At, row, history, Answer, Goto
<1>1. CASE Start(r)
  BY <1>1, WorkloadTyped DEF Start, First
<1>2. CASE Setup(r)
  <2>1. CASE SetupFind(r)
    BY <2>1 DEF SetupFind
  <2>2. CASE SetupWrite(r)
    BY <2>2 DEF SetupWrite
  <2>3. CASE Tell(r)
    BY <2>3 DEF Tell
  <2> QED
    BY <1>2, <2>1, <2>2, <2>3 DEF Setup
<1>3. CASE Enable(r)
  <2>1. CASE EnableFind(r)
    BY <2>1 DEF EnableFind
  <2>2. CASE EnableWrite(r)
    BY <2>2 DEF EnableWrite, Confirmed
  <2>3. CASE DeleteCodes(r)
    BY <2>3 DEF DeleteCodes
  <2>4. CASE InsertCode(r)
    BY <2>4 DEF InsertCode
  <2> QED
    BY <1>3, <2>1, <2>2, <2>3, <2>4 DEF Enable
<1>4. CASE Disable(r)
  <2>1. CASE DisableSecret(r)
    BY <2>1 DEF DisableSecret
  <2>2. CASE DisableFlag(r)
    BY <2>2 DEF DisableFlag
  <2>3. CASE DisableCodes(r)
    BY <2>3 DEF DisableCodes
  <2> QED
    BY <1>4, <2>1, <2>2, <2>3 DEF Disable
<1>5. CASE Verify(r)
  <2>1. CASE VerifyFind(r)
    BY <2>1 DEF VerifyFind
  <2>2. CASE VerifyCodes(r)
    BY <2>2 DEF VerifyCodes
  <2>3. CASE Consume(r)
    BY <2>3 DEF Consume
  <2> QED
    BY <1>5, <2>1, <2>2, <2>3 DEF Verify
<1>6. CASE Lose(r)
  BY <1>6 DEF Lose
<1> QED
  BY <1>1, <1>2, <1>3, <1>4, <1>5, <1>6 DEF Step

LEMMA StepSpent ==
  ASSUME TypeOK, Spent, CodeAdmitsOnce, NEW r \in Requests, Step(r)
  PROVE  Spent' /\ CodeAdmitsOnce'
<1> USE DEF TypeOK, Spent, CodeAdmitsOnce, row, history, Answer, Goto
<1>1. CASE Start(r)
  BY <1>1, WorkloadTyped DEF Start, First
<1>2. CASE Setup(r)
  BY <1>2 DEF Setup, SetupFind, SetupWrite, Tell
<1>3. CASE Enable(r)
  <2>1. CASE EnableFind(r) \/ EnableWrite(r)
    BY <2>1 DEF EnableFind, EnableWrite
  <2>2. CASE DeleteCodes(r)
    BY <2>2 DEF DeleteCodes, Replaced, Rows
  <2>3. CASE InsertCode(r)
    BY <2>3 DEF InsertCode
  <2> QED
    BY <1>3, <2>1, <2>2, <2>3 DEF Enable
<1>4. CASE Disable(r)
  <2>1. CASE DisableSecret(r) \/ DisableFlag(r)
    BY <2>1 DEF DisableSecret, DisableFlag
  <2>2. CASE DisableCodes(r)
    BY <2>2 DEF DisableCodes, Rows
  <2> QED
    BY <1>4, <2>1, <2>2 DEF Disable
<1>5. CASE Verify(r)
  <2>1. CASE VerifyFind(r)
    BY <2>1 DEF VerifyFind
  <2>2. CASE VerifyCodes(r)
    BY <2>2 DEF VerifyCodes, Found
  <2>3. CASE Consume(r)
    BY <2>3 DEF Consume
  <2> QED
    BY <1>5, <2>1, <2>2, <2>3 DEF Verify
<1>6. CASE Lose(r)
  BY <1>6 DEF Lose
<1> QED
  BY <1>1, <1>2, <1>3, <1>4, <1>5, <1>6 DEF Step

LEMMA StepCodes ==
  ASSUME TypeOK, InsertsAlone, CompleteWhenOn, NoneWhenOff, NEW r \in Requests, Step(r)
  PROVE  InsertsAlone' /\ CompleteWhenOn' /\ NoneWhenOff'
<1> USE DEF TypeOK, InsertsAlone, NoneWhenOff, CompleteWhenOn, At, row, history, Answer, Goto
<1>1. Rows' = Rows \/ DeleteCodes(r) \/ InsertCode(r) \/ DisableCodes(r)
  <2>1. CASE UNCHANGED code
    BY <2>1 DEF Rows
  <2>2. CASE Consume(r)
    BY <2>2 DEF Consume, Rows
  <2> QED
    BY <2>1, <2>2 DEF Step, Start, Setup, SetupFind, SetupWrite, Tell, Enable, EnableFind,
       EnableWrite, Disable, DisableSecret, DisableFlag, Verify, VerifyFind, VerifyCodes, Lose
<1>2. CASE Rows' = Rows /\ Start(r)
  BY <1>2, WorkloadTyped DEF Start, First
<1>3. CASE Rows' = Rows /\ Setup(r)
  <2>1. CASE SetupFind(r)
    BY <1>3, <2>1 DEF SetupFind
  <2>2. CASE SetupWrite(r)
    BY <1>3, <2>2 DEF SetupWrite
  <2>3. CASE Tell(r)
    BY <1>3, <2>3 DEF Tell
  <2> QED
    BY <1>3, <2>1, <2>2, <2>3 DEF Setup
<1>4. CASE Rows' = Rows /\ EnableFind(r)
  BY <1>4 DEF EnableFind
<1>5. CASE Rows' = Rows /\ EnableWrite(r)
  BY <1>5 DEF EnableWrite
<1>6. CASE DeleteCodes(r)
  <2>1. Rows' = {}
    BY <1>6 DEF DeleteCodes, Replaced, Rows
  <2> QED
    BY <1>6, <2>1 DEF DeleteCodes
<1>7. CASE InsertCode(r)
  <2>1. PICK c \in Codes : /\ code[c] = "none"
                           /\ code' = [code EXCEPT ![c] = "unused"]
                           /\ made' = [made EXCEPT ![r] = @ \cup {c}]
    BY <1>7 DEF InsertCode
  <2>2. Rows' = Rows \cup {c}
    BY <2>1 DEF Rows
  <2>3. /\ made'[r] = made[r] \cup {c}
        /\ \A q \in Requests \ {r} : pc'[q] = pc[q] /\ made'[q] = made[q]
    BY <1>7, <2>1 DEF InsertCode
  <2>4. pc[r] = "insert_code" /\ (mixed' <=> mixed \/ ~enabled) /\ enabled' = enabled
    BY <1>7 DEF InsertCode
  <2>5. InsertsAlone'
    BY <2>2, <2>3, <2>4
  <2>6. NoneWhenOff'
    BY <2>4
  <2>7. CompleteWhenOn'
    <3> SUFFICES ASSUME ~mixed', ~At("insert_code")'
                 PROVE  /\ Cardinality(Rows') = CodeCount
                        /\ \E q \in Requests : pc'[q] = "tell" /\ Rows' = made'[q]
      OBVIOUS
    <3>1. Rows' = made'[r]
      BY <2>2, <2>3, <2>4
    <3>2. pc'[r] # "insert_code"
      OBVIOUS
    <3>3. Cardinality(made'[r]) = CodeCount /\ pc'[r] = "tell"
      BY <1>7, <3>2 DEF InsertCode
    <3> QED
      BY <3>1, <3>3
  <2> QED
    BY <2>5, <2>6, <2>7
<1>8. CASE Rows' = Rows /\ DisableSecret(r)
  BY <1>8 DEF DisableSecret
<1>9. CASE Rows' = Rows /\ DisableFlag(r)
  BY <1>9 DEF DisableFlag
<1>10. CASE DisableCodes(r)
  <2>1. Rows' = {}
    BY <1>10 DEF DisableCodes, Rows
  <2> QED
    BY <1>10, <2>1 DEF DisableCodes
<1>11. CASE Rows' = Rows /\ Verify(r)
  <2>1. CASE VerifyFind(r)
    BY <1>11, <2>1 DEF VerifyFind
  <2>2. CASE VerifyCodes(r)
    BY <1>11, <2>2 DEF VerifyCodes
  <2>3. CASE Consume(r)
    BY <1>11, <2>3 DEF Consume
  <2> QED
    BY <1>11, <2>1, <2>2, <2>3 DEF Verify
<1>12. CASE Rows' = Rows /\ Lose(r)
  <2>1. Cardinality({}) = 0
    BY FS_EmptySet
  <2> QED
    BY <1>12, <2>1, CodeCountTyped DEF Lose
<1> QED
  BY <1>1, <1>2, <1>3, <1>4, <1>5, <1>6, <1>7, <1>8, <1>9, <1>10, <1>11, <1>12
     DEF Step, Enable, Disable

LEMMA StutterKeeps == ASSUME IInv, UNCHANGED vars PROVE IInv'
BY DEF IInv, TypeOK, Confirmed, ProvenUnlessTorn, Spent, CodeAdmitsOnce, InsertsAlone,
       CompleteWhenOn, NoneWhenOff, Rows, At, vars, row, history

LEMMA InitHolds == Init => IInv
<1> SUFFICES ASSUME Init PROVE IInv
  OBVIOUS
<1>1. Rows = {}
  BY DEF Init, Rows
<1> QED
  BY <1>1, FactorsDiffer DEF Init, IInv, TypeOK, Confirmed, ProvenUnlessTorn, Spent,
     CodeAdmitsOnce, InsertsAlone, CompleteWhenOn, NoneWhenOff, At, Factors, Pcs

LEMMA AlwaysInvariant == Spec => []IInv
<1>1. IInv /\ [Next]_vars => IInv'
  BY StepTyped, StepConfirmed, StepProven, StepSpent, StepCodes, StutterKeeps
     DEF IInv, Next, Step
<1> QED
  BY <1>1, InitHolds, PTL DEF Spec

(* Every variable keeps its type, and a request holds what its statement uses. *)
THEOREM TypesHold == Spec => []TypeOK
<1>1. IInv => TypeOK
  BY DEF IInv
<1> QED
  BY <1>1, AlwaysInvariant, PTL

(* MFA that is on has a secret its user confirmed, or is being turned off,
   unless the enrolment was torn. *)
THEOREM EnabledIsProven == Spec => []ProvenUnlessTorn
<1>1. IInv => ProvenUnlessTorn
  BY DEF IInv
<1> QED
  BY <1>1, AlwaysInvariant, PTL

(* A recovery code admits two logins only if both had found it unused. *)
THEOREM CodesAreSingleUse == Spec => []CodeAdmitsOnce
<1>1. IInv => CodeAdmitsOnce
  BY DEF IInv
<1> QED
  BY <1>1, AlwaysInvariant, PTL

(* Left alone, MFA that is on has all its recovery codes, known to the user, and
   MFA that is off none, unless changes were mixed up. *)
THEOREM CodesAreComplete == Spec => []CodesComplete
<1>1. IInv => CodesComplete
  <2> SUFFICES ASSUME IInv, ~mixed, \A r \in Requests : ~ChangesEnrolment(r)
               PROVE  /\ Cardinality(Rows) = IF enabled THEN CodeCount ELSE 0
                      /\ Rows \subseteq given
    BY DEF CodesComplete
  <2>1. \A r \in Requests : pc[r] \notin {"delete_codes", "delete_for_disable", "insert_code", "tell"}
    BY DEF ChangesEnrolment
  <2>2. CASE ~enabled
    <3>1. Rows = {}
      BY <2>1, <2>2 DEF IInv, NoneWhenOff, At
    <3>2. Cardinality({}) = 0
      BY FS_EmptySet
    <3> QED
      BY <2>2, <3>1, <3>2
  <2>3. CASE enabled
    BY <2>1, <2>3 DEF IInv, CompleteWhenOn, At
  <2> QED
    BY <2>2, <2>3 DEF IInv, TypeOK
<1> QED
  BY <1>1, AlwaysInvariant, PTL
=============================================================================
