-------------------------- MODULE AccountsInvariant --------------------------
(* The inductive invariant behind the properties of Accounts. *)
EXTENDS Accounts

(* Without an account nothing of one is left, and no request is beyond the
   statements that look for its name. *)
Rooted ==
  status = "none" =>
    /\ ~verified /\ link = "none" /\ ~mailed /\ ~challenge
    /\ past = <<>> /\ was = <<>>
    /\ \A r \in Requests :
         pc[r] \in {"idle", "orphan", "register_find", "register_insert", "login_find"}

Registering == {"register_history", "register_token", "register_mail"}

(* One registration of an account is under way at most; until it is over no link
   is known and nobody follows one. *)
RegistersAlone ==
  \A r \in Requests : pc[r] \in Registering =>
    /\ ~mailed /\ ~verified
    /\ \A q \in Requests \ {r} : pc[q] \notin Registering
    /\ \A q \in Requests : pc[q] \notin {"verify_find", "verify_use", "verify_mark"}
    /\ IF pc[r] = "register_mail" THEN link = "unused" \/ cut ELSE link = "none"

(* Who is about to mark the address as verified has used the link, for good. *)
LinkUsedUp ==
  /\ verified => link = "used"
  /\ \A r \in Requests : pc[r] = "verify_mark" => link = "used"

(* When the verification was over at the suspension, it stays over. *)
StandsForGood ==
  barred /\ ~open => verified /\ ~At({"verify_use", "verify_mark"})

InFlight == {r \in Requests : pc[r] = "login_failed"}

(* Every wrong password counts until the lock is set; then no new one starts. *)
GuessesCount ==
  IF locked
    THEN guesses + Cardinality(InFlight) <= MaxAttempts - 1 + Cardinality(Requests)
    ELSE guesses = 0 \/ (guesses <= count /\ count < MaxAttempts)

Writing == {"register_history", "change_write", "change_history"}

(* Changes that do not overlap write one after the other, and the history is the
   one it should be, but for the row about to be inserted. *)
HistoryFaithful ==
  ~raced =>
    /\ ~reused
    /\ \A r \in Requests : pc[r] \in Writing =>
         /\ \A q \in Requests \ {r} : pc[q] \notin Writing
         /\ pc[r] = "change_write" => wanted[r] \notin Range(was)
         /\ pc[r] # "change_write" => was = Push(past, wanted[r])
    /\ ~At({"register_history", "change_history"}) => was = past

IInv == /\ TypeOK /\ Rooted /\ RegistersAlone /\ LinkUsedUp /\ CanBeVerified
        /\ SuspensionStands /\ StandsForGood /\ GuessesCount /\ HistoryFaithful
=============================================================================
