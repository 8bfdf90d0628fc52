-------------------------- MODULE BookingInvariant --------------------------
(* The inductive invariant behind the safety properties of Booking: what a
   request may rely on between two of its statements, because of the row locks
   it holds. *)
EXTENDS Booking

(* An operation is only at its own statements. *)
PcOfOperation(r) ==
  /\ pc[r] \in BookPcs => Op(r) = "book"
  /\ pc[r] \in CancelPcs => Op(r) = "cancel"
  /\ pc[r] = "create_write" => Op(r) = "create_event"
  /\ pc[r] \in {"update_find", "update_write"} => Op(r) = "update_event"
  /\ pc[r] \in {"remove_find", "remove_lock"} => Op(r) = "remove_event"
  /\ pc[r] = "erase_lock" => Op(r) = "delete_account"
  /\ pc[r] = "cascade" => Op(r) \in {"remove_event", "delete_account"}
  /\ pc[r] \in {"commit", "rollback"} => Op(r) \in {"book", "cancel"}

(* Bookings belong to events and accounts that exist. *)
BookingsHaveParents ==
  \A e \in Events, u \in Users :
    booking[e][u] # "none" => eventRow[e] = "live" /\ u \in users

(* the counter is written and not committed *)
SeatWritten(r) == pc[r] \in {"audit", "commit"} /\ Op(r) \in {"book", "cancel"}

(* Between its check and its counter, book holds the event and the free seat. *)
BookHoldsEvent(r) ==
  pc[r] \in {"book_look", "book_write", "book_seat"} =>
    /\ eventLock[Event(r)] = r
    /\ eventRow[Event(r)] = "live"
    /\ seats[Event(r)] < capacity[Event(r)]

(* A booking that is not confirmed stays so while book holds the event. *)
BookSeesUnconfirmed(r) ==
  pc[r] = "book_write" =>
    /\ seen[r] \in {"none", "cancelled"}
    /\ booking[Event(r)][Owner(r)] \in {"none", seen[r]}

(* Once written, the booking is locked: nobody changes or deletes it, and its
   account stays. *)
BookHoldsBooking(r) ==
  pc[r] \in {"book_seat", "audit", "commit"} /\ Op(r) = "book" =>
    /\ bookingLock[Event(r)][Owner(r)] = r
    /\ seen[r] \in {"none", "cancelled"}
    /\ booking[Event(r)][Owner(r)] = seen[r]
    /\ seen[r] = "none" => Owner(r) \in users /\ r \in userShare[Owner(r)]

CancelHoldsBooking(r) ==
  pc[r] \in {"cancel_write", "cancel_seat", "audit", "commit"} /\ Op(r) = "cancel" =>
    /\ bookingLock[Event(r)][Owner(r)] = r
    /\ booking[Event(r)][Owner(r)] = "confirmed"

(* A counter that is written differs by one from the committed counter, which
   nobody else can change. *)
CounterPending(r) ==
  SeatWritten(r) =>
    /\ eventLock[Event(r)] = r
    /\ eventRow[Event(r)] = "live"
    /\ Op(r) = "book" => /\ newSeats[r] = seats[Event(r)] + 1
                         /\ seats[Event(r)] < capacity[Event(r)]
    /\ Op(r) = "cancel" => seats[Event(r)] = newSeats[r] + 1

(* A deletion keeps the row it started from. *)
DeletionHoldsRow(r) ==
  pc[r] = "cascade" =>
    /\ Op(r) = "remove_event" => /\ eventLock[Event(r)] = r
                                 /\ eventRow[Event(r)] = "live"
    /\ Op(r) = "delete_account" => /\ userLock[Actor(r)] = r
                                   /\ Actor(r) \in users
                                   /\ userShare[Actor(r)] = {}

(* What a request relies on at its next statement. *)
Justified(r) ==
  /\ PcOfOperation(r)
  /\ BookHoldsEvent(r)
  /\ BookSeesUnconfirmed(r)
  /\ BookHoldsBooking(r)
  /\ CancelHoldsBooking(r)
  /\ CounterPending(r)
  /\ DeletionHoldsRow(r)

LockInv == BookingsHaveParents /\ \A r \in Requests : Justified(r)

(* The counter as the theorems about seats need it: at least one seat per
   confirmed booking, exactly one as long as nobody has left. *)
CounterInv ==
  \A e \in Events : eventRow[e] = "live" =>
    /\ Cardinality(Confirmed(e)) <= seats[e]
    /\ users = Users => seats[e] = Cardinality(Confirmed(e))
    /\ seats[e] <= capacity[e]

(* A lock is held only past the statement that takes it: by a booking or a
   cancellation, of its own event and booking, or by a deletion. *)
InTransaction(r) == pc[r] # "cascade" => Op(r) \in {"book", "cancel"}
HoldsOnly(r) ==
  /\ \A e \in Events : eventLock[e] = r =>
       /\ pc[r] \in {"book_look", "book_write", "book_seat", "audit", "commit",
                     "rollback", "cascade"}
       /\ InTransaction(r)
  /\ \A e \in Events, u \in Users : bookingLock[e][u] = r =>
       /\ pc[r] \in {"book_seat", "cancel_write", "cancel_seat", "audit",
                     "commit", "rollback", "cascade"}
       /\ InTransaction(r)
       /\ pc[r] # "cascade" => Event(r) = e /\ Owner(r) = u
  /\ \A u \in Users : userLock[u] = r => pc[r] = "cascade"
  /\ \A u \in Users : r \in userShare[u] =>
       /\ pc[r] \in {"book_seat", "audit", "commit", "rollback"}
       /\ Op(r) = "book"

LockHolders == \A r \in Requests : HoldsOnly(r)

(* Without deletions nothing that book has read is gone when it writes, and no
   statement of book or cancel has failed. *)
CleanRun ==
  NoDeletions =>
    /\ users = Users
    /\ \A r \in Requests :
         /\ pc[r] \notin {"cascade", "erase_lock", "remove_find", "remove_lock"}
         /\ pc[r] = "book_write" => booking[Event(r)][Owner(r)] = seen[r]
         /\ result[r] = "error" => Op(r) \notin {"book", "cancel"}

(* The audit row comes last. *)
AuditLast ==
  \A r \in Requests : audited[r] =>
    /\ pc[r] # "idle"
    /\ Op(r) \in {"book", "cancel"} =>
         pc[r] = "commit" \/ (pc[r] = "done" /\ result[r] \in {"ok", "lost"})

IInv == TypeOK /\ LockInv /\ CounterInv /\ LockHolders /\ CleanRun /\ AuditLast
=============================================================================
