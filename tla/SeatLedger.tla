----------------------------- MODULE SeatLedger -----------------------------
(***************************************************************************)
(* What the booking service promises, without locks, statements or         *)
(* requests: a ledger of events in which a seat is taken or given back,    *)
(* together with the booking it belongs to, in one step.                   *)
(***************************************************************************)
EXTENDS Naturals

CONSTANTS Users, Events, Capacities, Organizer

VARIABLES
  eventRow,   \* "fresh", "live" or "gone"
  capacity,   \* how many seats an event has
  seats,      \* how many of them are not on sale any more
  confirmed,  \* the users with a confirmed booking, by event
  users       \* the accounts that have not been deleted

ledger == <<eventRow, capacity, seats, confirmed, users>>

Init ==
  /\ eventRow \in [Events -> {"fresh", "live"}]
  /\ capacity \in [Events -> Capacities]
  /\ seats = [e \in Events |-> 0]
  /\ confirmed = [e \in Events |-> {}]
  /\ users = Users

(* A user without a booking gets one of the free seats. *)
Confirm(e, u) ==
  /\ eventRow[e] = "live"
  /\ u \in users
  /\ u \notin confirmed[e]
  /\ seats[e] < capacity[e]
  /\ confirmed' = [confirmed EXCEPT ![e] = @ \cup {u}]
  /\ seats' = [seats EXCEPT ![e] = @ + 1]
  /\ UNCHANGED <<eventRow, capacity, users>>

(* A booking is cancelled and its seat is on sale again. *)
GiveBack(e, u) ==
  /\ eventRow[e] = "live"
  /\ u \in confirmed[e]
  /\ seats[e] > 0
  /\ confirmed' = [confirmed EXCEPT ![e] = @ \ {u}]
  /\ seats' = [seats EXCEPT ![e] = @ - 1]
  /\ UNCHANGED <<eventRow, capacity, users>>

(* An existing account opens an event. *)
Open(e, c) ==
  /\ eventRow[e] = "fresh"
  /\ Organizer[e] \in users
  /\ eventRow' = [eventRow EXCEPT ![e] = "live"]
  /\ capacity' = [capacity EXCEPT ![e] = c]
  /\ UNCHANGED <<seats, confirmed, users>>

(* An event gets another size, never below the seats taken. *)
Resize(e, c) ==
  /\ eventRow[e] = "live"
  /\ seats[e] <= c
  /\ capacity' = [capacity EXCEPT ![e] = c]
  /\ UNCHANGED <<eventRow, seats, confirmed, users>>

(* An event goes, with its bookings. *)
Withdraw(e) ==
  /\ eventRow[e] = "live"
  /\ eventRow' = [eventRow EXCEPT ![e] = "gone"]
  /\ confirmed' = [confirmed EXCEPT ![e] = {}]
  /\ UNCHANGED <<capacity, seats, users>>

(* An account goes, with the events it organises and all its bookings; the
   seats of those bookings stay off sale. *)
Leave(u) ==
  LET withdrawn == {e \in Events : eventRow[e] = "live" /\ Organizer[e] = u}
  IN /\ u \in users
     /\ users' = users \ {u}
     /\ eventRow' = [e \in Events |-> IF e \in withdrawn THEN "gone" ELSE eventRow[e]]
     /\ confirmed' = [e \in Events |->
                        IF e \in withdrawn THEN {} ELSE confirmed[e] \ {u}]
     /\ UNCHANGED <<capacity, seats>>

Next ==
  \/ \E e \in Events :
       \/ \E u \in Users : Confirm(e, u) \/ GiveBack(e, u)
       \/ \E c \in Capacities : Open(e, c) \/ Resize(e, c)
       \/ Withdraw(e)
  \/ \E u \in Users : Leave(u)

Spec == Init /\ [][Next]_ledger
=============================================================================
