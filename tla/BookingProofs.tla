---------------------------- MODULE BookingProofs ----------------------------
(* Proofs about Booking, for any number of users, events and requests. *)
EXTENDS BookingInvariant, FiniteSetTheorems, TLAPS

-----------------------------------------------------------------------------
(* Types. *)

(* A request in flight is one of the workload. *)
LEMMA InFlight ==
  ASSUME TypeOK, NEW r \in Requests, pc[r] # "idle"
  PROVE  /\ req[r] \in Workload
         /\ req[r] # NoRequest
         /\ Op(r) \in Operations
         /\ Actor(r) \in Users
         /\ Event(r) \in Events
         /\ Owner(r) \in Users
         /\ Op(r) # "cancel" => Owner(r) = Actor(r)
         /\ Op(r) = "create_event" => Actor(r) = Organizer[Event(r)]
<1>1. req[r] \in Workload /\ req[r] # NoRequest
  BY DEF TypeOK, RequestsTyped
<1>2. req[r] \in RequestData
  BY <1>1, WorkloadTyped
<1>3. /\ req[r].op # "cancel" => req[r].owner = req[r].actor
      /\ req[r].op = "create_event" => req[r].actor = Organizer[req[r].event]
  BY <1>1, WorkloadTyped
<1>4. /\ req[r].op \in Operations
      /\ req[r].actor \in Users
      /\ req[r].event \in Events
      /\ req[r].owner \in Users
  BY <1>2 DEF RequestData
<1> QED
  BY <1>1, <1>3, <1>4 DEF Op, Actor, Event, Owner

LEMMA StoreUnchanged ==
  ASSUME TypeOK, UNCHANGED store PROVE TablesTyped'
BY DEF TypeOK, TablesTyped, store

LEMMA LocksUnchanged ==
  ASSUME TypeOK, UNCHANGED locks PROVE LocksTyped'
BY DEF TypeOK, LocksTyped, locks

LEMMA LocksReleased ==
  ASSUME TypeOK, NEW r \in Requests, ReleaseLocks(r) PROVE LocksTyped'
<1> USE DEF TypeOK, LocksTyped, ReleaseLocks
<1>1. eventLock' \in [Events -> Requests \cup {Nobody}]
  OBVIOUS
<1>2. bookingLock' \in [Events -> [Users -> Requests \cup {Nobody}]]
  OBVIOUS
<1>3. userLock' \in [Users -> Requests \cup {Nobody}]
  OBVIOUS
<1>4. userShare' \in [Users -> SUBSET Requests]
  OBVIOUS
<1> QED
  BY <1>1, <1>2, <1>3, <1>4

(* One more lock of an events row, of a bookings row. *)
LEMMA EventLocked ==
  ASSUME TypeOK, NEW r \in Requests, NEW e \in Events,
         eventLock' = [eventLock EXCEPT ![e] = r],
         UNCHANGED <<bookingLock, userLock, userShare>>
  PROVE  LocksTyped'
BY DEF TypeOK, LocksTyped

LEMMA BookingLocked ==
  ASSUME TypeOK, NEW r \in Requests, NEW e \in Events, NEW u \in Users,
         bookingLock' = [bookingLock EXCEPT ![e][u] = r],
         UNCHANGED <<eventLock, userLock>>,
         userShare' \in [Users -> SUBSET Requests]
  PROVE  LocksTyped'
BY DEF TypeOK, LocksTyped

(* A request in flight goes on or ends, and keeps what it asks for. *)
LEMMA RequestMoves ==
  ASSUME TypeOK, NEW r \in Requests, pc[r] # "idle",
         NEW p \in Pcs \ {"idle"}, pc' = [pc EXCEPT ![r] = p],
         UNCHANGED req,
         seen' \in [Requests -> Statuses],
         newSeats' \in [Requests -> Nat],
         audited' \in [Requests -> BOOLEAN],
         result' \in [Requests -> Results]
  PROVE  RequestsTyped'
BY DEF TypeOK, RequestsTyped

LEMMA RequestAdvances ==
  ASSUME TypeOK, NEW r \in Requests, pc[r] # "idle",
         NEW p \in Pcs \ {"idle"}, Goto(r, p), UNCHANGED <<req, local>>
  PROVE  RequestsTyped'
BY RequestMoves DEF TypeOK, RequestsTyped, local, Goto

LEMMA RequestThrows ==
  ASSUME TypeOK, NEW r \in Requests, pc[r] # "idle",
         NEW why \in Results, Throw(r, why)
  PROVE  TablesTyped' /\ RequestsTyped'
<1>1. PICK p \in {"rollback", "done"} : pc' = [pc EXCEPT ![r] = p]
  BY DEF Throw, Goto
<1>2. p \in Pcs \ {"idle"}
  BY DEF Pcs
<1>3. result' \in [Requests -> Results]
  BY DEF Throw, TypeOK, RequestsTyped
<1> QED
  BY <1>1, <1>2, <1>3, RequestMoves, StoreUnchanged DEF Throw, TypeOK, RequestsTyped

LEMMA ErrorTyped ==
  ASSUME TypeOK, NEW r \in Requests, pc[r] # "idle", DatabaseError(r)
  PROVE  TypeOK'
BY RequestThrows, LocksReleased DEF DatabaseError, Results, TypeOK

LEMMA InitTyped == Init => TypeOK
<1> SUFFICES ASSUME Init PROVE TypeOK
  OBVIOUS
<1>1. seats \in [Events -> Nat] /\ newSeats \in [Requests -> Nat]
  BY DEF Init
<1> QED
  BY <1>1, NobodyNotRequest, CapacitiesPositive
     DEF Init, TypeOK, TablesTyped, LocksTyped, RequestsTyped, Pcs, Statuses, Results

(* One step of one request keeps the types. *)
LEMMA BookTyped ==
  ASSUME TypeOK, NEW r \in Requests, Book(r)
  PROVE  TypeOK'
<1>0. pc[r] # "idle"
  BY DEF Book, BookLockEvent, BookLook, BookReactivate, BookInsert, BookSeat
<1> DEFINE e == Event(r)
           u == Owner(r)
<1>1. e \in Events /\ u \in Users /\ Actor(r) \in Users
  BY <1>0, InFlight
<1>2. {"book_look", "book_write", "book_seat", "audit"} \subseteq Pcs \ {"idle"}
  BY DEF Pcs, BookPcs
<1>3. {"not_found", "conflict", "error"} \subseteq Results
  BY DEF Results
<1> HIDE DEF e, u
<1>4. CASE BookLockEvent(r)
  <2>1. CASE Throw(r, "not_found") /\ UNCHANGED locks
    BY <1>0, <1>3, <2>1, RequestThrows, LocksUnchanged DEF TypeOK
  <2>2. CASE /\ eventLock' = [eventLock EXCEPT ![e] = r]
             /\ UNCHANGED <<bookingLock, userLock, userShare>>
             /\ Throw(r, "conflict")
    BY <1>0, <1>1, <1>3, <2>2, RequestThrows, EventLocked DEF TypeOK
  <2>3. CASE /\ eventLock' = [eventLock EXCEPT ![e] = r]
             /\ UNCHANGED <<bookingLock, userLock, userShare>>
             /\ Goto(r, "book_look")
             /\ UNCHANGED <<store, req, local>>
    BY <1>0, <1>1, <1>2, <2>3, RequestAdvances, EventLocked, StoreUnchanged DEF TypeOK
  <2> QED
    BY <1>4, <2>1, <2>2, <2>3 DEF BookLockEvent, e
<1>5. CASE BookLook(r)
  <2>1. CASE Throw(r, "conflict") /\ UNCHANGED locks
    BY <1>0, <1>3, <2>1, RequestThrows, LocksUnchanged DEF TypeOK
  <2>2. CASE /\ seen' = [seen EXCEPT ![r] = booking[e][u]]
             /\ Goto(r, "book_write")
             /\ UNCHANGED <<store, req, newSeats, audited, result>>
             /\ UNCHANGED locks
    <3>1. booking[e][u] \in Statuses
      BY <1>1 DEF TypeOK, TablesTyped
    <3>2. seen' \in [Requests -> Statuses]
      BY <2>2, <3>1 DEF TypeOK, RequestsTyped
    <3> QED
      BY <1>0, <1>2, <2>2, <3>2, RequestMoves, StoreUnchanged, LocksUnchanged
         DEF TypeOK, RequestsTyped, Goto
  <2> QED
    BY <1>5, <2>1, <2>2 DEF BookLook, e, u
<1>6. CASE BookReactivate(r)
  <2>1. CASE Throw(r, "error") /\ UNCHANGED locks
    BY <1>0, <1>3, <2>1, RequestThrows, LocksUnchanged DEF TypeOK
  <2>2. CASE /\ bookingLock' = [bookingLock EXCEPT ![e][u] = r]
             /\ Goto(r, "book_seat")
             /\ UNCHANGED <<store, eventLock, userLock, userShare, req, local>>
    <3>1. userShare' \in [Users -> SUBSET Requests]
      BY <2>2 DEF TypeOK, LocksTyped
    <3> QED
      BY <1>0, <1>1, <1>2, <2>2, <3>1, RequestAdvances, BookingLocked, StoreUnchanged DEF TypeOK
  <2> QED
    BY <1>6, <2>1, <2>2 DEF BookReactivate, e, u
<1>7. CASE BookInsert(r)
  <2>1. CASE DatabaseError(r)
    BY <1>0, <2>1, ErrorTyped
  <2>2. CASE /\ bookingLock' = [bookingLock EXCEPT ![e][u] = r]
             /\ userShare' = [userShare EXCEPT ![Actor(r)] = @ \cup {r}]
             /\ Goto(r, "book_seat")
             /\ UNCHANGED <<store, eventLock, userLock, req, local>>
    <3>1. userShare' \in [Users -> SUBSET Requests]
      BY <2>2 DEF TypeOK, LocksTyped
    <3> QED
      BY <1>0, <1>1, <1>2, <2>2, <3>1, RequestAdvances, BookingLocked, StoreUnchanged DEF TypeOK
  <2> QED
    BY <1>7, <2>1, <2>2 DEF BookInsert, e, u
<1>8. CASE BookSeat(r)
  <2>1. CASE DatabaseError(r)
    BY <1>0, <2>1, ErrorTyped
  <2>2. CASE /\ eventLock' = [eventLock EXCEPT ![e] = r]
             /\ newSeats' = [newSeats EXCEPT ![r] = seats[e] + 1]
             /\ Goto(r, "audit")
             /\ UNCHANGED <<store, bookingLock, userLock, userShare, req, seen,
                            audited, result>>
    <3>1. newSeats' \in [Requests -> Nat]
      BY <1>1, <2>2 DEF TypeOK, TablesTyped, RequestsTyped
    <3> QED
      BY <1>0, <1>1, <1>2, <2>2, <3>1, RequestMoves, EventLocked, StoreUnchanged
         DEF TypeOK, RequestsTyped, Goto
  <2> QED
    BY <1>8, <2>1, <2>2 DEF BookSeat, e
<1> QED
  BY <1>4, <1>5, <1>6, <1>7, <1>8 DEF Book

LEMMA CancelTyped ==
  ASSUME TypeOK, NEW r \in Requests, Cancel(r)
  PROVE  TypeOK'
<1>0. pc[r] # "idle"
  BY DEF Cancel, CancelLockBooking, CancelWrite, CancelSeat
<1> DEFINE e == Event(r)
           u == Owner(r)
<1>1. e \in Events /\ u \in Users
  BY <1>0, InFlight
<1>2. {"cancel_write", "cancel_seat", "audit"} \subseteq Pcs \ {"idle"}
  BY DEF Pcs, CancelPcs
<1>3. {"not_found", "forbidden", "bad_request"} \subseteq Results
  BY DEF Results
<1> HIDE DEF e, u
<1>4. CASE CancelLockBooking(r)
  <2> DEFINE Locked == /\ bookingLock' = [bookingLock EXCEPT ![e][u] = r]
                       /\ UNCHANGED <<eventLock, userLock, userShare>>
  <2>1. CASE Throw(r, "not_found") /\ UNCHANGED locks
    BY <1>0, <1>3, <2>1, RequestThrows, LocksUnchanged DEF TypeOK
  <2>2. Locked => LocksTyped'
    BY <1>1, BookingLocked DEF TypeOK, LocksTyped
  <2>3. CASE Locked /\ Throw(r, "forbidden")
    BY <1>0, <1>3, <2>2, <2>3, RequestThrows DEF TypeOK
  <2>4. CASE Locked /\ Throw(r, "bad_request")
    BY <1>0, <1>3, <2>2, <2>4, RequestThrows DEF TypeOK
  <2>5. CASE /\ Locked
             /\ seen' = [seen EXCEPT ![r] = booking[e][u]]
             /\ Goto(r, "cancel_write")
             /\ UNCHANGED <<store, req, newSeats, audited, result>>
    <3>1. booking[e][u] \in Statuses
      BY <1>1 DEF TypeOK, TablesTyped
    <3>2. seen' \in [Requests -> Statuses]
      BY <2>5, <3>1 DEF TypeOK, RequestsTyped
    <3> QED
      BY <1>0, <1>2, <2>2, <2>5, <3>2, RequestMoves, StoreUnchanged
         DEF TypeOK, RequestsTyped, Goto
  <2> QED
    BY <1>4, <2>1, <2>3, <2>4, <2>5 DEF CancelLockBooking, CancelRefusal, e, u
<1>5. CASE CancelWrite(r)
  BY <1>0, <1>2, <1>5, RequestAdvances, StoreUnchanged, LocksUnchanged DEF CancelWrite, TypeOK
<1>6. CASE CancelSeat(r)
  <2>1. /\ eventLock' = [eventLock EXCEPT ![e] = r]
        /\ newSeats' = [newSeats EXCEPT ![r] = IF seats[e] = 0 THEN 0 ELSE seats[e] - 1]
        /\ Goto(r, "audit")
        /\ UNCHANGED <<store, bookingLock, userLock, userShare, req, seen, audited, result>>
    BY <1>6 DEF CancelSeat, e
  <2>2. seats[e] \in Nat
    BY <1>1 DEF TypeOK, TablesTyped
  <2>3. newSeats' \in [Requests -> Nat]
    BY <2>1, <2>2 DEF TypeOK, RequestsTyped
  <2> QED
    BY <1>0, <1>1, <1>2, <2>1, <2>3, RequestMoves, EventLocked, StoreUnchanged
       DEF TypeOK, RequestsTyped, Goto
<1> QED
  BY <1>4, <1>5, <1>6 DEF Cancel

LEMMA ManageTyped ==
  ASSUME TypeOK, NEW r \in Requests, Manage(r)
  PROVE  TypeOK'
<1>0. pc[r] # "idle"
  BY DEF Manage, CreateEvent, UpdateFind, UpdateEvent, RemoveFind, ManageFind, RemoveLockEvent
<1> DEFINE e == Event(r)
<1>1. e \in Events
  BY <1>0, InFlight
<1>2. {"update_write", "remove_lock", "cascade", "audit"} \subseteq Pcs \ {"idle"}
  BY DEF Pcs, ManagePcs
<1>3. {"not_found", "forbidden"} \subseteq Results
  BY DEF Results
<1> HIDE DEF e
<1>4. CASE CreateEvent(r)
  <2>1. CASE DatabaseError(r)
    BY <1>0, <2>1, ErrorTyped
  <2>2. CASE /\ eventRow' = [eventRow EXCEPT ![e] = "live"]
             /\ \E c \in Capacities : capacity' = [capacity EXCEPT ![e] = c]
             /\ seats' = [seats EXCEPT ![e] = 0]
             /\ Goto(r, "audit")
             /\ UNCHANGED <<booking, users, locks, req, local>>
    <3>1. TablesTyped'
      BY <2>2 DEF TypeOK, TablesTyped
    <3> QED
      BY <1>0, <1>2, <2>2, <3>1, RequestAdvances, LocksUnchanged DEF TypeOK
  <2> QED
    BY <1>4, <2>1, <2>2 DEF CreateEvent, e
<1>5. ASSUME NEW at, NEW next \in {"update_write", "remove_lock"}, ManageFind(r, at, next)
      PROVE  TypeOK'
  <2>1. CASE Throw(r, "not_found") \/ Throw(r, "forbidden")
    BY <1>0, <1>3, <1>5, <2>1, RequestThrows, LocksUnchanged DEF TypeOK, ManageFind
  <2>2. CASE Goto(r, next) /\ UNCHANGED <<store, req, local>>
    BY <1>0, <1>2, <1>5, <2>2, RequestAdvances, StoreUnchanged, LocksUnchanged
       DEF TypeOK, ManageFind
  <2> QED
    BY <1>5, <2>1, <2>2 DEF ManageFind
<1>6. CASE UpdateEvent(r)
  <2>1. CASE DatabaseError(r)
    BY <1>0, <2>1, ErrorTyped
  <2>2. CASE Goto(r, "audit") /\ UNCHANGED <<store, locks, req, local>>
    BY <1>0, <1>2, <2>2, RequestAdvances, StoreUnchanged, LocksUnchanged DEF TypeOK
  <2>3. CASE /\ \E c \in Capacities : capacity' = [capacity EXCEPT ![e] = c]
             /\ Goto(r, "audit")
             /\ UNCHANGED <<eventRow, seats, booking, users, locks, req, local>>
    <3>1. TablesTyped'
      BY <2>3 DEF TypeOK, TablesTyped
    <3> QED
      BY <1>0, <1>2, <2>3, <3>1, RequestAdvances, LocksUnchanged DEF TypeOK
  <2> QED
    BY <1>6, <2>1, <2>2, <2>3 DEF UpdateEvent, e
<1>7. CASE RemoveLockEvent(r)
  <2>1. CASE Goto(r, "audit") /\ UNCHANGED locks
    BY <1>0, <1>2, <1>7, <2>1, RequestAdvances, StoreUnchanged, LocksUnchanged
       DEF TypeOK, RemoveLockEvent
  <2>2. CASE /\ eventLock' = [eventLock EXCEPT ![e] = r]
             /\ Goto(r, "cascade")
             /\ UNCHANGED <<bookingLock, userLock, userShare>>
    BY <1>0, <1>1, <1>2, <1>7, <2>2, RequestAdvances, StoreUnchanged, EventLocked
       DEF TypeOK, RemoveLockEvent
  <2> QED
    BY <1>7, <2>1, <2>2 DEF RemoveLockEvent, e
<1> QED
  BY <1>4, <1>5, <1>6, <1>7 DEF Manage, UpdateFind, RemoveFind

LEMMA EraseTyped ==
  ASSUME TypeOK, NEW r \in Requests, Erase(r)
  PROVE  TypeOK'
<1>0. pc[r] # "idle"
  BY DEF Erase, EraseLockUser, CascadeLock, CascadeDelete
<1>1. Actor(r) \in Users
  BY <1>0, InFlight
<1>2. {"cascade", "audit", "done"} \subseteq Pcs \ {"idle"}
  BY DEF Pcs
<1>3. [result EXCEPT ![r] = "ok"] \in [Requests -> Results]
  BY DEF TypeOK, RequestsTyped, Results
<1>4. CASE EraseLockUser(r)
  <2>1. CASE /\ Goto(r, "done")
             /\ result' = [result EXCEPT ![r] = "ok"]
             /\ UNCHANGED <<locks, seen, newSeats, audited>>
    BY <1>0, <1>2, <1>3, <1>4, <2>1, RequestMoves, StoreUnchanged, LocksUnchanged
       DEF EraseLockUser, TypeOK, RequestsTyped, Goto
  <2>2. CASE /\ userLock' = [userLock EXCEPT ![Actor(r)] = r]
             /\ Goto(r, "cascade")
             /\ UNCHANGED <<eventLock, bookingLock, userShare, local>>
    <3>1. LocksTyped'
      BY <1>1, <2>2 DEF TypeOK, LocksTyped
    <3> QED
      BY <1>0, <1>2, <1>4, <2>2, <3>1, RequestAdvances, StoreUnchanged DEF EraseLockUser, TypeOK
  <2> QED
    BY <1>4, <2>1, <2>2 DEF EraseLockUser
<1>5. CASE CascadeLock(r)
  <2>1. /\ TablesTyped'
        /\ RequestsTyped'
    BY <1>5, StoreUnchanged DEF CascadeLock, TypeOK, RequestsTyped, local
  <2>2. PICK e \in Events :
          \/ /\ eventLock' = [eventLock EXCEPT ![e] = r]
             /\ UNCHANGED <<bookingLock, userLock, userShare>>
          \/ \E u \in Users :
               /\ bookingLock' = [bookingLock EXCEPT ![e][u] = r]
               /\ UNCHANGED <<eventLock, userLock, userShare>>
    BY <1>5 DEF CascadeLock, DoomedUsers
  <2>3. LocksTyped'
    BY <2>2, EventLocked, BookingLocked DEF TypeOK, LocksTyped
  <2> QED
    BY <2>1, <2>3 DEF TypeOK
<1>6. CASE CascadeDelete(r)
  <2>1. TablesTyped'
    <3> USE <1>6 DEF CascadeDelete, TypeOK, TablesTyped
    <3>1. eventRow' \in [Events -> {"fresh", "live", "gone"}]
      OBVIOUS
    <3>2. booking' \in [Events -> [Users -> Statuses]]
      BY DEF Statuses
    <3> QED
      BY <3>1, <3>2
  <2>2. PICK p \in {"done", "audit"} : pc' = [pc EXCEPT ![r] = p]
    BY <1>6 DEF CascadeDelete, Goto
  <2>3. result' \in [Requests -> Results]
    BY <1>6 DEF CascadeDelete, TypeOK, RequestsTyped, Results
  <2>4. RequestsTyped'
    BY <1>0, <1>2, <1>6, <2>2, <2>3, RequestMoves DEF CascadeDelete, TypeOK, RequestsTyped
  <2> QED
    BY <1>6, <2>1, <2>4, LocksReleased DEF CascadeDelete, TypeOK
<1> QED
  BY <1>4, <1>5, <1>6 DEF Erase

(* Only a request in flight waits for a lock. *)
LEMMA AbortedInFlight ==
  ASSUME NEW r \in Requests, DeadlockAbort(r)
  PROVE  pc[r] # "idle"
<1>1. PICK S \in SUBSET Requests : r \in S /\ Knot(S)
  BY DEF DeadlockAbort
<1>2. BlockedBy(r) # {}
  BY <1>1 DEF Knot
<1>3. pc[r] = "idle" => BlockedBy(r) = {}
  <2> SUFFICES ASSUME pc[r] = "idle" PROVE BlockedBy(r) = {}
    OBVIOUS
  <2>1. /\ pc[r] \notin {"book_lock", "book_seat", "cancel_seat", "update_write", "remove_lock"}
        /\ pc[r] \notin {"book_write", "cancel_lock", "create_write", "erase_lock", "cascade"}
    OBVIOUS
  <2> QED
    BY <2>1, Zenon DEF BlockedBy
<1> QED
  BY <1>2, <1>3

LEMMA FinishTyped ==
  ASSUME TypeOK, NEW r \in Requests, Finish(r) \/ AuditLost(r) \/ Lose(r)
  PROVE  TypeOK'
<1>0. pc[r] # "idle"
  BY DEF Finish, AuditInsert, AuditLost, Commit, Rollback, Lose
<1>1. /\ Op(r) \in Operations
      /\ Event(r) \in Events
      /\ Owner(r) \in Users
  BY <1>0, InFlight
<1>2. {"commit", "done", "erase_lock"} \subseteq Pcs \ {"idle"}
  BY DEF Pcs
<1>3. /\ [result EXCEPT ![r] = "ok"] \in [Requests -> Results]
      /\ [result EXCEPT ![r] = "lost"] \in [Requests -> Results]
  BY DEF TypeOK, RequestsTyped, Results
<1>4. CASE AuditInsert(r) \/ AuditLost(r)
  <2>1. AfterAudit[Op(r)] \in {"commit", "done", "erase_lock"}
    BY <1>1 DEF Operations, AfterAudit
  <2>2. audited' \in [Requests -> BOOLEAN]
    <3>1. CASE AuditInsert(r)
      <4> DEFINE written == Actor(r) \in users
      <4>1. audited' = [audited EXCEPT ![r] = written]
        BY <3>1 DEF AuditInsert
      <4>2. written \in BOOLEAN
        OBVIOUS
      <4> HIDE DEF written
      <4> QED
        BY <4>1, <4>2 DEF TypeOK, RequestsTyped
    <3>2. CASE AuditLost(r)
      BY <3>2 DEF AuditLost, TypeOK, RequestsTyped
    <3> QED
      BY <1>4, <3>1, <3>2
  <2>3. result' \in [Requests -> Results]
    BY <1>3, <1>4 DEF AuditInsert, AuditLost, FinishAudit, TypeOK, RequestsTyped
  <2>4. /\ pc' = [pc EXCEPT ![r] = AfterAudit[Op(r)]]
        /\ UNCHANGED <<store, locks, req, seen, newSeats>>
    BY <1>4 DEF AuditInsert, AuditLost, FinishAudit, Goto
  <2> HIDE DEF AfterAudit
  <2>5. RequestsTyped'
    BY <1>0, <1>2, <2>1, <2>2, <2>3, <2>4, RequestMoves DEF TypeOK, RequestsTyped
  <2> QED
    BY <2>4, <2>5, StoreUnchanged, LocksUnchanged DEF TypeOK
<1>5. CASE Commit(r)
  <2>1. booking' \in [Events -> [Users -> Statuses]]
    BY <1>1, <1>5 DEF Commit, TypeOK, TablesTyped, Statuses
  <2>2. seats' \in [Events -> Nat]
    BY <1>1, <1>5 DEF Commit, TypeOK, TablesTyped, RequestsTyped
  <2>3. RequestsTyped'
    BY <1>0, <1>2, <1>3, <1>5, RequestMoves DEF Commit, Goto, TypeOK, RequestsTyped
  <2> QED
    BY <1>5, <2>1, <2>2, <2>3, LocksReleased DEF Commit, TypeOK, TablesTyped
<1>6. CASE Rollback(r)
  BY <1>0, <1>2, <1>6, RequestAdvances, StoreUnchanged, LocksReleased DEF Rollback, TypeOK
<1>7. CASE Lose(r)
  BY <1>0, <1>2, <1>3, <1>7, RequestMoves, StoreUnchanged, LocksReleased
     DEF Lose, Goto, TypeOK, RequestsTyped
<1> QED
  BY <1>4, <1>5, <1>6, <1>7 DEF Finish

LEMMA StartTyped ==
  ASSUME TypeOK, NEW r \in Requests, Start(r)
  PROVE  TypeOK'
<1>1. PICK w \in Workload : /\ req' = [req EXCEPT ![r] = w]
                            /\ pc' = [pc EXCEPT ![r] = First[w.op]]
  BY DEF Start, Goto
<1>2. w \in RequestData
  BY WorkloadTyped
<1>3. w.op \in Operations /\ w # NoRequest
  BY <1>2, NoRequestNotData DEF RequestData
<1>4. First[w.op] \in Pcs \ {"idle"}
  BY <1>3 DEF First, Operations, Pcs, BookPcs, CancelPcs, ManagePcs
<1> HIDE DEF First
<1>5. RequestsTyped'
  BY <1>1, <1>3, <1>4 DEF Start, TypeOK, RequestsTyped, local
<1> QED
  BY <1>5, StoreUnchanged, LocksUnchanged DEF Start, TypeOK

LEMMA ReplyTyped ==
  ASSUME TypeOK, NEW r \in Requests, Reply(r)
  PROVE  TypeOK'
<1>1. RequestsTyped'
  BY DEF Reply, Goto, TypeOK, RequestsTyped, Pcs, Results, Statuses
<1> QED
  BY <1>1, StoreUnchanged, LocksUnchanged DEF Reply, TypeOK

(* Every step of every request keeps the types. *)
LEMMA NextTyped == TypeOK /\ [Next]_vars => TypeOK'
<1> SUFFICES ASSUME TypeOK, [Next]_vars PROVE TypeOK'
  OBVIOUS
<1>1. ASSUME NEW r \in Requests, DeadlockAbort(r) PROVE TypeOK'
  <2>1. pc[r] # "idle"
    BY <1>1, AbortedInFlight
  <2> QED
    BY <1>1, <2>1, ErrorTyped DEF DeadlockAbort
<1>2. CASE Next
  BY <1>1, <1>2, BookTyped, CancelTyped, ManageTyped, EraseTyped, FinishTyped,
     StartTyped, ReplyTyped DEF Next, Proceed
<1>3. CASE UNCHANGED vars
  BY <1>3, StoreUnchanged, LocksUnchanged DEF vars, local, TypeOK, RequestsTyped
<1> QED
  BY <1>2, <1>3

(* Every reachable state is well typed: seats_taken never turns negative and
   a lock never names a request that does not exist. *)
THEOREM TypeCorrect == Spec => []TypeOK
BY InitTyped, NextTyped, PTL DEF Spec

-----------------------------------------------------------------------------
(* What a step of request r may do to the rest of the system. *)

(* The other requests stay where they are. *)
OthersStay(r) ==
  \A q \in Requests \ {r} : /\ pc'[q] = pc[q]
                            /\ req'[q] = req[q]
                            /\ seen'[q] = seen[q]
                            /\ newSeats'[q] = newSeats[q]

(* Only locks that are free or r's change hands, and only to r; an account
   that another request deletes gets no new reference. *)
OthersKeepLocks(r) ==
  /\ \A e \in Events : eventLock'[e] # eventLock[e] =>
       eventLock[e] \in {Nobody, r} /\ eventLock'[e] \in {Nobody, r}
  /\ \A e \in Events, u \in Users : bookingLock'[e][u] # bookingLock[e][u] =>
       bookingLock[e][u] \in {Nobody, r} /\ bookingLock'[e][u] \in {Nobody, r}
  /\ \A u \in Users : userLock'[u] # userLock[u] =>
       userLock[u] \in {Nobody, r} /\ userLock'[u] \in {Nobody, r}
  /\ \A u \in Users : userShare'[u] \in {userShare[u], userShare[u] \cup {r}, userShare[u] \ {r}}
  /\ \A u \in Users : userLock[u] \notin {Nobody, r} => userShare'[u] \subseteq userShare[u]

(* A committed row changes only under r's lock of it. *)
OnlyLockedRowsChange(r) ==
  /\ \A e \in Events : eventRow[e] = "live" =>
       /\ eventRow'[e] # "live" => eventLock[e] = r
       /\ seats'[e] # seats[e] => eventLock[e] = r
       /\ capacity'[e] # capacity[e] => eventLock[e] \in {Nobody, r}
  /\ \A e \in Events, u \in Users : booking'[e][u] # booking[e][u] =>
       /\ bookingLock[e][u] = r
       /\ booking'[e][u] # "none" => eventLock[e] = r
  /\ \A u \in users \ users' : userLock[u] = r /\ userShare[u] = {}

(* A step of another request leaves q what it relies on. *)
LEMMA OthersJustified ==
  ASSUME TypeOK, LockInv, NEW r \in Requests,
         OthersStay(r), OthersKeepLocks(r), OnlyLockedRowsChange(r),
         NEW q \in Requests \ {r}
  PROVE  Justified(q)'
<1>0. q # Nobody
  BY NobodyNotRequest
<1>1. /\ pc'[q] = pc[q]
      /\ req'[q] = req[q]
      /\ seen'[q] = seen[q]
      /\ newSeats'[q] = newSeats[q]
  BY DEF OthersStay
<1>2. CASE pc[q] = "idle"
  BY <1>1, <1>2 DEF Justified, PcOfOperation, BookHoldsEvent, BookSeesUnconfirmed,
     BookHoldsBooking, CancelHoldsBooking, CounterPending, SeatWritten, DeletionHoldsRow,
     BookPcs, CancelPcs
<1>3. CASE pc[q] # "idle"
  <2> DEFINE e == Event(q)
             u == Owner(q)
             a == Actor(q)
  <2>1. /\ e \in Events /\ u \in Users /\ a \in Users
        /\ Op(q) # "cancel" => u = a
    BY <1>3, InFlight
  <2>2. /\ e' = e /\ u' = u /\ a' = a /\ Op(q)' = Op(q)
    BY <1>1 DEF Event, Owner, Actor, Op
  <2>3. Justified(q)
    BY DEF LockInv
  <2> HIDE DEF e, u, a
  <2>4. eventLock[e] = q =>
          /\ eventLock'[e] = q
          /\ eventRow[e] = "live" => /\ eventRow'[e] = "live"
                                     /\ seats'[e] = seats[e]
                                     /\ capacity'[e] = capacity[e]
          /\ booking'[e][u] \in {booking[e][u], "none"}
    BY <1>0, <2>1 DEF OthersKeepLocks, OnlyLockedRowsChange
  <2>5. bookingLock[e][u] = q =>
          bookingLock'[e][u] = q /\ booking'[e][u] = booking[e][u]
    BY <1>0, <2>1 DEF OthersKeepLocks, OnlyLockedRowsChange
  <2>6. u \in users /\ q \in userShare[u] => u \in users' /\ q \in userShare'[u]
    BY <1>0, <2>1 DEF OthersKeepLocks, OnlyLockedRowsChange
  <2>7. userLock[a] = q =>
          /\ userLock'[a] = q
          /\ a \in users => a \in users'
          /\ userShare[a] = {} => userShare'[a] = {}
    BY <1>0, <2>1 DEF OthersKeepLocks, OnlyLockedRowsChange
  <2>8. PcOfOperation(q)'
    BY <1>1, <2>2, <2>3 DEF Justified, PcOfOperation
  <2>9. BookHoldsEvent(q)'
    BY <1>1, <2>2, <2>3, <2>4 DEF Justified, BookHoldsEvent, e
  <2>10. BookSeesUnconfirmed(q)'
    BY <1>1, <2>2, <2>3, <2>4 DEF Justified, BookHoldsEvent, BookSeesUnconfirmed, e, u
  <2>11. BookHoldsBooking(q)'
    BY <1>1, <2>2, <2>3, <2>5, <2>6 DEF Justified, BookHoldsBooking, e, u
  <2>12. CancelHoldsBooking(q)'
    BY <1>1, <2>2, <2>3, <2>5 DEF Justified, CancelHoldsBooking, e, u
  <2>13. CounterPending(q)'
    BY <1>1, <2>2, <2>3, <2>4 DEF Justified, CounterPending, SeatWritten, e
  <2>14. DeletionHoldsRow(q)'
    BY <1>1, <2>2, <2>3, <2>4, <2>7 DEF Justified, DeletionHoldsRow, e, a
  <2> QED
    BY <2>8, <2>9, <2>10, <2>11, <2>12, <2>13, <2>14 DEF Justified
<1> QED
  BY <1>2, <1>3

LEMMA StepJustified ==
  ASSUME TypeOK, LockInv, NEW r \in Requests,
         OthersStay(r), OthersKeepLocks(r), OnlyLockedRowsChange(r),
         Justified(r)', BookingsHaveParents'
  PROVE  LockInv'
BY OthersJustified DEF LockInv

LEMMA SameLocks ==
  ASSUME TypeOK, NEW r \in Requests, UNCHANGED locks PROVE OthersKeepLocks(r)
BY DEF locks, OthersKeepLocks

LEMMA ReleasedLocks ==
  ASSUME TypeOK, NEW r \in Requests, ReleaseLocks(r) PROVE OthersKeepLocks(r)
BY DEF ReleaseLocks, OthersKeepLocks, TypeOK, LocksTyped

LEMMA OneEventLock ==
  ASSUME TypeOK, NEW r \in Requests, NEW e \in Events, Free(eventLock[e], r),
         eventLock' = [eventLock EXCEPT ![e] = r],
         UNCHANGED <<bookingLock, userLock, userShare>>
  PROVE  OthersKeepLocks(r)
BY DEF Free, OthersKeepLocks, TypeOK, LocksTyped

LEMMA OneBookingLock ==
  ASSUME TypeOK, NEW r \in Requests, NEW e \in Events, NEW u \in Users,
         Free(bookingLock[e][u], r),
         bookingLock' = [bookingLock EXCEPT ![e][u] = r],
         UNCHANGED <<eventLock, userLock>>,
         \/ UNCHANGED userShare
         \/ /\ userShare' = [userShare EXCEPT ![u] = @ \cup {r}]
            /\ Free(userLock[u], r)
  PROVE  OthersKeepLocks(r)
BY DEF Free, OthersKeepLocks, TypeOK, LocksTyped

LEMMA SameStore ==
  ASSUME LockInv, NEW r \in Requests, UNCHANGED store
  PROVE  OnlyLockedRowsChange(r) /\ BookingsHaveParents'
BY DEF store, OnlyLockedRowsChange, LockInv, BookingsHaveParents

(* The request that throws relies on nothing afterwards. *)
LEMMA ThrowKeeps ==
  ASSUME TypeOK, LockInv, NEW r \in Requests, pc[r] # "idle",
         NEW why, Throw(r, why), OthersKeepLocks(r)
  PROVE  LockInv'
<1>1. OthersStay(r) /\ OnlyLockedRowsChange(r) /\ BookingsHaveParents'
  BY SameStore DEF Throw, Goto, OthersStay, TypeOK, RequestsTyped
<1>2. /\ \/ pc'[r] = "done"
         \/ pc'[r] = "rollback" /\ Op(r) \in {"book", "cancel"}
      /\ Op(r)' = Op(r)
  BY DEF Throw, Goto, Transactional, TypeOK, RequestsTyped, Op
<1>3. Justified(r)'
  BY <1>2 DEF Justified, PcOfOperation, BookHoldsEvent, BookSeesUnconfirmed,
     BookHoldsBooking, CancelHoldsBooking, CounterPending, SeatWritten, DeletionHoldsRow,
     BookPcs, CancelPcs
<1> QED
  BY <1>1, <1>3, StepJustified

LEMMA ErrorKeeps ==
  ASSUME TypeOK, LockInv, NEW r \in Requests, pc[r] # "idle", DatabaseError(r)
  PROVE  LockInv'
BY ThrowKeeps, ReleasedLocks DEF DatabaseError

LEMMA BookKeeps ==
  ASSUME TypeOK, LockInv, NEW r \in Requests, Book(r)
  PROVE  LockInv'
<1>0. pc[r] # "idle"
  BY DEF Book, BookLockEvent, BookLook, BookReactivate, BookInsert, BookSeat
<1> DEFINE e == Event(r)
           u == Owner(r)
<1>1. e \in Events /\ u \in Users
  BY <1>0, InFlight
<1>2. Op(r) = "book" /\ Actor(r) = u
  <2>1. pc[r] \in BookPcs
    BY DEF Book, BookLockEvent, BookLook, BookReactivate, BookInsert, BookSeat, BookPcs
  <2>2. Op(r) = "book"
    BY <2>1 DEF LockInv, Justified, PcOfOperation
  <2> QED
    BY <1>0, <2>2, InFlight
<1>3. UNCHANGED req => e' = e /\ u' = u /\ Op(r)' = Op(r) /\ Actor(r)' = Actor(r)
  BY DEF Event, Owner, Op, Actor
<1>4. Justified(r) /\ BookingsHaveParents
  BY DEF LockInv
<1>5. Statuses = {"none", "confirmed", "cancelled"}
  BY DEF Statuses
<1>6. /\ seats[e] \in Nat /\ capacity[e] \in Nat
      /\ booking[e][u] \in Statuses
  BY <1>1, CapacitiesPositive DEF TypeOK, TablesTyped
<1> HIDE DEF e, u
<1>7. CASE BookLockEvent(r)
  <2>1. CASE Throw(r, "not_found") /\ UNCHANGED locks
    BY <1>0, <2>1, ThrowKeeps, SameLocks
  <2>2. CASE /\ eventRow[e] = "live"
             /\ Free(eventLock[e], r)
             /\ eventLock' = [eventLock EXCEPT ![e] = r]
             /\ UNCHANGED <<bookingLock, userLock, userShare>>
    <3>1. OthersKeepLocks(r)
      BY <1>1, <2>2, OneEventLock
    <3>2. CASE Throw(r, "conflict")
      BY <1>0, <3>1, <3>2, ThrowKeeps
    <3>3. CASE /\ ~(seats[e] >= capacity[e])
               /\ Goto(r, "book_look")
               /\ UNCHANGED <<store, req, local>>
      <4>1. OthersStay(r)
        BY <3>3 DEF OthersStay, Goto, local, TypeOK, RequestsTyped
      <4>2. pc'[r] = "book_look"
        BY <3>3 DEF Goto, TypeOK, RequestsTyped
      <4>3. /\ eventLock'[e] = r /\ eventRow'[e] = "live"
            /\ seats'[e] < capacity'[e]
        BY <1>1, <1>6, <2>2, <3>3 DEF store, TypeOK, LocksTyped
      <4>4. Justified(r)'
        BY <1>2, <1>3, <3>3, <4>2, <4>3 DEF Justified, PcOfOperation, BookHoldsEvent,
           BookSeesUnconfirmed, BookHoldsBooking, CancelHoldsBooking, CounterPending,
           SeatWritten, DeletionHoldsRow, BookPcs, CancelPcs, e
      <4> QED
        BY <3>1, <3>3, <4>1, <4>4, SameStore, StepJustified
    <3> QED
      BY <1>7, <2>2, <3>2, <3>3 DEF BookLockEvent, e
  <2> QED
    BY <1>7, <2>1, <2>2 DEF BookLockEvent, e
<1>8. CASE BookLook(r)
  <2>1. CASE Throw(r, "conflict") /\ UNCHANGED locks
    BY <1>0, <2>1, ThrowKeeps, SameLocks
  <2>2. CASE /\ booking[e][u] # "confirmed"
             /\ seen' = [seen EXCEPT ![r] = booking[e][u]]
             /\ Goto(r, "book_write")
             /\ UNCHANGED <<store, req, newSeats, audited, result>>
             /\ UNCHANGED locks
    <3>1. OthersStay(r)
      BY <2>2 DEF OthersStay, Goto, TypeOK, RequestsTyped
    <3>2. pc'[r] = "book_write" /\ seen'[r] = booking[e][u]
      BY <2>2 DEF Goto, TypeOK, RequestsTyped
    <3>3. /\ eventLock[e] = r /\ eventRow[e] = "live" /\ seats[e] < capacity[e]
      BY <1>4, <1>8 DEF BookLook, Justified, BookHoldsEvent, e
    <3>4. Justified(r)'
      BY <1>2, <1>3, <1>5, <1>6, <2>2, <3>2, <3>3 DEF Justified, PcOfOperation, BookHoldsEvent,
         BookSeesUnconfirmed, BookHoldsBooking, CancelHoldsBooking, CounterPending,
         SeatWritten, DeletionHoldsRow, BookPcs, CancelPcs, e, u, store, locks
    <3> QED
      BY <2>2, <3>1, <3>4, SameStore, SameLocks, StepJustified
  <2> QED
    BY <1>8, <2>1, <2>2 DEF BookLook, e, u
<1>9. CASE BookReactivate(r) \/ BookInsert(r)
  <2>1. CASE Throw(r, "error") /\ UNCHANGED locks
    BY <1>0, <2>1, ThrowKeeps, SameLocks
  <2>2. CASE DatabaseError(r)
    BY <1>0, <2>2, ErrorKeeps
  <2>3. CASE /\ Free(bookingLock[e][u], r)
             /\ bookingLock' = [bookingLock EXCEPT ![e][u] = r]
             /\ UNCHANGED <<eventLock, userLock>>
             /\ \/ /\ seen[r] = "cancelled"
                   /\ booking[e][u] # "none"
                   /\ UNCHANGED userShare
                \/ /\ seen[r] = "none"
                   /\ booking[e][u] = "none"
                   /\ u \in users
                   /\ userShare' = [userShare EXCEPT ![u] = @ \cup {r}]
                   /\ Free(userLock[u], r)
             /\ Goto(r, "book_seat")
             /\ UNCHANGED <<store, req, local>>
    <3>0. pc[r] = "book_write"
      BY <1>9 DEF BookReactivate, BookInsert
    <3>1. OthersStay(r)
      BY <2>3 DEF OthersStay, Goto, local, TypeOK, RequestsTyped
    <3>2. pc'[r] = "book_seat" /\ seen'[r] = seen[r]
      BY <2>3 DEF Goto, TypeOK, RequestsTyped, local
    <3>3. OthersKeepLocks(r)
      BY <1>1, <2>3, OneBookingLock
    <3>4. /\ eventLock'[e] = r /\ eventRow'[e] = "live" /\ seats'[e] < capacity'[e]
      BY <1>4, <2>3, <3>0 DEF Justified, BookHoldsEvent, e, store
    <3>5. /\ bookingLock'[e][u] = r
          /\ booking'[e][u] = seen[r]
          /\ seen[r] \in {"none", "cancelled"}
      BY <1>1, <1>4, <2>3, <3>0 DEF Justified, BookSeesUnconfirmed, e, u, store,
         TypeOK, LocksTyped
    <3>6. seen[r] = "none" => u \in users' /\ r \in userShare'[u]
      BY <1>1, <2>3 DEF store, TypeOK, LocksTyped
    <3>7. Justified(r)'
      BY <1>2, <1>3, <2>3, <3>2, <3>4, <3>5, <3>6 DEF Justified, PcOfOperation, BookHoldsEvent,
         BookSeesUnconfirmed, BookHoldsBooking, CancelHoldsBooking, CounterPending,
         SeatWritten, DeletionHoldsRow, BookPcs, CancelPcs, e, u
    <3> QED
      BY <2>3, <3>1, <3>3, <3>7, SameStore, StepJustified
  <2>4. CASE BookReactivate(r)
    BY <2>1, <2>3, <2>4 DEF BookReactivate, e, u
  <2>5. CASE BookInsert(r)
    BY <1>2, <2>2, <2>3, <2>5 DEF BookInsert, e, u
  <2> QED
    BY <1>9, <2>4, <2>5
<1>10. CASE BookSeat(r)
  <2>1. CASE DatabaseError(r)
    BY <1>0, <2>1, ErrorKeeps
  <2>2. CASE /\ Free(eventLock[e], r)
             /\ eventLock' = [eventLock EXCEPT ![e] = r]
             /\ newSeats' = [newSeats EXCEPT ![r] = seats[e] + 1]
             /\ Goto(r, "audit")
             /\ UNCHANGED <<store, bookingLock, userLock, userShare, req, seen,
                            audited, result>>
    <3>0. pc[r] = "book_seat"
      BY <1>10 DEF BookSeat
    <3>1. OthersStay(r)
      BY <2>2 DEF OthersStay, Goto, TypeOK, RequestsTyped
    <3>2. pc'[r] = "audit" /\ seen'[r] = seen[r] /\ newSeats'[r] = seats[e] + 1
      BY <2>2 DEF Goto, TypeOK, RequestsTyped
    <3>3. OthersKeepLocks(r)
      BY <1>1, <2>2, OneEventLock
    <3>4. /\ eventLock'[e] = r /\ eventRow'[e] = "live" /\ seats'[e] < capacity'[e]
      BY <1>1, <1>4, <2>2, <3>0 DEF Justified, BookHoldsEvent, e, store, TypeOK, LocksTyped
    <3>5. /\ bookingLock'[e][u] = r
          /\ booking'[e][u] = seen[r]
          /\ seen[r] \in {"none", "cancelled"}
          /\ seen[r] = "none" => u \in users' /\ r \in userShare'[u]
      BY <1>2, <1>4, <2>2, <3>0 DEF Justified, BookHoldsBooking, e, u, store
    <3>6. Justified(r)'
      BY <1>2, <1>3, <2>2, <3>2, <3>4, <3>5 DEF Justified, PcOfOperation, BookHoldsEvent,
         BookSeesUnconfirmed, BookHoldsBooking, CancelHoldsBooking, CounterPending,
         SeatWritten, DeletionHoldsRow, BookPcs, CancelPcs, e, u, store
    <3> QED
      BY <2>2, <3>1, <3>3, <3>6, SameStore, StepJustified
  <2> QED
    BY <1>10, <2>1, <2>2 DEF BookSeat, e
<1> QED
  BY <1>7, <1>8, <1>9, <1>10 DEF Book

LEMMA CancelKeeps ==
  ASSUME TypeOK, LockInv, CounterInv, NEW r \in Requests, Cancel(r)
  PROVE  LockInv'
<1>0. pc[r] # "idle"
  BY DEF Cancel, CancelLockBooking, CancelWrite, CancelSeat
<1> DEFINE e == Event(r)
           u == Owner(r)
<1>1. e \in Events /\ u \in Users
  BY <1>0, InFlight
<1>2. Op(r) = "cancel"
  <2>1. pc[r] \in CancelPcs
    BY DEF Cancel, CancelLockBooking, CancelWrite, CancelSeat, CancelPcs
  <2> QED
    BY <2>1 DEF LockInv, Justified, PcOfOperation
<1>3. UNCHANGED req => e' = e /\ u' = u /\ Op(r)' = Op(r)
  BY DEF Event, Owner, Op
<1>4. Justified(r) /\ BookingsHaveParents
  BY DEF LockInv
<1>6. /\ seats[e] \in Nat
      /\ booking[e][u] \in {"none", "confirmed", "cancelled"}
  BY <1>1 DEF TypeOK, TablesTyped, Statuses
<1> HIDE DEF e, u
<1>7. CASE CancelLockBooking(r)
  <2>1. CASE Throw(r, "not_found") /\ UNCHANGED locks
    BY <1>0, <2>1, ThrowKeeps, SameLocks
  <2>2. CASE /\ Free(bookingLock[e][u], r)
             /\ bookingLock' = [bookingLock EXCEPT ![e][u] = r]
             /\ UNCHANGED <<eventLock, userLock, userShare>>
    <3>1. OthersKeepLocks(r)
      BY <1>1, <2>2, OneBookingLock
    <3>2. CASE Throw(r, "forbidden") \/ Throw(r, "bad_request")
      BY <1>0, <3>1, <3>2, ThrowKeeps
    <3>3. CASE /\ booking[e][u] = "confirmed"
               /\ Goto(r, "cancel_write")
               /\ UNCHANGED <<store, req, newSeats, audited, result>>
               /\ seen' = [seen EXCEPT ![r] = booking[e][u]]
      <4>1. OthersStay(r)
        BY <3>3 DEF OthersStay, Goto, TypeOK, RequestsTyped
      <4>2. pc'[r] = "cancel_write"
        BY <3>3 DEF Goto, TypeOK, RequestsTyped
      <4>3. bookingLock'[e][u] = r /\ booking'[e][u] = "confirmed"
        BY <1>1, <2>2, <3>3 DEF store, TypeOK, LocksTyped
      <4>4. Justified(r)'
        BY <1>2, <1>3, <3>3, <4>2, <4>3 DEF Justified, PcOfOperation, BookHoldsEvent,
           BookSeesUnconfirmed, BookHoldsBooking, CancelHoldsBooking, CounterPending,
           SeatWritten, DeletionHoldsRow, BookPcs, CancelPcs, e, u
      <4> QED
        BY <3>1, <3>3, <4>1, <4>4, SameStore, StepJustified
    <3>4. CASE booking[e][u] = "none"
      BY <1>0, <1>7, <3>1, <3>4, ThrowKeeps DEF CancelLockBooking, CancelRefusal, e, u
    <3> QED
      BY <1>6, <1>7, <3>2, <3>3, <3>4 DEF CancelLockBooking, CancelRefusal, e, u
  <2> QED
    BY <1>7, <2>1, <2>2 DEF CancelLockBooking, e, u
<1>8. CASE CancelWrite(r)
  <2>1. OthersStay(r)
    BY <1>8 DEF CancelWrite, OthersStay, Goto, local, TypeOK, RequestsTyped
  <2>2. pc'[r] = "cancel_seat" /\ pc[r] = "cancel_write"
    BY <1>8 DEF CancelWrite, Goto, TypeOK, RequestsTyped
  <2>3. bookingLock'[e][u] = r /\ booking'[e][u] = "confirmed"
    BY <1>2, <1>4, <1>8, <2>2 DEF CancelWrite, Justified, CancelHoldsBooking, e, u, store, locks
  <2>4. Justified(r)'
    BY <1>2, <1>3, <1>8, <2>2, <2>3 DEF CancelWrite, Justified, PcOfOperation, BookHoldsEvent,
       BookSeesUnconfirmed, BookHoldsBooking, CancelHoldsBooking, CounterPending,
       SeatWritten, DeletionHoldsRow, BookPcs, CancelPcs, e, u
  <2> QED
    BY <1>8, <2>1, <2>4, SameStore, SameLocks, StepJustified DEF CancelWrite
<1>9. CASE CancelSeat(r)
  <2>1. /\ Free(eventLock[e], r)
        /\ eventLock' = [eventLock EXCEPT ![e] = r]
        /\ newSeats' = [newSeats EXCEPT ![r] = IF seats[e] = 0 THEN 0 ELSE seats[e] - 1]
        /\ Goto(r, "audit")
        /\ UNCHANGED <<store, bookingLock, userLock, userShare, req, seen, audited, result>>
        /\ pc[r] = "cancel_seat"
    BY <1>9 DEF CancelSeat, e
  <2>2. OthersStay(r)
    BY <2>1 DEF OthersStay, Goto, TypeOK, RequestsTyped
  <2>3. OthersKeepLocks(r)
    BY <1>1, <2>1, OneEventLock
  <2>4. /\ bookingLock[e][u] = r /\ booking[e][u] = "confirmed"
        /\ eventRow[e] = "live"
    BY <1>1, <1>2, <1>4, <2>1 DEF Justified, CancelHoldsBooking, BookingsHaveParents, e, u
  <2>5. seats[e] > 0
    <3>1. IsFiniteSet(Confirmed(e)) /\ Confirmed(e) # {}
      BY <1>1, <2>4, UsersFinite, FS_Subset DEF Confirmed
    <3>2. Cardinality(Confirmed(e)) \in Nat /\ Cardinality(Confirmed(e)) # 0
      BY <3>1, FS_EmptySet, FS_CardinalityType
    <3> QED
      BY <1>1, <1>6, <2>4, <3>2 DEF CounterInv
  <2>6. pc'[r] = "audit" /\ newSeats'[r] = seats[e] - 1
    BY <2>1, <2>5 DEF Goto, TypeOK, RequestsTyped
  <2>7. /\ bookingLock'[e][u] = r /\ booking'[e][u] = "confirmed"
        /\ eventLock'[e] = r /\ eventRow'[e] = "live"
        /\ seats'[e] = newSeats'[r] + 1
    BY <1>1, <1>6, <2>1, <2>4, <2>5, <2>6 DEF store, TypeOK, LocksTyped
  <2>8. Justified(r)'
    BY <1>2, <1>3, <2>1, <2>6, <2>7 DEF Justified, PcOfOperation, BookHoldsEvent,
       BookSeesUnconfirmed, BookHoldsBooking, CancelHoldsBooking, CounterPending,
       SeatWritten, DeletionHoldsRow, BookPcs, CancelPcs, e, u
  <2> QED
    BY <2>1, <2>2, <2>3, <2>8, SameStore, StepJustified
<1> QED
  BY <1>7, <1>8, <1>9 DEF Cancel

(* At these statements a request relies on nothing. *)
LEMMA NothingToJustify ==
  ASSUME NEW r, pc'[r] \in {"idle", "done"}
  PROVE  Justified(r)'
BY DEF Justified, PcOfOperation, BookHoldsEvent, BookSeesUnconfirmed, BookHoldsBooking,
   CancelHoldsBooking, CounterPending, SeatWritten, DeletionHoldsRow, BookPcs, CancelPcs

(* An operation on an event by its manager relies only on being itself. *)
LEMMA ManagerJustified ==
  ASSUME NEW r, Op(r) \in Operations \ {"book", "cancel"}, UNCHANGED req,
         \/ pc'[r] \in {"audit", "done"}
         \/ pc'[r] = "update_write" /\ Op(r) = "update_event"
         \/ pc'[r] = "remove_lock" /\ Op(r) = "remove_event"
         \/ pc'[r] = "erase_lock" /\ Op(r) = "delete_account"
  PROVE  Justified(r)'
<1>1. Op(r)' = Op(r)
  BY DEF Op
<1> QED
  BY <1>1 DEF Justified, PcOfOperation, BookHoldsEvent, BookSeesUnconfirmed, BookHoldsBooking,
     CancelHoldsBooking, CounterPending, SeatWritten, DeletionHoldsRow, BookPcs, CancelPcs

LEMMA ManageKeeps ==
  ASSUME TypeOK, LockInv, NEW r \in Requests, Manage(r)
  PROVE  LockInv'
<1>0. pc[r] # "idle"
  BY DEF Manage, CreateEvent, UpdateFind, UpdateEvent, RemoveFind, ManageFind, RemoveLockEvent
<1> DEFINE e == Event(r)
<1>1. e \in Events
  BY <1>0, InFlight
<1>2. UNCHANGED req => e' = e /\ Op(r)' = Op(r)
  BY DEF Event, Op
<1>3. Justified(r) /\ BookingsHaveParents
  BY DEF LockInv
<1>4. ASSUME NEW p, Goto(r, p), UNCHANGED <<req, local>>
      PROVE  pc'[r] = p /\ OthersStay(r)
  BY <1>4 DEF OthersStay, Goto, local, TypeOK, RequestsTyped
<1> HIDE DEF e
<1>5. CASE CreateEvent(r)
  <2>0. Op(r) = "create_event"
    BY <1>3, <1>5 DEF CreateEvent, Justified, PcOfOperation
  <2>1. CASE DatabaseError(r)
    BY <1>0, <2>1, ErrorKeeps
  <2>2. CASE /\ eventRow' = [eventRow EXCEPT ![e] = "live"]
             /\ \E c \in Capacities : capacity' = [capacity EXCEPT ![e] = c]
             /\ seats' = [seats EXCEPT ![e] = 0]
             /\ Goto(r, "audit")
             /\ UNCHANGED <<booking, users, locks, req, local>>
    <3>1. OnlyLockedRowsChange(r)
      BY <1>1, <1>5, <2>2 DEF CreateEvent, e, OnlyLockedRowsChange, TypeOK, TablesTyped
    <3>2. BookingsHaveParents'
      BY <1>1, <1>3, <2>2 DEF BookingsHaveParents, TypeOK, TablesTyped
    <3>3. Justified(r)'
      BY <1>4, <2>0, <2>2, ManagerJustified DEF Operations
    <3> QED
      BY <1>4, <2>2, <3>1, <3>2, <3>3, SameLocks, StepJustified
  <2> QED
    BY <1>5, <2>1, <2>2 DEF CreateEvent, e
<1>6. ASSUME NEW at \in {"update_find", "remove_find"},
             ManageFind(r, at, IF at = "update_find" THEN "update_write" ELSE "remove_lock")
      PROVE  LockInv'
  <2>0. Op(r) = IF at = "update_find" THEN "update_event" ELSE "remove_event"
    BY <1>3, <1>6 DEF ManageFind, Justified, PcOfOperation
  <2>1. CASE \E why \in Results : Throw(r, why)
    BY <1>0, <1>6, <2>1, ThrowKeeps, SameLocks DEF ManageFind
  <2>2. CASE /\ Goto(r, IF at = "update_find" THEN "update_write" ELSE "remove_lock")
             /\ UNCHANGED <<store, req, local>>
    <3>1. Justified(r)'
      BY <1>4, <2>0, <2>2, ManagerJustified DEF Operations
    <3> QED
      BY <1>4, <1>6, <2>2, <3>1, SameStore, SameLocks, StepJustified DEF ManageFind
  <2> QED
    BY <1>6, <2>1, <2>2 DEF ManageFind, Results
<1>7. CASE UpdateEvent(r)
  <2>0. Op(r) = "update_event"
    BY <1>3, <1>7 DEF UpdateEvent, Justified, PcOfOperation
  <2>1. CASE DatabaseError(r)
    BY <1>0, <2>1, ErrorKeeps
  <2>2. CASE Goto(r, "audit") /\ UNCHANGED <<store, locks, req, local>>
    <3>1. Justified(r)'
      BY <1>4, <2>0, <2>2, ManagerJustified DEF Operations
    <3> QED
      BY <1>4, <2>2, <3>1, SameStore, SameLocks, StepJustified
  <2>3. CASE /\ Free(eventLock[e], r)
             /\ \E c \in Capacities : capacity' = [capacity EXCEPT ![e] = c]
             /\ Goto(r, "audit")
             /\ UNCHANGED <<eventRow, seats, booking, users, locks, req, local>>
    <3>1. Justified(r)'
      BY <1>4, <2>0, <2>3, ManagerJustified DEF Operations
    <3>2. OnlyLockedRowsChange(r)
      BY <1>1, <2>3 DEF OnlyLockedRowsChange, Free, TypeOK, TablesTyped
    <3>3. BookingsHaveParents'
      BY <1>3, <2>3 DEF BookingsHaveParents
    <3> QED
      BY <1>4, <2>3, <3>1, <3>2, <3>3, SameLocks, StepJustified
  <2> QED
    BY <1>7, <2>1, <2>2, <2>3 DEF UpdateEvent, e
<1>8. CASE RemoveLockEvent(r)
  <2>0. Op(r) = "remove_event"
    BY <1>3, <1>8 DEF RemoveLockEvent, Justified, PcOfOperation
  <2>1. CASE Goto(r, "audit") /\ UNCHANGED locks
    <3>1. Justified(r)'
      BY <1>4, <1>8, <2>0, <2>1, ManagerJustified DEF RemoveLockEvent, Operations
    <3> QED
      BY <1>4, <1>8, <2>1, <3>1, SameStore, SameLocks, StepJustified DEF RemoveLockEvent
  <2>2. CASE /\ eventRow[e] = "live"
             /\ Free(eventLock[e], r)
             /\ eventLock' = [eventLock EXCEPT ![e] = r]
             /\ Goto(r, "cascade")
             /\ UNCHANGED <<bookingLock, userLock, userShare>>
    <3>1. UNCHANGED <<store, req, local>>
      BY <1>8 DEF RemoveLockEvent
    <3>2. eventLock'[e] = r /\ eventRow'[e] = "live"
      BY <1>1, <2>2, <3>1 DEF TypeOK, LocksTyped, store
    <3>3. Justified(r)'
      BY <1>2, <1>4, <2>0, <2>2, <3>1, <3>2 DEF Justified, PcOfOperation, BookHoldsEvent,
         BookSeesUnconfirmed, BookHoldsBooking, CancelHoldsBooking, CounterPending,
         SeatWritten, DeletionHoldsRow, BookPcs, CancelPcs, e
    <3> QED
      BY <1>1, <1>4, <2>2, <3>1, <3>3, SameStore, OneEventLock, StepJustified
  <2> QED
    BY <1>8, <2>1, <2>2 DEF RemoveLockEvent, e
<1> QED
  BY <1>5, <1>6, <1>7, <1>8 DEF Manage, UpdateFind, RemoveFind

LEMMA EraseKeeps ==
  ASSUME TypeOK, LockInv, NEW r \in Requests, Erase(r)
  PROVE  LockInv'
<1>0. pc[r] # "idle"
  BY DEF Erase, EraseLockUser, CascadeLock, CascadeDelete
<1> DEFINE a == Actor(r)
           e == Event(r)
<1>1. a \in Users /\ e \in Events
  BY <1>0, InFlight
<1>2. UNCHANGED req => e' = e /\ a' = a /\ Op(r)' = Op(r)
  BY DEF Event, Actor, Op
<1>3. Justified(r) /\ BookingsHaveParents
  BY DEF LockInv
<1>4. r # Nobody
  BY NobodyNotRequest
<1> HIDE DEF a, e
<1>5. CASE EraseLockUser(r)
  <2>0. pc[r] = "erase_lock" /\ Op(r) = "delete_account"
    BY <1>3, <1>5 DEF EraseLockUser, Justified, PcOfOperation
  <2>1. CASE /\ Goto(r, "done")
             /\ UNCHANGED <<locks, seen, newSeats, audited>>
    <3>1. OthersStay(r) /\ pc'[r] = "done"
      BY <1>5, <2>1 DEF EraseLockUser, OthersStay, Goto, TypeOK, RequestsTyped
    <3> QED
      BY <1>5, <2>1, <3>1, NothingToJustify, SameStore, SameLocks, StepJustified DEF EraseLockUser
  <2>2. CASE /\ a \in users
             /\ Free(userLock[a], r)
             /\ userShare[a] = {}
             /\ userLock' = [userLock EXCEPT ![a] = r]
             /\ Goto(r, "cascade")
             /\ UNCHANGED <<eventLock, bookingLock, userShare, local>>
    <3>1. UNCHANGED <<store, req>>
      BY <1>5 DEF EraseLockUser
    <3>2. OthersStay(r) /\ pc'[r] = "cascade"
      BY <2>2, <3>1 DEF OthersStay, Goto, local, TypeOK, RequestsTyped
    <3>3. OthersKeepLocks(r)
      BY <1>1, <2>2 DEF Free, OthersKeepLocks, TypeOK, LocksTyped
    <3>4. userLock'[a] = r /\ a \in users' /\ userShare'[a] = {}
      BY <1>1, <2>2, <3>1 DEF store, TypeOK, LocksTyped
    <3>5. Justified(r)'
      BY <1>2, <2>0, <3>1, <3>2, <3>4 DEF Justified, PcOfOperation, BookHoldsEvent,
         BookSeesUnconfirmed, BookHoldsBooking, CancelHoldsBooking, CounterPending,
         SeatWritten, DeletionHoldsRow, BookPcs, CancelPcs, a
    <3> QED
      BY <3>1, <3>2, <3>3, <3>5, SameStore, StepJustified
  <2> QED
    BY <1>5, <2>1, <2>2 DEF EraseLockUser, a
<1>6. CASE CascadeLock(r)
  <2>1. /\ pc[r] = "cascade"
        /\ UNCHANGED <<store, userLock, userShare, pc, req, local>>
    BY <1>6 DEF CascadeLock
  <2>2. OthersStay(r)
    BY <2>1 DEF OthersStay, local
  <2>3. PICK f \in Events :
          \/ /\ eventLock[f] = Nobody
             /\ eventLock' = [eventLock EXCEPT ![f] = r]
             /\ UNCHANGED bookingLock
          \/ \E u \in Users : /\ bookingLock[f][u] = Nobody
                            /\ bookingLock' = [bookingLock EXCEPT ![f][u] = r]
                            /\ UNCHANGED eventLock
    BY <1>6 DEF CascadeLock, DoomedUsers
  <2>4. OthersKeepLocks(r)
    BY <2>1, <2>3, OneEventLock, OneBookingLock DEF Free
  <2>5. eventLock[e] = r => eventLock'[e] = r
    BY <1>1, <2>3 DEF TypeOK, LocksTyped
  <2>6. Op(r) \in {"remove_event", "delete_account"}
    BY <1>3, <2>1 DEF Justified, PcOfOperation
  <2>7. /\ Op(r) = "remove_event" => eventLock'[e] = r /\ eventRow'[e] = "live"
        /\ Op(r) = "delete_account" => userLock'[a] = r /\ a \in users' /\ userShare'[a] = {}
    BY <1>3, <2>1, <2>5 DEF Justified, DeletionHoldsRow, a, e, store
  <2>8. Justified(r)'
    BY <1>2, <2>1, <2>6, <2>7 DEF Justified, PcOfOperation, BookHoldsEvent,
       BookSeesUnconfirmed, BookHoldsBooking, CancelHoldsBooking, CounterPending,
       SeatWritten, DeletionHoldsRow, BookPcs, CancelPcs, a, e
  <2> QED
    BY <2>1, <2>2, <2>4, <2>8, SameStore, StepJustified
<1>7. CASE CascadeDelete(r)
  <2>0. pc[r] = "cascade" /\ Op(r) \in {"remove_event", "delete_account"}
    BY <1>3, <1>7 DEF CascadeDelete, Justified, PcOfOperation
  <2>1. OthersStay(r) /\ OthersKeepLocks(r)
    BY <1>7, ReleasedLocks DEF CascadeDelete, OthersStay, Goto, TypeOK, RequestsTyped
  <2>2. /\ \A f \in DoomedEvents(r) : eventLock[f] = r
        /\ \A f \in Events : \A u \in DoomedUsers(r, f) : bookingLock[f][u] = r
        /\ eventRow' = [f \in Events |->
                          IF f \in DoomedEvents(r) THEN "gone" ELSE eventRow[f]]
        /\ booking' = [f \in Events |-> [u \in Users |->
                          IF u \in DoomedUsers(r, f) THEN "none" ELSE booking[f][u]]]
        /\ users' = IF Op(r) = "delete_account" THEN users \ {a} ELSE users
        /\ UNCHANGED <<capacity, seats>>
    BY <1>7 DEF CascadeDelete, DoomedEvents, a
  <2>3. OnlyLockedRowsChange(r)
    <3>1. \A f \in Events : eventRow[f] = "live" /\ eventRow'[f] # "live" => eventLock[f] = r
      BY <2>2
    <3>2. \A f \in Events, u \in Users : booking'[f][u] # booking[f][u] =>
            bookingLock[f][u] = r /\ booking'[f][u] = "none"
      BY <2>2
    <3>3. \A u \in users \ users' : userLock[u] = r /\ userShare[u] = {}
      BY <1>3, <2>0, <2>2 DEF Justified, DeletionHoldsRow, a
    <3> QED
      BY <2>2, <3>1, <3>2, <3>3 DEF OnlyLockedRowsChange
  <2>4. BookingsHaveParents'
    <3> SUFFICES ASSUME NEW f \in Events, NEW u \in Users, booking'[f][u] # "none"
                 PROVE  eventRow'[f] = "live" /\ u \in users'
      BY DEF BookingsHaveParents
    <3>1. u \notin DoomedUsers(r, f) /\ booking[f][u] # "none"
      BY <2>2
    <3>2. eventRow[f] = "live" /\ u \in users
      BY <1>3, <3>1 DEF BookingsHaveParents
    <3>3. f \notin DoomedEvents(r)
      BY <3>1 DEF DoomedUsers
    <3>4. ~(Op(r) = "delete_account" /\ u = a)
      BY <3>1 DEF DoomedUsers, a
    <3> QED
      BY <2>2, <3>2, <3>3, <3>4
  <2>5. pc'[r] \in {"done", "audit"} /\ UNCHANGED req
    BY <1>7 DEF CascadeDelete, Goto, TypeOK, RequestsTyped
  <2>6. Justified(r)'
    BY <2>0, <2>5, ManagerJustified DEF Operations
  <2> QED
    BY <2>1, <2>3, <2>4, <2>6, StepJustified
<1> QED
  BY <1>5, <1>6, <1>7 DEF Erase

LEMMA FinishKeeps ==
  ASSUME TypeOK, LockInv, NEW r \in Requests, Finish(r) \/ AuditLost(r) \/ Lose(r)
  PROVE  LockInv'
<1>0. pc[r] # "idle"
  BY DEF Finish, AuditInsert, AuditLost, Commit, Rollback, Lose
<1> DEFINE e == Event(r)
           u == Owner(r)
<1>1. e \in Events /\ u \in Users /\ Op(r) \in Operations
  BY <1>0, InFlight
<1>2. UNCHANGED req => e' = e /\ u' = u /\ Op(r)' = Op(r)
  BY DEF Event, Owner, Op
<1>3. Justified(r) /\ BookingsHaveParents
  BY DEF LockInv
<1> HIDE DEF e, u
<1>4. CASE AuditInsert(r) \/ AuditLost(r)
  <2>1. /\ pc[r] = "audit"
        /\ Goto(r, AfterAudit[Op(r)])
        /\ UNCHANGED <<store, locks, req, seen, newSeats>>
    BY <1>4 DEF AuditInsert, AuditLost, FinishAudit
  <2>2. /\ OthersStay(r)
        /\ pc'[r] = AfterAudit[Op(r)]
    BY <2>1 DEF OthersStay, Goto, TypeOK, RequestsTyped
  <2>3. CASE Op(r) \in {"book", "cancel"}
    <3>1. pc'[r] = "commit"
      BY <2>2, <2>3 DEF AfterAudit
    <3>2. Justified(r)'
      BY <1>2, <1>3, <2>1, <2>3, <3>1 DEF Justified, PcOfOperation, BookHoldsEvent,
         BookSeesUnconfirmed, BookHoldsBooking, CancelHoldsBooking, CounterPending,
         SeatWritten, DeletionHoldsRow, BookPcs, CancelPcs, e, u, store, locks
    <3> QED
      BY <2>1, <2>2, <3>2, SameStore, SameLocks, StepJustified
  <2>4. CASE Op(r) \notin {"book", "cancel"}
    <3>1. \/ pc'[r] = "done"
          \/ pc'[r] = "erase_lock" /\ Op(r) = "delete_account"
      BY <1>1, <2>2, <2>4 DEF AfterAudit, Operations
    <3>2. Justified(r)'
      BY <1>1, <2>1, <2>4, <3>1, ManagerJustified
    <3> QED
      BY <2>1, <2>2, <3>2, SameStore, SameLocks, StepJustified
  <2> QED
    BY <2>3, <2>4
<1>5. CASE Commit(r)
  <2>0. /\ pc[r] = "commit"
        /\ booking' = [booking EXCEPT ![e][u] =
                         IF Op(r) = "book" THEN "confirmed" ELSE "cancelled"]
        /\ seats' = [seats EXCEPT ![e] = newSeats[r]]
        /\ UNCHANGED <<eventRow, capacity, users>>
    BY <1>5 DEF Commit, e, u
  <2>1. Op(r) \in {"book", "cancel"}
    BY <1>3, <2>0 DEF Justified, PcOfOperation
  <2>2. eventLock[e] = r /\ eventRow[e] = "live"
    BY <1>3, <2>0, <2>1 DEF Justified, CounterPending, SeatWritten, e
  <2>3. bookingLock[e][u] = r /\ u \in users
    BY <1>1, <1>3, <2>0, <2>1 DEF Justified, BookHoldsBooking, CancelHoldsBooking,
       BookingsHaveParents, e, u
  <2>4. OthersStay(r) /\ OthersKeepLocks(r) /\ pc'[r] = "done"
    BY <1>5, ReleasedLocks DEF Commit, OthersStay, Goto, TypeOK, RequestsTyped
  <2>5. OnlyLockedRowsChange(r)
    BY <1>1, <2>0, <2>2, <2>3 DEF OnlyLockedRowsChange, TypeOK, TablesTyped
  <2>6. BookingsHaveParents'
    BY <1>1, <1>3, <2>0, <2>2, <2>3 DEF BookingsHaveParents, TypeOK, TablesTyped
  <2> QED
    BY <2>4, <2>5, <2>6, NothingToJustify, StepJustified
<1>6. CASE Rollback(r) \/ Lose(r)
  <2>1. /\ OthersStay(r)
        /\ pc'[r] = "done"
        /\ ReleaseLocks(r)
        /\ UNCHANGED store
    BY <1>6 DEF Rollback, Lose, OthersStay, Goto, local, TypeOK, RequestsTyped
  <2> QED
    BY <2>1, NothingToJustify, SameStore, ReleasedLocks, StepJustified
<1> QED
  BY <1>4, <1>5, <1>6 DEF Finish

LEMMA StartReplyKeeps ==
  ASSUME TypeOK, LockInv, NEW r \in Requests, Start(r) \/ Reply(r)
  PROVE  LockInv'
<1>1. UNCHANGED <<store, locks>> /\ OthersStay(r)
  BY DEF Start, Reply, Goto, OthersStay, local, TypeOK, RequestsTyped
<1>2. CASE Start(r)
  <2>1. PICK w \in Workload : /\ req' = [req EXCEPT ![r] = w]
                              /\ pc' = [pc EXCEPT ![r] = First[w.op]]
    BY <1>2 DEF Start, Goto
  <2>2. w.op \in Operations
    BY WorkloadTyped DEF RequestData
  <2>3. pc'[r] = First[w.op] /\ Op(r)' = w.op
    BY <2>1 DEF Op, TypeOK, RequestsTyped
  <2>4. Justified(r)'
    BY <2>2, <2>3 DEF First, Operations, Justified, PcOfOperation, BookHoldsEvent,
       BookSeesUnconfirmed, BookHoldsBooking, CancelHoldsBooking, CounterPending,
       SeatWritten, DeletionHoldsRow, BookPcs, CancelPcs
  <2> QED
    BY <1>1, <2>4, SameStore, SameLocks, StepJustified
<1>3. CASE Reply(r)
  <2>1. pc'[r] = "idle"
    BY <1>3 DEF Reply, Goto, TypeOK, RequestsTyped
  <2> QED
    BY <1>1, <2>1, NothingToJustify, SameStore, SameLocks, StepJustified
<1> QED
  BY <1>2, <1>3

-----------------------------------------------------------------------------
(* Seats and confirmed bookings. *)

LEMMA ConfirmedFinite ==
  ASSUME NEW e
  PROVE  IsFiniteSet(Confirmed(e)) /\ Cardinality(Confirmed(e)) \in Nat
BY UsersFinite, FS_Subset, FS_CardinalityType DEF Confirmed

LEMMA SameCounters ==
  ASSUME CounterInv, UNCHANGED store PROVE CounterInv'
BY DEF CounterInv, Confirmed, store

(* A commit changes the counter and the confirmed bookings by the same one. *)
LEMMA CommitCounts ==
  ASSUME TypeOK, LockInv, CounterInv, NEW r \in Requests, Commit(r)
  PROVE  CounterInv'
<1> DEFINE e == Event(r)
           u == Owner(r)
<1>0. /\ pc[r] = "commit"
      /\ booking' = [booking EXCEPT ![e][u] =
                       IF Op(r) = "book" THEN "confirmed" ELSE "cancelled"]
      /\ seats' = [seats EXCEPT ![e] = newSeats[r]]
      /\ UNCHANGED <<eventRow, capacity, users>>
  BY DEF Commit
<1>1. e \in Events /\ u \in Users
  BY <1>0, InFlight
<1>2. Justified(r) /\ Op(r) \in {"book", "cancel"}
  BY <1>0 DEF LockInv, Justified, PcOfOperation
<1>3. /\ eventRow[e] = "live"
      /\ Op(r) = "book" => newSeats[r] = seats[e] + 1 /\ seats[e] < capacity[e]
      /\ Op(r) = "cancel" => seats[e] = newSeats[r] + 1
  BY <1>0, <1>2 DEF Justified, CounterPending, SeatWritten
<1>4. /\ Op(r) = "book" => booking[e][u] # "confirmed"
      /\ Op(r) = "cancel" => booking[e][u] = "confirmed"
  BY <1>0, <1>2 DEF Justified, BookHoldsBooking, CancelHoldsBooking
<1> HIDE DEF e, u
<1>5. SUFFICES ASSUME NEW f \in Events, eventRow'[f] = "live"
               PROVE  /\ Cardinality(Confirmed(f)') <= seats'[f]
                      /\ users' = Users => seats'[f] = Cardinality(Confirmed(f)')
                      /\ seats'[f] <= capacity'[f]
  BY DEF CounterInv
<1>6. /\ Cardinality(Confirmed(f)) <= seats[f]
      /\ users = Users => seats[f] = Cardinality(Confirmed(f))
      /\ seats[f] <= capacity[f]
  BY <1>0, <1>5 DEF CounterInv
<1>7. /\ seats[f] \in Nat /\ newSeats[r] \in Nat /\ capacity[f] \in Nat
      /\ Cardinality(Confirmed(f)) \in Nat
  BY ConfirmedFinite, CapacitiesPositive DEF TypeOK, TablesTyped, RequestsTyped
<1>8. CASE f # e
  <2>1. Confirmed(f)' = Confirmed(f) /\ seats'[f] = seats[f]
    BY <1>0, <1>8 DEF Confirmed, TypeOK, TablesTyped
  <2> QED
    BY <1>0, <1>6, <2>1
<1>9. CASE f = e /\ Op(r) = "book"
  <2>1. Confirmed(f)' = Confirmed(f) \cup {u} /\ u \notin Confirmed(f)
    BY <1>0, <1>1, <1>4, <1>9 DEF Confirmed, TypeOK, TablesTyped
  <2>2. Cardinality(Confirmed(f)') = Cardinality(Confirmed(f)) + 1
    BY <2>1, ConfirmedFinite, FS_AddElement
  <2>3. seats'[f] = seats[f] + 1
    BY <1>0, <1>1, <1>3, <1>9 DEF TypeOK, TablesTyped
  <2> QED
    BY <1>0, <1>3, <1>6, <1>7, <1>9, <2>2, <2>3
<1>10. CASE f = e /\ Op(r) = "cancel"
  <2>1. Confirmed(f)' = Confirmed(f) \ {u} /\ u \in Confirmed(f)
    BY <1>0, <1>1, <1>4, <1>10 DEF Confirmed, TypeOK, TablesTyped
  <2>2. Cardinality(Confirmed(f)') = Cardinality(Confirmed(f)) - 1
    BY <2>1, ConfirmedFinite, FS_RemoveElement
  <2>3. seats'[f] = seats[f] - 1
    BY <1>0, <1>1, <1>3, <1>7, <1>10 DEF TypeOK, TablesTyped
  <2> QED
    BY <1>0, <1>6, <1>7, <2>2, <2>3
<1> QED
  BY <1>2, <1>8, <1>9, <1>10

(* A deletion drops bookings and keeps the counters; only the deletion of an
   account drops bookings of an event that stays. *)
LEMMA CascadeCounts ==
  ASSUME TypeOK, LockInv, CounterInv, NEW r \in Requests, CascadeDelete(r)
  PROVE  CounterInv'
<1>1. /\ pc[r] = "cascade"
      /\ eventRow' = [f \in Events |->
                        IF f \in DoomedEvents(r) THEN "gone" ELSE eventRow[f]]
      /\ booking' = [f \in Events |-> [u \in Users |->
                        IF u \in DoomedUsers(r, f) THEN "none" ELSE booking[f][u]]]
      /\ users' = IF Op(r) = "delete_account" THEN users \ {Actor(r)} ELSE users
      /\ UNCHANGED <<capacity, seats>>
  BY DEF CascadeDelete
<1>2. Actor(r) \in Users
  BY <1>1, InFlight
<1>3. SUFFICES ASSUME NEW f \in Events, eventRow'[f] = "live"
               PROVE  /\ Cardinality(Confirmed(f)') <= seats'[f]
                      /\ users' = Users => seats'[f] = Cardinality(Confirmed(f)')
                      /\ seats'[f] <= capacity'[f]
  BY DEF CounterInv
<1>4. f \notin DoomedEvents(r) /\ eventRow[f] = "live"
  BY <1>1, <1>3
<1>5. /\ Cardinality(Confirmed(f)) <= seats[f]
      /\ users = Users => seats[f] = Cardinality(Confirmed(f))
      /\ seats[f] <= capacity[f]
  BY <1>4 DEF CounterInv
<1>6. Confirmed(f)' \subseteq Confirmed(f)
  BY <1>1 DEF Confirmed
<1>7. Cardinality(Confirmed(f)') \in Nat /\ Cardinality(Confirmed(f)') <= Cardinality(Confirmed(f))
  <2>1. IsFiniteSet(Confirmed(f))
    BY ConfirmedFinite
  <2> QED
    BY <1>6, <2>1, FS_Subset, FS_CardinalityType
<1>8. users' = Users => users = Users /\ Confirmed(f)' = Confirmed(f)
  <2> SUFFICES ASSUME users' = Users PROVE users = Users /\ Confirmed(f)' = Confirmed(f)
    OBVIOUS
  <2>1. Op(r) # "delete_account" /\ users = Users
    BY <1>1, <1>2
  <2>2. DoomedUsers(r, f) = {}
    BY <1>4, <2>1 DEF DoomedUsers
  <2> QED
    BY <1>1, <2>1, <2>2 DEF Confirmed, TypeOK, TablesTyped
<1>9. /\ seats[f] \in Nat /\ capacity[f] \in Nat /\ Cardinality(Confirmed(f)) \in Nat
  BY ConfirmedFinite, CapacitiesPositive DEF TypeOK, TablesTyped
<1> QED
  BY <1>1, <1>5, <1>7, <1>8, <1>9

(* The statements that change the committed tables. *)
LEMMA StoreSteps ==
  ASSUME NEW r \in Requests, Start(r) \/ Proceed(r) \/ AuditLost(r) \/ Lose(r) \/ Reply(r)
  PROVE  \/ UNCHANGED store
         \/ Commit(r) \/ CascadeDelete(r) \/ CreateEvent(r) \/ UpdateEvent(r)
<1>1. Book(r) \/ Cancel(r) => UNCHANGED store
  <2>1. Book(r) => UNCHANGED store
    BY DEF Book, BookLockEvent, BookLook, BookReactivate, BookInsert, BookSeat,
       Throw, DatabaseError
  <2>3. CancelLockBooking(r) => UNCHANGED store
    BY DEF CancelLockBooking, Throw
  <2> QED
    BY <2>1, <2>3 DEF Cancel, CancelWrite, CancelSeat
<1>2. Manage(r) => UNCHANGED store \/ CreateEvent(r) \/ UpdateEvent(r)
  BY DEF Manage, UpdateFind, RemoveFind, ManageFind, RemoveLockEvent, Throw
<1>3. Erase(r) => UNCHANGED store \/ CascadeDelete(r)
  BY DEF Erase, EraseLockUser, CascadeLock
<1>4. Finish(r) \/ AuditLost(r) \/ Lose(r) => UNCHANGED store \/ Commit(r)
  BY DEF Finish, AuditInsert, AuditLost, FinishAudit, Rollback, Lose
<1>5. Start(r) \/ Reply(r) \/ DeadlockAbort(r) => UNCHANGED store
  BY DEF Start, Reply, DeadlockAbort, DatabaseError, Throw
<1> QED
  BY <1>1, <1>2, <1>3, <1>4, <1>5 DEF Proceed

LEMMA StepCounts ==
  ASSUME TypeOK, LockInv, CounterInv, NEW r \in Requests,
         Start(r) \/ Proceed(r) \/ AuditLost(r) \/ Lose(r) \/ Reply(r)
  PROVE  CounterInv'
<1>1. CASE UNCHANGED store
  BY <1>1, SameCounters
<1>2. CASE Commit(r)
  BY <1>2, CommitCounts
<1>3. CASE CascadeDelete(r)
  BY <1>3, CascadeCounts
<1>4. CASE CreateEvent(r)
  <2> DEFINE e == Event(r)
  <2>0. e \in Events
    BY <1>4, InFlight DEF CreateEvent
  <2>1. CASE UNCHANGED store
    BY <2>1, SameCounters
  <2>2. CASE ~UNCHANGED store
    <3>1. /\ eventRow[e] = "fresh"
          /\ eventRow' = [eventRow EXCEPT ![e] = "live"]
          /\ \E c \in Capacities : capacity' = [capacity EXCEPT ![e] = c]
          /\ seats' = [seats EXCEPT ![e] = 0]
          /\ UNCHANGED <<booking, users>>
      BY <1>4, <2>2 DEF CreateEvent, DatabaseError, Throw
    <3> HIDE DEF e
    <3>2. Confirmed(e) = {}
      BY <2>0, <3>1 DEF Confirmed, LockInv, BookingsHaveParents
    <3>3. \A f \in Events : Confirmed(f)' = Confirmed(f)
      BY <3>1 DEF Confirmed
    <3>4. \A f \in Events \ {e} : /\ eventRow'[f] = eventRow[f]
                                  /\ seats'[f] = seats[f]
                                  /\ capacity'[f] = capacity[f]
      BY <3>1 DEF TypeOK, TablesTyped
    <3>5. seats'[e] = 0 /\ 0 <= capacity'[e] /\ Cardinality(Confirmed(e)) = 0
      BY <2>0, <3>1, <3>2, CapacitiesPositive, FS_EmptySet DEF TypeOK, TablesTyped
    <3> QED
      BY <3>1, <3>3, <3>4, <3>5 DEF CounterInv
  <2> QED
    BY <2>1, <2>2
<1>5. CASE UpdateEvent(r)
  <2> DEFINE e == Event(r)
  <2>0. e \in Events
    BY <1>5, InFlight DEF UpdateEvent
  <2>1. CASE UNCHANGED store
    BY <2>1, SameCounters
  <2>2. CASE ~UNCHANGED store
    <3>1. PICK c \in Capacities : /\ ~(c < seats[e])
                                  /\ capacity' = [capacity EXCEPT ![e] = c]
                                  /\ UNCHANGED <<eventRow, seats, booking, users>>
      BY <1>5, <2>2 DEF UpdateEvent, DatabaseError, Throw
    <3> HIDE DEF e
    <3>2. seats[e] <= c
      BY <2>0, <3>1, CapacitiesPositive DEF TypeOK, TablesTyped
    <3> QED
      BY <3>1, <3>2 DEF CounterInv, Confirmed, TypeOK, TablesTyped
  <2> QED
    BY <2>1, <2>2
<1> QED
  BY <1>1, <1>2, <1>3, <1>4, <1>5, StoreSteps

-----------------------------------------------------------------------------
(* The invariant. *)

SafeInv == TypeOK /\ LockInv /\ CounterInv

LEMMA InitSafe == Init => SafeInv
<1> SUFFICES ASSUME Init PROVE SafeInv
  OBVIOUS
<1>1. TypeOK
  BY InitTyped
<1>2. LockInv
  BY DEF Init, LockInv, BookingsHaveParents, Justified, PcOfOperation, BookHoldsEvent,
     BookSeesUnconfirmed, BookHoldsBooking, CancelHoldsBooking, CounterPending, SeatWritten,
     DeletionHoldsRow, BookPcs, CancelPcs
<1>3. CounterInv
  <2> SUFFICES ASSUME NEW e \in Events
               PROVE  Cardinality(Confirmed(e)) = 0 /\ seats[e] = 0 /\ 0 <= capacity[e]
    BY DEF CounterInv
  <2>1. Confirmed(e) = {}
    BY DEF Init, Confirmed
  <2>2. capacity[e] \in Nat
    BY CapacitiesPositive DEF Init
  <2> QED
    BY <2>1, <2>2, FS_EmptySet DEF Init
<1> QED
  BY <1>1, <1>2, <1>3 DEF SafeInv

LEMMA NextSafe == SafeInv /\ [Next]_vars => SafeInv'
<1> SUFFICES ASSUME SafeInv, [Next]_vars PROVE SafeInv'
  OBVIOUS
<1> USE DEF SafeInv
<1>1. TypeOK'
  BY NextTyped
<1>2. ASSUME NEW r \in Requests,
             Start(r) \/ Proceed(r) \/ AuditLost(r) \/ Lose(r) \/ Reply(r)
      PROVE  LockInv' /\ CounterInv'
  <2>1. DeadlockAbort(r) => LockInv'
    BY AbortedInFlight, ErrorKeeps DEF DeadlockAbort
  <2>2. LockInv'
    BY <1>2, <2>1, BookKeeps, CancelKeeps, ManageKeeps, EraseKeeps, FinishKeeps,
       StartReplyKeeps DEF Proceed
  <2> QED
    BY <1>2, <2>2, StepCounts
<1>3. CASE Next
  BY <1>1, <1>2, <1>3 DEF Next
<1>4. CASE UNCHANGED vars
  <2>1. UNCHANGED store /\ UNCHANGED locks /\ UNCHANGED <<pc, req, local>>
    BY <1>4 DEF vars
  <2>2. CounterInv'
    BY <2>1, SameCounters
  <2>3. LockInv'
    BY <2>1 DEF store, locks, local, LockInv, BookingsHaveParents, Justified, PcOfOperation,
       BookHoldsEvent, BookSeesUnconfirmed, BookHoldsBooking, CancelHoldsBooking,
       CounterPending, SeatWritten, DeletionHoldsRow, Op, Event, Owner, Actor
  <2> QED
    BY <1>1, <2>2, <2>3
<1> QED
  BY <1>3, <1>4

LEMMA AlwaysSafe == Spec => []SafeInv
BY InitSafe, NextSafe, PTL DEF Spec

(* bookingService.js:14-17: two requests cannot take the last seat, whatever
   else runs: confirmed bookings <= seats_taken <= capacity. *)
THEOREM BookingsFitCapacity == Spec => []NeverOversold
<1>1. SafeInv => NeverOversold
  BY DEF SafeInv, CounterInv, NeverOversold
<1> QED
  BY <1>1, AlwaysSafe, PTL

(* Until an account is deleted the counter is exact: no interleaving, failure
   or lost connection of book and cancel leaks a seat or frees one twice. *)
THEOREM CounterIsExact == Spec => []SeatsCountBookings
<1>1. SafeInv => SeatsCountBookings
  BY DEF SafeInv, CounterInv, SeatsCountBookings
<1> QED
  BY <1>1, AlwaysSafe, PTL

(* The free seat that book checked under FOR UPDATE is there when it writes. *)
THEOREM CheckedSeatStays == Spec => []SeatStillFree
<1>1. SafeInv => SeatStillFree
  BY DEF SafeInv, LockInv, Justified, BookHoldsEvent, SeatStillFree
<1> QED
  BY <1>1, AlwaysSafe, PTL
-----------------------------------------------------------------------------
(* The audit row. *)

(* PostgreSQL breaks no circle at an audit row, a COMMIT or a ROLLBACK. *)
LEMMA AbortedMidway ==
  ASSUME NEW r \in Requests, DeadlockAbort(r)
  PROVE  pc[r] \notin {"idle", "audit", "commit", "rollback", "done"}
<1>1. PICK S \in SUBSET Requests : r \in S /\ Knot(S)
  BY DEF DeadlockAbort
<1>2. BlockedBy(r) # {}
  BY <1>1 DEF Knot
<1>3. ASSUME pc[r] \in {"idle", "audit", "commit", "rollback", "done"} PROVE BlockedBy(r) = {}
  <2>1. /\ pc[r] \notin {"book_lock", "book_seat", "cancel_seat", "update_write", "remove_lock"}
        /\ pc[r] \notin {"book_write", "cancel_lock", "create_write", "erase_lock", "cascade"}
    BY <1>3
  <2> QED
    BY <2>1, Zenon DEF BlockedBy
<1> QED
  BY <1>2, <1>3

(* A step of r leaves the other requests and their audit rows alone. *)
LEMMA AuditOfOthers ==
  ASSUME TypeOK, NEW r \in Requests,
         Start(r) \/ Proceed(r) \/ AuditLost(r) \/ Lose(r) \/ Reply(r),
         NEW q \in Requests \ {r}
  PROVE  /\ pc'[q] = pc[q] /\ req'[q] = req[q] /\ seen'[q] = seen[q]
         /\ audited'[q] = audited[q] /\ result'[q] = result[q]
<1> USE DEF TypeOK, RequestsTyped, Goto, Throw, DatabaseError, local
<1>1. CASE Start(r) \/ Reply(r) \/ Lose(r)
  BY <1>1 DEF Start, Reply, Lose
<1>2. CASE Book(r)
  BY <1>2 DEF Book, BookLockEvent, BookLook, BookReactivate, BookInsert, BookSeat
<1>3. CASE Cancel(r)
  BY <1>3 DEF Cancel, CancelLockBooking, CancelWrite, CancelSeat
<1>4. CASE Manage(r)
  BY <1>4 DEF Manage, CreateEvent, UpdateFind, UpdateEvent, RemoveFind, ManageFind, RemoveLockEvent
<1>5. CASE Erase(r)
  BY <1>5 DEF Erase, EraseLockUser, CascadeLock, CascadeDelete
<1>6. CASE Finish(r) \/ AuditLost(r)
  BY <1>6 DEF Finish, AuditInsert, AuditLost, FinishAudit, Commit, Rollback
<1>7. CASE DeadlockAbort(r)
  BY <1>7 DEF DeadlockAbort
<1> QED
  BY <1>1, <1>2, <1>3, <1>4, <1>5, <1>6, <1>7 DEF Proceed

(* AuditLast, one request at a time *)
AuditLastOf(r) ==
  audited[r] =>
    /\ pc[r] # "idle"
    /\ Op(r) \in {"book", "cancel"} =>
         pc[r] = "commit" \/ (pc[r] = "done" /\ result[r] \in {"ok", "lost"})

(* Its own it writes after its last statement but COMMIT. *)
LEMMA AuditOfOwn ==
  ASSUME TypeOK, LockInv, NEW r \in Requests, AuditLastOf(r),
         Start(r) \/ Proceed(r) \/ AuditLost(r) \/ Lose(r) \/ Reply(r)
  PROVE  AuditLastOf(r)'
<1> USE DEF TypeOK, RequestsTyped, Goto, Throw, DatabaseError, local, AuditLastOf, Op
<1>0. PcOfOperation(r)
  BY DEF LockInv, Justified
<1>1. CASE Start(r) \/ Reply(r) \/ Lose(r)
  BY <1>1 DEF Start, Reply, Lose
<1>2. CASE Book(r)
  BY <1>0, <1>2 DEF Book, BookLockEvent, BookLook, BookReactivate, BookInsert, BookSeat, PcOfOperation, BookPcs
<1>3. CASE Cancel(r)
  BY <1>0, <1>3 DEF Cancel, CancelLockBooking, CancelWrite, CancelSeat, PcOfOperation, CancelPcs
<1>4. CASE Manage(r)
  BY <1>0, <1>4 DEF Manage, CreateEvent, UpdateFind, UpdateEvent, RemoveFind, ManageFind, RemoveLockEvent, PcOfOperation
<1>5. CASE Erase(r)
  BY <1>0, <1>5 DEF Erase, EraseLockUser, CascadeLock, CascadeDelete, PcOfOperation
<1>6. CASE AuditInsert(r) \/ AuditLost(r)
  <2>1. Op(r) \in Operations
    BY <1>6, InFlight DEF AuditInsert, AuditLost
  <2>2. /\ AfterAudit[Op(r)] # "idle"
        /\ Op(r) \in {"book", "cancel"} => AfterAudit[Op(r)] = "commit"
    BY <2>1 DEF AfterAudit, Operations
  <2> QED
    BY <1>6, <2>2 DEF AuditInsert, AuditLost, FinishAudit
<1>7. CASE Commit(r) \/ Rollback(r)
  BY <1>7, <1>0 DEF Commit, Rollback, PcOfOperation
<1>8. CASE DeadlockAbort(r)
  BY <1>8, AbortedMidway DEF DeadlockAbort
<1> QED
  BY <1>1, <1>2, <1>3, <1>4, <1>5, <1>6, <1>7, <1>8 DEF Proceed, Finish

LEMMA AlwaysAuditLast == Spec => []AuditLast
<1>1. Init => AuditLast
  BY DEF Init, AuditLast
<1>2. SafeInv /\ AuditLast /\ [Next]_vars => AuditLast'
  <2> SUFFICES ASSUME SafeInv, AuditLast, [Next]_vars, NEW q \in Requests
               PROVE  AuditLastOf(q)'
    BY DEF AuditLast, AuditLastOf
  <2>0. AuditLastOf(q)
    BY DEF AuditLast, AuditLastOf
  <2>1. ASSUME NEW r \in Requests,
               Start(r) \/ Proceed(r) \/ AuditLost(r) \/ Lose(r) \/ Reply(r)
        PROVE  AuditLastOf(q)'
    <3>1. CASE q = r
      BY <2>0, <2>1, <3>1, AuditOfOwn DEF SafeInv
    <3>2. CASE q # r
      <4>1. pc'[q] = pc[q] /\ req'[q] = req[q] /\ audited'[q] = audited[q] /\ result'[q] = result[q]
        BY <2>1, <3>2, AuditOfOthers DEF SafeInv
      <4> QED
        BY <2>0, <4>1 DEF AuditLastOf, Op
    <3> QED
      BY <3>1, <3>2
  <2>2. CASE UNCHANGED vars
    BY <2>0, <2>2 DEF vars, local, AuditLastOf, Op
  <2> QED
    BY <2>1, <2>2 DEF Next
<1> QED
  BY <1>1, <1>2, AlwaysSafe, PTL DEF Spec

(* An audit row that says a seat was booked or a booking cancelled is true:
   only a lost connection can still undo it (bookingService.js:49, :83). *)
THEOREM AuditTellsTheTruth == Spec => []AuditHonest
<1>1. AuditLast => AuditHonest
  BY DEF AuditLast, AuditHonest
<1> QED
  BY <1>1, AlwaysAuditLast, PTL

(* What every statement of a request relies on, because of the row locks the
   request holds, is so when the statement runs. *)
THEOREM LocksJustifyStatements == Spec => []LockInv
<1>1. SafeInv => LockInv
  BY DEF SafeInv
<1> QED
  BY <1>1, AlwaysSafe, PTL

-----------------------------------------------------------------------------
(* Booking implements SeatLedger: of everything the requests do only COMMIT and
   the statements of organisers and deletions show in the committed tables, and
   each of them is one step of the ledger. *)

ConfirmedBy == [e \in Events |-> Confirmed(e)]

(* An event that is not there yet has sold no seat. *)
FreshUnsold == \A e \in Events : eventRow[e] = "fresh" => seats[e] = 0

LEMMA ConfirmedUnchanged ==
  ASSUME UNCHANGED booking PROVE ConfirmedBy' = ConfirmedBy
BY DEF ConfirmedBy, Confirmed

(* COMMIT of book takes a seat, COMMIT of cancel gives one back. *)
LEMMA CommitRefines ==
  ASSUME TypeOK, LockInv, CounterInv, NEW r \in Requests, Commit(r)
  PROVE  Ledger!Next
<1> DEFINE e == Event(r)
           u == Owner(r)
<1>0. /\ pc[r] = "commit"
      /\ booking' = [booking EXCEPT ![e][u] =
                       IF Op(r) = "book" THEN "confirmed" ELSE "cancelled"]
      /\ seats' = [seats EXCEPT ![e] = newSeats[r]]
      /\ UNCHANGED <<eventRow, capacity, users>>
  BY DEF Commit
<1>1. e \in Events /\ u \in Users
  BY <1>0, InFlight
<1>2. Justified(r) /\ Op(r) \in {"book", "cancel"}
  BY <1>0 DEF LockInv, Justified, PcOfOperation
<1>3. /\ eventRow[e] = "live"
      /\ Op(r) = "book" => newSeats[r] = seats[e] + 1 /\ seats[e] < capacity[e]
      /\ Op(r) = "cancel" => seats[e] = newSeats[r] + 1
  BY <1>0, <1>2 DEF Justified, CounterPending, SeatWritten
<1>4. /\ Op(r) = "book" => booking[e][u] # "confirmed" /\ u \in users
      /\ Op(r) = "cancel" => booking[e][u] = "confirmed"
  BY <1>0, <1>1, <1>2 DEF Justified, BookHoldsBooking, CancelHoldsBooking, LockInv,
     BookingsHaveParents
<1>5. seats[e] \in Nat /\ newSeats[r] \in Nat
  BY <1>1 DEF TypeOK, TablesTyped, RequestsTyped
<1> HIDE DEF e, u
<1>6. CASE Op(r) = "book"
  <2>1. ConfirmedBy' = [ConfirmedBy EXCEPT ![e] = @ \cup {u}]
    BY <1>0, <1>1, <1>6 DEF ConfirmedBy, Confirmed, TypeOK, TablesTyped
  <2>2. seats' = [seats EXCEPT ![e] = @ + 1]
    BY <1>0, <1>3, <1>6
  <2>3. u \notin ConfirmedBy[e]
    BY <1>1, <1>4, <1>6 DEF ConfirmedBy, Confirmed
  <2>4. Ledger!Confirm(e, u)
    BY <1>0, <1>3, <1>4, <1>6, <2>1, <2>2, <2>3 DEF Ledger!Confirm, ConfirmedBy
  <2> QED
    BY <1>1, <2>4 DEF Ledger!Next
<1>7. CASE Op(r) = "cancel"
  <2>1. ConfirmedBy' = [ConfirmedBy EXCEPT ![e] = @ \ {u}]
    BY <1>0, <1>1, <1>7 DEF ConfirmedBy, Confirmed, TypeOK, TablesTyped
  <2>2. seats' = [seats EXCEPT ![e] = @ - 1] /\ seats[e] > 0
    <3>1. newSeats[r] = seats[e] - 1 /\ seats[e] > 0
      BY <1>3, <1>5, <1>7
    <3> QED
      BY <1>0, <3>1
  <2>3. u \in ConfirmedBy[e]
    BY <1>1, <1>4, <1>7 DEF ConfirmedBy, Confirmed
  <2>4. Ledger!GiveBack(e, u)
    BY <1>0, <1>3, <2>1, <2>2, <2>3 DEF Ledger!GiveBack, ConfirmedBy
  <2> QED
    BY <1>1, <2>4 DEF Ledger!Next
<1> QED
  BY <1>2, <1>6, <1>7

(* INSERT and UPDATE of an event are steps by themselves. *)
LEMMA CreateRefines ==
  ASSUME TypeOK, LockInv, FreshUnsold, NEW r \in Requests, CreateEvent(r)
  PROVE  Ledger!Next \/ UNCHANGED store
<1> DEFINE e == Event(r)
<1>1. e \in Events /\ pc[r] # "idle"
  BY InFlight DEF CreateEvent
<1>2. CASE Actor(r) \notin users
  BY <1>2 DEF CreateEvent, DatabaseError, Throw
<1>3. CASE Actor(r) \in users
  <2>1. PICK c \in Capacities : /\ eventRow[e] = "fresh"
                                /\ eventRow' = [eventRow EXCEPT ![e] = "live"]
                                /\ capacity' = [capacity EXCEPT ![e] = c]
                                /\ seats' = [seats EXCEPT ![e] = 0]
                                /\ UNCHANGED <<booking, users>>
    BY <1>3 DEF CreateEvent
  <2>2. seats' = seats
    BY <1>1, <2>1 DEF FreshUnsold, TypeOK, TablesTyped
  <2>3. Organizer[e] \in users
    <3>1. Op(r) = "create_event"
      BY DEF CreateEvent, LockInv, Justified, PcOfOperation
    <3> QED
      BY <1>1, <1>3, <3>1, InFlight
  <2>4. Ledger!Open(e, c)
    BY <2>1, <2>2, <2>3, ConfirmedUnchanged DEF Ledger!Open, ConfirmedBy
  <2> QED
    BY <1>1, <2>4 DEF Ledger!Next
<1> QED
  BY <1>2, <1>3

LEMMA UpdateRefines ==
  ASSUME TypeOK, NEW r \in Requests, UpdateEvent(r)
  PROVE  Ledger!Next \/ UNCHANGED store
<1> DEFINE e == Event(r)
<1>1. e \in Events
  BY InFlight DEF UpdateEvent
<1>2. CASE UNCHANGED store
  BY <1>2
<1>3. CASE ~UNCHANGED store
  <2>1. PICK c \in Capacities : /\ eventRow[e] = "live"
                                /\ ~(c < seats[e])
                                /\ capacity' = [capacity EXCEPT ![e] = c]
                                /\ UNCHANGED <<eventRow, seats, booking, users>>
    BY <1>3 DEF UpdateEvent, DatabaseError, Throw
  <2>2. seats[e] <= c
    BY <1>1, <2>1, CapacitiesPositive DEF TypeOK, TablesTyped
  <2>3. Ledger!Resize(e, c)
    BY <2>1, <2>2, ConfirmedUnchanged DEF Ledger!Resize, ConfirmedBy
  <2> QED
    BY <1>1, <2>3 DEF Ledger!Next
<1> QED
  BY <1>2, <1>3

(* A deletion takes with it what ON DELETE CASCADE leads to, in one step. *)
LEMMA DeletionRefines ==
  ASSUME TypeOK, LockInv, NEW r \in Requests, CascadeDelete(r)
  PROVE  Ledger!Next
<1> DEFINE e == Event(r)
           u == Actor(r)
<1>0. /\ pc[r] = "cascade"
      /\ eventRow' = [f \in Events |->
                        IF f \in DoomedEvents(r) THEN "gone" ELSE eventRow[f]]
      /\ booking' = [f \in Events |-> [v \in Users |->
                        IF v \in DoomedUsers(r, f) THEN "none" ELSE booking[f][v]]]
      /\ users' = IF Op(r) = "delete_account" THEN users \ {u} ELSE users
      /\ UNCHANGED <<capacity, seats>>
  BY DEF CascadeDelete
<1>1. e \in Events /\ u \in Users
  BY <1>0, InFlight
<1>2. /\ Op(r) \in {"remove_event", "delete_account"}
      /\ Op(r) = "remove_event" => eventRow[e] = "live"
      /\ Op(r) = "delete_account" => u \in users
  BY <1>0 DEF LockInv, Justified, PcOfOperation, DeletionHoldsRow
<1>3. ConfirmedBy' = [f \in Events |-> Confirmed(f) \ DoomedUsers(r, f)]
  BY <1>0 DEF ConfirmedBy, Confirmed
<1>4. eventRow \in [Events -> {"fresh", "live", "gone"}]
  BY DEF TypeOK, TablesTyped
<1>5. CASE Op(r) = "remove_event"
  <2>1. DoomedEvents(r) = {e}
    BY <1>1, <1>2, <1>5 DEF DoomedEvents
  <2>2. eventRow' = [eventRow EXCEPT ![e] = "gone"]
    BY <1>0, <1>4, <2>1
  <2>3. \A f \in Events : Confirmed(f) \ DoomedUsers(r, f) = IF f = e THEN {} ELSE Confirmed(f)
    BY <1>5, <2>1 DEF DoomedUsers, Confirmed
  <2>4. ConfirmedBy' = [ConfirmedBy EXCEPT ![e] = {}]
    BY <1>1, <1>3, <2>3 DEF ConfirmedBy
  <2>5. Ledger!Withdraw(e)
    BY <1>0, <1>2, <1>5, <2>2, <2>4 DEF Ledger!Withdraw, ConfirmedBy
  <2> QED
    BY <1>1, <2>5 DEF Ledger!Next
<1>6. CASE Op(r) = "delete_account"
  <2> DEFINE withdrawn == {f \in Events : eventRow[f] = "live" /\ Organizer[f] = u}
  <2>1. DoomedEvents(r) = withdrawn
    BY <1>6 DEF DoomedEvents
  <2>2. \A f \in Events : Confirmed(f) \ DoomedUsers(r, f)
                            = IF f \in withdrawn THEN {} ELSE Confirmed(f) \ {u}
    BY <1>6, <2>1 DEF DoomedUsers, Confirmed
  <2>3. ConfirmedBy' = [f \in Events |->
                          IF f \in withdrawn THEN {} ELSE ConfirmedBy[f] \ {u}]
    BY <1>3, <2>2 DEF ConfirmedBy
  <2>4. eventRow' = [f \in Events |-> IF f \in withdrawn THEN "gone" ELSE eventRow[f]]
    BY <1>0, <2>1
  <2>5. Ledger!Leave(u)
    BY <1>0, <1>2, <1>6, <2>3, <2>4 DEF Ledger!Leave, ConfirmedBy
  <2> QED
    BY <1>1, <2>5 DEF Ledger!Next
<1> QED
  BY <1>2, <1>5, <1>6

LEMMA StaysUnsold ==
  ASSUME TypeOK, LockInv, FreshUnsold, NEW r \in Requests,
         Start(r) \/ Proceed(r) \/ AuditLost(r) \/ Lose(r) \/ Reply(r)
  PROVE  FreshUnsold'
<1>1. CASE UNCHANGED store
  BY <1>1 DEF FreshUnsold, store
<1>2. CASE Commit(r)
  <2>1. Op(r) \in {"book", "cancel"} /\ Event(r) \in Events
    BY <1>2, InFlight DEF Commit, LockInv, Justified, PcOfOperation
  <2>2. eventRow[Event(r)] = "live"
    BY <1>2, <2>1 DEF Commit, LockInv, Justified, CounterPending, SeatWritten
  <2> QED
    BY <1>2, <2>1, <2>2 DEF Commit, FreshUnsold, TypeOK, TablesTyped
<1>3. CASE CascadeDelete(r)
  BY <1>3 DEF CascadeDelete, FreshUnsold
<1>4. CASE CreateEvent(r)
  <2>1. CASE ~UNCHANGED store
    BY <1>4, <2>1 DEF CreateEvent, DatabaseError, Throw, FreshUnsold, TypeOK, TablesTyped
  <2> QED
    BY <1>1, <2>1
<1>5. CASE UpdateEvent(r)
  <2>1. CASE ~UNCHANGED store
    BY <1>5, <2>1 DEF UpdateEvent, DatabaseError, Throw, FreshUnsold
  <2> QED
    BY <1>1, <2>1
<1> QED
  BY <1>1, <1>2, <1>3, <1>4, <1>5, StoreSteps

RefinesInv == SafeInv /\ FreshUnsold

(* Whatever requests interleave, fail or are lost, the committed tables go through a
   behaviour of the ledger: a seat and its booking change together and alone
   (bookingService.js:9-19). *)
THEOREM TablesAreALedger == Spec => LedgerSpec
<1>1. Init => RefinesInv
  BY InitSafe DEF RefinesInv, FreshUnsold, Init
<1>2. RefinesInv /\ [Next]_vars => RefinesInv'
  <2>1. ASSUME SafeInv, FreshUnsold, [Next]_vars PROVE FreshUnsold'
    <3>1. CASE Next
      BY <2>1, <3>1, StaysUnsold DEF SafeInv, Next
    <3>2. CASE UNCHANGED vars
      BY <2>1, <3>2 DEF vars, store, FreshUnsold
    <3> QED
      BY <2>1, <3>1, <3>2
  <2> QED
    BY <2>1, NextSafe DEF RefinesInv
<1>3. Init => Ledger!Init
  <2> SUFFICES ASSUME Init PROVE Ledger!Init
    OBVIOUS
  <2>1. ConfirmedBy = [e \in Events |-> {}]
    BY DEF Init, ConfirmedBy, Confirmed
  <2>2. eventRow \in [Events -> {"fresh", "live"}]
    BY DEF Init
  <2> QED
    BY <2>1, <2>2 DEF Init, Ledger!Init, ConfirmedBy
<1>4. RefinesInv /\ [Next]_vars => [Ledger!Next]_(Ledger!ledger)
  <2> SUFFICES ASSUME SafeInv, FreshUnsold, [Next]_vars
               PROVE  Ledger!Next \/ UNCHANGED Ledger!ledger
    BY DEF RefinesInv
  <2>0. TypeOK /\ LockInv /\ CounterInv
    BY DEF SafeInv
  <2>1. UNCHANGED store => UNCHANGED Ledger!ledger
    BY ConfirmedUnchanged DEF store, Ledger!ledger, ConfirmedBy
  <2>2. ASSUME NEW r \in Requests,
               Start(r) \/ Proceed(r) \/ AuditLost(r) \/ Lose(r) \/ Reply(r)
        PROVE  Ledger!Next \/ UNCHANGED store
    BY <2>0, <2>2, StoreSteps, CommitRefines, CreateRefines, UpdateRefines, DeletionRefines
  <2>3. UNCHANGED vars => UNCHANGED store
    BY DEF vars
  <2> QED
    BY <2>1, <2>2, <2>3 DEF Next
<1> QED
  BY <1>1, <1>2, <1>3, <1>4, PTL DEF Spec, LedgerSpec, Ledger!Spec

-----------------------------------------------------------------------------
(* Who holds which lock, and why booking and cancelling alone never deadlock although they
   lock in opposite orders. *)

(* The other requests hold what they held, at the statement they were at. *)
LEMMA OthersHold ==
  ASSUME TypeOK, LockHolders, NEW r \in Requests, OthersStay(r), OthersKeepLocks(r),
         NEW q \in Requests \ {r}
  PROVE  HoldsOnly(q)'
<1>1. /\ pc'[q] = pc[q]
      /\ Op(q)' = Op(q) /\ Event(q)' = Event(q) /\ Owner(q)' = Owner(q)
  BY DEF OthersStay, Op, Event, Owner
<1>2. HoldsOnly(q) /\ q # Nobody
  BY NobodyNotRequest DEF LockHolders
<1>3. /\ \A e \in Events : eventLock'[e] = q => eventLock[e] = q
      /\ \A e \in Events, u \in Users : bookingLock'[e][u] = q => bookingLock[e][u] = q
      /\ \A u \in Users : userLock'[u] = q => userLock[u] = q
      /\ \A u \in Users : q \in userShare'[u] => q \in userShare[u]
  BY <1>2 DEF OthersKeepLocks
<1> QED
  BY <1>1, <1>2, <1>3 DEF HoldsOnly, InTransaction

LEMMA StepHolds ==
  ASSUME TypeOK, LockHolders, NEW r \in Requests, OthersStay(r), OthersKeepLocks(r),
         HoldsOnly(r)'
  PROVE  LockHolders'
BY OthersHold DEF LockHolders

(* After COMMIT, ROLLBACK or an abort a request holds nothing. *)
LEMMA NothingHeld ==
  ASSUME TypeOK, NEW r \in Requests, ReleaseLocks(r)
  PROVE  HoldsOnly(r)'
<1>1. r # Nobody
  BY NobodyNotRequest
<1> QED
  BY <1>1 DEF ReleaseLocks, HoldsOnly, TypeOK, LocksTyped

(* A step that takes no lock. *)
LEMMA SameHeld ==
  ASSUME TypeOK, NEW r \in Requests, HoldsOnly(r), UNCHANGED <<locks, req>>,
         \/ /\ pc[r] \in {"book_look", "book_write"}
            /\ pc'[r] \in {"book_write", "rollback"}
         \/ /\ pc[r] = "cancel_write"
            /\ pc'[r] = "cancel_seat"
         \/ /\ pc[r] = "audit" /\ Op(r) \in {"book", "cancel"}
            /\ pc'[r] = "commit"
         \/ Op(r) \notin {"book", "cancel"} /\ pc[r] \notin {"idle", "cascade"}
         \/ pc[r] \in {"book_lock", "cancel_lock"}
  PROVE  HoldsOnly(r)'
<1>1. /\ Op(r)' = Op(r) /\ Event(r)' = Event(r) /\ Owner(r)' = Owner(r)
  BY DEF Op, Event, Owner
<1> QED
  BY <1>1 DEF HoldsOnly, InTransaction, locks

LEMMA ThrowHolds ==
  ASSUME TypeOK, LockHolders, NEW r \in Requests, NEW why, Throw(r, why), UNCHANGED locks,
         \/ pc[r] \in {"book_lock", "book_look", "book_write", "cancel_lock"}
         \/ Op(r) \notin {"book", "cancel"} /\ pc[r] \notin {"idle", "cascade"},
         PcOfOperation(r)
  PROVE  LockHolders'
<1>1. OthersStay(r) /\ OthersKeepLocks(r)
  BY SameLocks DEF Throw, Goto, OthersStay, TypeOK, RequestsTyped
<1>2. UNCHANGED req /\ pc'[r] = IF Op(r) \in {"book", "cancel"} THEN "rollback" ELSE "done"
  BY DEF Throw, Goto, Transactional, TypeOK, RequestsTyped
<1>3. HoldsOnly(r)'
  BY <1>2, SameHeld DEF LockHolders, PcOfOperation, BookPcs, CancelPcs
<1> QED
  BY <1>1, <1>3, StepHolds

LEMMA ErrorHolds ==
  ASSUME TypeOK, LockHolders, NEW r \in Requests, DatabaseError(r)
  PROVE  LockHolders'
<1>1. OthersStay(r) /\ OthersKeepLocks(r)
  BY ReleasedLocks DEF DatabaseError, Throw, Goto, OthersStay, TypeOK, RequestsTyped
<1> QED
  BY <1>1, NothingHeld, StepHolds DEF DatabaseError

LEMMA BookHolds ==
  ASSUME TypeOK, LockInv, LockHolders, NEW r \in Requests, Book(r)
  PROVE  LockHolders'
<1> DEFINE e == Event(r)
           u == Owner(r)
<1>0. pc[r] \in BookPcs
  BY DEF Book, BookLockEvent, BookLook, BookReactivate, BookInsert, BookSeat, BookPcs
<1>1. PcOfOperation(r) /\ Op(r) = "book" /\ HoldsOnly(r)
  BY <1>0 DEF LockInv, Justified, PcOfOperation, LockHolders
<1>2. e \in Events /\ u \in Users /\ Actor(r) = u
  BY <1>0, <1>1, InFlight DEF BookPcs
<1>3. UNCHANGED req => /\ Event(r)' = e /\ Owner(r)' = u /\ Op(r)' = "book"
  BY <1>1 DEF Event, Owner, Op
<1>4. r # Nobody
  BY NobodyNotRequest
<1>5. ASSUME NEW p, Goto(r, p), UNCHANGED req,
             UNCHANGED seen \/ seen' = [seen EXCEPT ![r] = booking[e][u]],
             UNCHANGED newSeats \/ newSeats' = [newSeats EXCEPT ![r] = seats[e] + 1]
      PROVE  OthersStay(r) /\ pc'[r] = p
  BY <1>5 DEF Goto, OthersStay, TypeOK, RequestsTyped
<1> HIDE DEF e, u
<1>6. CASE BookLockEvent(r)
  <2>1. CASE Throw(r, "not_found") /\ UNCHANGED locks
    BY <1>1, <1>6, <2>1, ThrowHolds DEF BookLockEvent
  <2>2. CASE /\ Free(eventLock[e], r)
             /\ eventLock' = [eventLock EXCEPT ![e] = r]
             /\ UNCHANGED <<bookingLock, userLock, userShare, req, seen, newSeats>>
             /\ Goto(r, "rollback") \/ Goto(r, "book_look")
    <3>1. OthersStay(r) /\ OthersKeepLocks(r) /\ pc'[r] \in {"rollback", "book_look"}
      BY <1>2, <1>5, <2>2, OneEventLock
    <3>2. pc[r] = "book_lock"
      BY <1>6 DEF BookLockEvent
    <3>3. HoldsOnly(r)'
      BY <1>1, <1>3, <2>2, <3>1, <3>2 DEF HoldsOnly, InTransaction
    <3> QED
      BY <3>1, <3>3, StepHolds
  <2> QED
    BY <1>1, <1>6, <2>1, <2>2 DEF BookLockEvent, Throw, Transactional, local, e
<1>7. CASE BookLook(r)
  <2>1. CASE Throw(r, "conflict") /\ UNCHANGED locks
    BY <1>1, <1>7, <2>1, ThrowHolds DEF BookLook
  <2>2. CASE ~Throw(r, "conflict")
    <3>1. OthersStay(r) /\ pc'[r] = "book_write" /\ pc[r] = "book_look" /\ UNCHANGED <<locks, req>>
      BY <1>5, <1>7, <2>2 DEF BookLook, e, u
    <3> QED
      BY <1>1, <3>1, SameLocks, SameHeld, StepHolds
  <2> QED
    BY <1>7, <2>1, <2>2 DEF BookLook
<1>8. CASE BookReactivate(r) \/ BookInsert(r)
  <2>1. CASE Throw(r, "error") /\ UNCHANGED locks
    BY <1>1, <1>8, <2>1, ThrowHolds DEF BookReactivate, BookInsert
  <2>2. CASE DatabaseError(r)
    BY <2>2, ErrorHolds
  <2>3. CASE /\ Free(bookingLock[e][u], r)
             /\ bookingLock' = [bookingLock EXCEPT ![e][u] = r]
             /\ UNCHANGED <<eventLock, userLock, req, local>>
             /\ \/ UNCHANGED userShare
                \/ /\ userShare' = [userShare EXCEPT ![u] = @ \cup {r}]
                   /\ Free(userLock[u], r)
             /\ Goto(r, "book_seat")
    <3>1. OthersStay(r) /\ OthersKeepLocks(r) /\ pc'[r] = "book_seat" /\ pc[r] = "book_write"
      BY <1>2, <1>5, <1>8, <2>3, OneBookingLock DEF local, BookReactivate, BookInsert
    <3>2. \A f \in Events : eventLock'[f] = r => eventLock[f] = r
      BY <2>3
    <3>3. \A f \in Events, v \in Users :
            bookingLock'[f][v] = r => bookingLock[f][v] = r \/ (f = e /\ v = u)
      BY <1>2, <2>3 DEF TypeOK, LocksTyped
    <3>4. \A v \in Users : userLock'[v] # r
      BY <1>1, <2>3, <3>1 DEF HoldsOnly
    <3>5. HoldsOnly(r)'
      BY <1>1, <1>3, <2>3, <3>1, <3>2, <3>3, <3>4 DEF HoldsOnly, InTransaction
    <3> QED
      BY <3>1, <3>5, StepHolds
  <2>4. CASE BookReactivate(r)
    BY <2>1, <2>3, <2>4 DEF BookReactivate, e, u
  <2>5. CASE BookInsert(r)
    BY <1>2, <2>2, <2>3, <2>5 DEF BookInsert, e, u
  <2> QED
    BY <1>8, <2>4, <2>5
<1>9. CASE BookSeat(r)
  <2>1. CASE DatabaseError(r)
    BY <2>1, ErrorHolds
  <2>2. CASE /\ Free(eventLock[e], r)
             /\ eventLock' = [eventLock EXCEPT ![e] = r]
             /\ newSeats' = [newSeats EXCEPT ![r] = seats[e] + 1]
             /\ Goto(r, "audit")
             /\ UNCHANGED <<bookingLock, userLock, userShare, req, seen>>
    <3>1. OthersStay(r) /\ OthersKeepLocks(r) /\ pc'[r] = "audit" /\ pc[r] = "book_seat"
      BY <1>2, <1>5, <1>9, <2>2, OneEventLock DEF BookSeat
    <3>2. \A f \in Events, v \in Users : bookingLock'[f][v] = r => f = e /\ v = u
      BY <1>1, <2>2, <3>1 DEF HoldsOnly, e, u
    <3>3. \A v \in Users : userLock'[v] # r
      BY <1>1, <2>2, <3>1 DEF HoldsOnly
    <3>4. HoldsOnly(r)'
      BY <1>3, <2>2, <3>1, <3>2, <3>3 DEF HoldsOnly, InTransaction
    <3> QED
      BY <3>1, <3>4, StepHolds
  <2> QED
    BY <1>9, <2>1, <2>2 DEF BookSeat, e
<1> QED
  BY <1>6, <1>7, <1>8, <1>9 DEF Book

LEMMA CancelHolds ==
  ASSUME TypeOK, LockInv, LockHolders, NEW r \in Requests, Cancel(r)
  PROVE  LockHolders'
<1> DEFINE e == Event(r)
           u == Owner(r)
<1>0. pc[r] \in CancelPcs
  BY DEF Cancel, CancelLockBooking, CancelWrite, CancelSeat, CancelPcs
<1>1. PcOfOperation(r) /\ Op(r) = "cancel" /\ HoldsOnly(r)
  BY <1>0 DEF LockInv, Justified, PcOfOperation, LockHolders
<1>2. e \in Events /\ u \in Users
  BY <1>0, <1>1, InFlight DEF CancelPcs
<1>3. UNCHANGED req => /\ Event(r)' = e /\ Owner(r)' = u /\ Op(r)' = "cancel"
  BY <1>1 DEF Event, Owner, Op
<1>4. r # Nobody
  BY NobodyNotRequest
<1>5. ASSUME NEW p, Goto(r, p), UNCHANGED req,
             UNCHANGED seen \/ seen' = [seen EXCEPT ![r] = booking[e][u]],
             UNCHANGED newSeats \/ newSeats' = [newSeats EXCEPT ![r] =
                                      IF seats[e] = 0 THEN 0 ELSE seats[e] - 1]
      PROVE  OthersStay(r) /\ pc'[r] = p
  BY <1>5 DEF Goto, OthersStay, TypeOK, RequestsTyped
<1> HIDE DEF e, u
<1>6. CASE CancelLockBooking(r)
  <2>1. CASE Throw(r, "not_found") /\ UNCHANGED locks
    BY <1>1, <1>6, <2>1, ThrowHolds DEF CancelLockBooking
  <2>2. CASE /\ Free(bookingLock[e][u], r)
             /\ bookingLock' = [bookingLock EXCEPT ![e][u] = r]
             /\ UNCHANGED <<eventLock, userLock, userShare, req, newSeats>>
             /\ UNCHANGED seen \/ seen' = [seen EXCEPT ![r] = booking[e][u]]
             /\ Goto(r, "rollback") \/ Goto(r, "cancel_write")
    <3>1. OthersStay(r) /\ OthersKeepLocks(r) /\ pc'[r] \in {"rollback", "cancel_write"}
      BY <1>2, <1>5, <2>2, OneBookingLock
    <3>2. pc[r] = "cancel_lock"
      BY <1>6 DEF CancelLockBooking
    <3>3. \A f \in Events, v \in Users :
            bookingLock'[f][v] = r => bookingLock[f][v] = r \/ (f = e /\ v = u)
      BY <1>2, <2>2 DEF TypeOK, LocksTyped
    <3>4. HoldsOnly(r)'
      BY <1>1, <1>3, <2>2, <3>1, <3>2, <3>3 DEF HoldsOnly, InTransaction
    <3> QED
      BY <3>1, <3>4, StepHolds
  <2>3. ASSUME NEW why, Throw(r, why)
        PROVE  Goto(r, "rollback") /\ UNCHANGED <<req, newSeats, seen>>
    BY <1>1, <2>3 DEF Throw, Transactional
  <2> QED
    BY <1>6, <2>1, <2>2, <2>3 DEF CancelLockBooking, e, u
<1>7. CASE CancelWrite(r)
  <2>1. /\ OthersStay(r) /\ pc[r] = "cancel_write" /\ pc'[r] = "cancel_seat"
        /\ UNCHANGED <<locks, req>>
    BY <1>5, <1>7 DEF CancelWrite, local
  <2> QED
    BY <1>1, <2>1, SameLocks, SameHeld, StepHolds
<1>8. CASE CancelSeat(r)
  <2>1. /\ Free(eventLock[e], r)
        /\ eventLock' = [eventLock EXCEPT ![e] = r]
        /\ UNCHANGED <<bookingLock, userLock, userShare, req>>
        /\ pc[r] = "cancel_seat"
    BY <1>8 DEF CancelSeat, e
  <2>2. OthersStay(r) /\ pc'[r] = "audit"
    BY <1>5, <1>8 DEF CancelSeat, e
  <2>3. OthersKeepLocks(r)
    BY <1>2, <2>1, OneEventLock
  <2>4. \A f \in Events, v \in Users : bookingLock'[f][v] = r => f = e /\ v = u
    BY <1>1, <2>1 DEF HoldsOnly, e, u
  <2>5. /\ \A v \in Users : userLock'[v] # r
        /\ \A v \in Users : r \notin userShare'[v]
    BY <1>1, <2>1 DEF HoldsOnly
  <2>6. HoldsOnly(r)'
    BY <1>3, <2>1, <2>2, <2>4, <2>5 DEF HoldsOnly, InTransaction
  <2> QED
    BY <2>2, <2>3, <2>6, StepHolds
<1> QED
  BY <1>6, <1>7, <1>8 DEF Cancel

LEMMA ManageHolds ==
  ASSUME TypeOK, LockInv, LockHolders, NEW r \in Requests, Manage(r)
  PROVE  LockHolders'
<1> DEFINE e == Event(r)
<1>0. pc[r] \in ManagePcs
  BY DEF Manage, CreateEvent, UpdateFind, UpdateEvent, RemoveFind, ManageFind,
     RemoveLockEvent, ManagePcs
<1>1. /\ PcOfOperation(r) /\ Op(r) \notin {"book", "cancel"} /\ HoldsOnly(r)
      /\ pc[r] \notin {"idle", "cascade"}
  BY <1>0 DEF LockInv, Justified, PcOfOperation, LockHolders, ManagePcs
<1>2. e \in Events
  BY <1>1, InFlight
<1>3. UNCHANGED req => Op(r)' = Op(r)
  BY DEF Op
<1>5. ASSUME NEW p, Goto(r, p), UNCHANGED <<req, local>>
      PROVE  OthersStay(r) /\ pc'[r] = p
  BY <1>5 DEF Goto, OthersStay, local, TypeOK, RequestsTyped
<1> HIDE DEF e
<1>6. CASE DatabaseError(r)
  BY <1>6, ErrorHolds
<1>7. CASE \E why : Throw(r, why) /\ UNCHANGED locks
  BY <1>1, <1>7, ThrowHolds
<1>8. CASE (\E p : Goto(r, p)) /\ UNCHANGED <<locks, req, local>>
  <2>1. OthersStay(r)
    BY <1>5, <1>8
  <2> QED
    BY <1>1, <1>8, <2>1, SameLocks, SameHeld, StepHolds
<1>9. CASE RemoveLockEvent(r)
  <2>1. CASE /\ Free(eventLock[e], r)
             /\ eventLock' = [eventLock EXCEPT ![e] = r]
             /\ Goto(r, "cascade")
             /\ UNCHANGED <<bookingLock, userLock, userShare, req, local>>
    <3>1. OthersStay(r) /\ OthersKeepLocks(r) /\ pc'[r] = "cascade"
      BY <1>2, <1>5, <2>1, OneEventLock
    <3>2. pc[r] = "remove_lock"
      BY <1>9 DEF RemoveLockEvent
    <3>3. HoldsOnly(r)'
      BY <1>1, <2>1, <3>1, <3>2 DEF HoldsOnly, InTransaction
    <3> QED
      BY <3>1, <3>3, StepHolds
  <2> QED
    BY <1>8, <1>9, <2>1 DEF RemoveLockEvent, e
<1> QED
  BY <1>6, <1>7, <1>8, <1>9 DEF Manage, CreateEvent, UpdateFind, UpdateEvent, RemoveFind,
     ManageFind

LEMMA EraseHolds ==
  ASSUME TypeOK, LockInv, LockHolders, NEW r \in Requests, Erase(r)
  PROVE  LockHolders'
<1>0. pc[r] \in {"erase_lock", "cascade"}
  BY DEF Erase, EraseLockUser, CascadeLock, CascadeDelete
<1>1. Op(r) \notin {"book", "cancel"} /\ HoldsOnly(r)
  BY <1>0 DEF LockInv, Justified, PcOfOperation, LockHolders
<1>2. Actor(r) \in Users
  BY <1>0, InFlight
<1>3. CASE EraseLockUser(r)
  <2>1. pc[r] = "erase_lock" /\ OthersStay(r) /\ UNCHANGED req
    BY <1>3 DEF EraseLockUser, Goto, OthersStay, local, TypeOK, RequestsTyped
  <2>2. CASE UNCHANGED locks
    BY <1>1, <2>1, <2>2, SameLocks, SameHeld, StepHolds
  <2>3. CASE /\ Free(userLock[Actor(r)], r)
             /\ userLock' = [userLock EXCEPT ![Actor(r)] = r]
             /\ UNCHANGED <<eventLock, bookingLock, userShare>>
             /\ Goto(r, "cascade")
    <3>1. pc'[r] = "cascade"
      BY <2>3 DEF Goto, TypeOK, RequestsTyped
    <3>2. OthersKeepLocks(r)
      BY <1>2, <2>3 DEF Free, OthersKeepLocks, TypeOK, LocksTyped
    <3>3. HoldsOnly(r)'
      BY <1>1, <2>1, <2>3, <3>1 DEF HoldsOnly, InTransaction
    <3> QED
      BY <2>1, <3>2, <3>3, StepHolds
  <2> QED
    BY <1>3, <2>2, <2>3 DEF EraseLockUser
<1>4. CASE CascadeLock(r)
  <2>1. pc[r] = "cascade" /\ UNCHANGED <<pc, req, local, userLock, userShare>>
    BY <1>4 DEF CascadeLock
  <2>2. OthersStay(r)
    BY <2>1 DEF OthersStay, local
  <2>3. PICK f \in Events :
          \/ /\ eventLock[f] = Nobody
             /\ eventLock' = [eventLock EXCEPT ![f] = r]
             /\ UNCHANGED bookingLock
          \/ \E u \in Users : /\ bookingLock[f][u] = Nobody
                            /\ bookingLock' = [bookingLock EXCEPT ![f][u] = r]
                            /\ UNCHANGED eventLock
    BY <1>4 DEF CascadeLock, DoomedUsers
  <2>4. OthersKeepLocks(r)
    BY <2>1, <2>3, OneEventLock, OneBookingLock DEF Free
  <2>5. HoldsOnly(r)'
    BY <1>1, <2>1 DEF HoldsOnly, InTransaction
  <2> QED
    BY <2>2, <2>4, <2>5, StepHolds
<1>5. CASE CascadeDelete(r)
  <2>1. OthersStay(r) /\ OthersKeepLocks(r)
    BY <1>5, ReleasedLocks DEF CascadeDelete, OthersStay, Goto, TypeOK, RequestsTyped
  <2> QED
    BY <1>5, <2>1, NothingHeld, StepHolds DEF CascadeDelete
<1> QED
  BY <1>3, <1>4, <1>5 DEF Erase

LEMMA FinishHolds ==
  ASSUME TypeOK, LockInv, LockHolders, NEW r \in Requests,
         Finish(r) \/ AuditLost(r) \/ Lose(r) \/ Start(r) \/ Reply(r) \/ DeadlockAbort(r)
  PROVE  LockHolders'
<1>1. HoldsOnly(r)
  BY DEF LockHolders
<1>2. CASE AuditInsert(r) \/ AuditLost(r)
  <2>1. /\ pc[r] = "audit" /\ pc' = [pc EXCEPT ![r] = AfterAudit[Op(r)]]
        /\ UNCHANGED <<locks, req, seen, newSeats>>
    BY <1>2 DEF AuditInsert, AuditLost, FinishAudit, Goto
  <2>2. OthersStay(r) /\ OthersKeepLocks(r) /\ pc'[r] = AfterAudit[Op(r)]
    BY <2>1, SameLocks DEF OthersStay, TypeOK, RequestsTyped
  <2>3. HoldsOnly(r)'
    BY <1>1, <2>1, <2>2, SameHeld DEF AfterAudit
  <2> QED
    BY <2>2, <2>3, StepHolds
<1>3. CASE Commit(r) \/ Rollback(r) \/ Lose(r)
  <2>1. OthersStay(r) /\ ReleaseLocks(r)
    BY <1>3 DEF Commit, Rollback, Lose, OthersStay, Goto, local, TypeOK, RequestsTyped
  <2> QED
    BY <2>1, ReleasedLocks, NothingHeld, StepHolds
<1>4. CASE Start(r) \/ Reply(r)
  <2>1. OthersStay(r) /\ OthersKeepLocks(r) /\ UNCHANGED locks /\ pc[r] \in {"idle", "done"}
    BY <1>4, SameLocks DEF Start, Reply, Goto, OthersStay, local, TypeOK, RequestsTyped
  <2>2. HoldsOnly(r)'
    BY <1>1, <2>1 DEF HoldsOnly, locks
  <2> QED
    BY <2>1, <2>2, StepHolds
<1>5. CASE DeadlockAbort(r)
  BY <1>5, ErrorHolds DEF DeadlockAbort
<1> QED
  BY <1>2, <1>3, <1>4, <1>5 DEF Finish

(* A lock is taken by the statement that needs it and given back at the end of
   its transaction, whatever fails (db.js:42-55). *)
THEOREM AlwaysHeld == Spec => []LockHolders
<1>1. Init => LockHolders
  <2> SUFFICES ASSUME Init PROVE LockHolders
    OBVIOUS
  <2> QED
    BY NobodyNotRequest DEF Init, LockHolders, HoldsOnly
<1>2. SafeInv /\ LockHolders /\ [Next]_vars => LockHolders'
  <2> SUFFICES ASSUME SafeInv, LockHolders, [Next]_vars PROVE LockHolders'
    OBVIOUS
  <2>1. CASE Next
    BY <2>1, BookHolds, CancelHolds, ManageHolds, EraseHolds, FinishHolds
       DEF SafeInv, Next, Proceed
  <2>2. CASE UNCHANGED vars
    BY <2>2 DEF vars, locks, LockHolders, HoldsOnly, InTransaction, Op, Event, Owner
  <2> QED
    BY <2>1, <2>2
<1> QED
  BY <1>1, <1>2, AlwaysSafe, PTL DEF Spec
-----------------------------------------------------------------------------
(* What a waiting request waits for, one statement at a time. *)

LEMMA EventWaiters ==
  ASSUME NEW r \in Requests,
         pc[r] \in {"book_lock", "book_seat", "cancel_seat", "update_write", "remove_lock"}
  PROVE  BlockedBy(r) = {eventLock[Event(r)]} \ {Nobody, r}
BY DEF BlockedBy

LEMMA BookingWaiters ==
  ASSUME NEW r \in Requests, pc[r] = "book_write" \/ pc[r] = "cancel_lock"
  PROVE  BlockedBy(r) \subseteq {bookingLock[Event(r)][Owner(r)], userLock[Actor(r)]} \ {Nobody, r}
BY DEF BlockedBy

LEMMA AccountWaiters ==
  ASSUME NEW r \in Requests, pc[r] \in {"create_write", "erase_lock"}
  PROVE  BlockedBy(r) \subseteq ({userLock[Actor(r)]} \cup userShare[Actor(r)]) \ {Nobody, r}
BY DEF BlockedBy

LEMMA NoOtherWaiters ==
  ASSUME NEW r \in Requests,
         pc[r] \notin {"book_lock", "book_seat", "cancel_seat", "update_write", "remove_lock",
                       "book_write", "cancel_lock", "create_write", "erase_lock", "cascade"}
  PROVE  BlockedBy(r) = {}
BY DEF BlockedBy

(* In a circle without a deletion every candidate to be waited for is ruled
   out by what it holds and by what it has read. *)
LEMMA NoKnot ==
  ASSUME TypeOK, LockInv, LockHolders, NEW S \in SUBSET Requests, Knot(S),
         \A q \in S : pc[q] # "cascade"
  PROVE  FALSE
<1>1. \A q \in S : /\ q \in Requests /\ q # Nobody
                   /\ Justified(q) /\ HoldsOnly(q)
                   /\ BlockedBy(q) \cap S # {}
  BY NobodyNotRequest DEF Knot, LockInv, LockHolders
<1>2. \A q \in S : pc[q] \in {"book_lock", "book_seat", "cancel_seat", "update_write",
                              "remove_lock", "book_write", "cancel_lock", "create_write",
                              "erase_lock"}
  BY <1>1, NoOtherWaiters
<1>3. \A q \in S : pc[q] # "book_seat"
  <2> SUFFICES ASSUME NEW q \in S, pc[q] = "book_seat" PROVE FALSE
    OBVIOUS
  <2>1. eventLock[Event(q)] = q
    BY <1>1 DEF Justified, BookHoldsEvent
  <2> QED
    BY <1>1, <2>1, EventWaiters
<1>4. \A q \in S : pc[q] # "book_write"
  <2> SUFFICES ASSUME NEW q \in S, pc[q] = "book_write" PROVE FALSE
    OBVIOUS
  <2>1. PICK h \in S : h \in {bookingLock[Event(q)][Owner(q)], userLock[Actor(q)]} \ {Nobody, q}
    BY <1>1, BookingWaiters
  <2>2. Event(q) \in Events /\ Owner(q) \in Users /\ Actor(q) \in Users
    BY <1>1, InFlight
  <2>3. userLock[Actor(q)] # h
    BY <1>1, <2>2 DEF HoldsOnly
  <2>4. bookingLock[Event(q)][Owner(q)] = h
    BY <2>1, <2>3
  <2>5. /\ pc[h] = "cancel_seat"
        /\ Event(h) = Event(q) /\ Owner(h) = Owner(q)
    BY <1>1, <1>2, <1>3, <2>2, <2>4 DEF HoldsOnly
  <2>6. Op(h) = "cancel"
    BY <1>1, <2>5 DEF Justified, PcOfOperation, CancelPcs
  <2>7. booking[Event(q)][Owner(q)] = "confirmed"
    BY <1>1, <2>5, <2>6 DEF Justified, CancelHoldsBooking
  <2> QED
    BY <1>1, <2>7 DEF Justified, BookSeesUnconfirmed
<1>5. \A q \in S : pc[q] \notin {"book_lock", "cancel_seat", "update_write", "remove_lock"}
  <2> SUFFICES ASSUME NEW q \in S,
                      pc[q] \in {"book_lock", "cancel_seat", "update_write", "remove_lock"}
               PROVE  FALSE
    OBVIOUS
  <2>1. PICK h \in S : h = eventLock[Event(q)]
    BY <1>1, EventWaiters
  <2>2. Event(q) \in Events
    BY <1>1, InFlight
  <2>3. pc[h] \in {"book_write", "book_seat"}
    BY <1>1, <1>2, <2>1, <2>2 DEF HoldsOnly
  <2> QED
    BY <1>3, <1>4, <2>3
<1>6. \A q \in S : pc[q] # "cancel_lock"
  <2> SUFFICES ASSUME NEW q \in S, pc[q] = "cancel_lock" PROVE FALSE
    OBVIOUS
  <2>1. PICK h \in S : h \in {bookingLock[Event(q)][Owner(q)], userLock[Actor(q)]}
    BY <1>1, BookingWaiters
  <2>2. Event(q) \in Events /\ Owner(q) \in Users /\ Actor(q) \in Users
    BY <1>1, InFlight
  <2>3. pc[h] \in {"book_seat", "cancel_seat"}
    BY <1>1, <1>2, <2>1, <2>2 DEF HoldsOnly
  <2> QED
    BY <1>3, <1>5, <2>3
<1>7. \A q \in S : pc[q] \notin {"create_write", "erase_lock"}
  <2> SUFFICES ASSUME NEW q \in S, pc[q] \in {"create_write", "erase_lock"} PROVE FALSE
    OBVIOUS
  <2>1. PICK h \in S : h = userLock[Actor(q)] \/ h \in userShare[Actor(q)]
    BY <1>1, AccountWaiters
  <2>2. Actor(q) \in Users
    BY <1>1, InFlight
  <2>3. pc[h] = "book_seat"
    BY <1>1, <1>2, <2>1, <2>2 DEF HoldsOnly
  <2> QED
    BY <1>3, <2>3
<1> QED
  BY <1>2, <1>3, <1>4, <1>5, <1>6, <1>7 DEF Knot

(* Booking and cancelling take the event's and the booking's lock in opposite
   orders (bookingService.js:22, :38, :64, :79) and still never deadlock: in
   every circle of waiting requests there is a DELETE. *)
THEOREM DeadlockNeedsDeletion == Spec => []OnlyDeletionsDeadlock
<1>1. SafeInv /\ LockHolders => OnlyDeletionsDeadlock
  BY NoKnot DEF SafeInv, OnlyDeletionsDeadlock
<1> QED
  BY <1>1, AlwaysSafe, AlwaysHeld, PTL

-----------------------------------------------------------------------------
(* Runs without deletions. *)

(* CleanRun, one request at a time *)
CleanRunOf(r) ==
  /\ pc[r] = "book_write" => booking[Event(r)][Owner(r)] = seen[r]
  /\ result[r] = "error" => Op(r) \notin {"book", "cancel"}
  /\ pc[r] = "idle" => result[r] = "none"

Clean == users = Users /\ \A r \in Requests : CleanRunOf(r)

LEMMA NothingDeletes ==
  ASSUME TypeOK, LockInv, NoDeletions, NEW r \in Requests
  PROVE  /\ pc[r] \notin {"cascade", "erase_lock", "remove_find", "remove_lock"}
         /\ pc[r] # "idle" => Op(r) \notin {"remove_event", "delete_account"}
<1>1. pc[r] # "idle" => Op(r) \notin {"remove_event", "delete_account"}
  BY InFlight DEF NoDeletions, Op
<1>2. PcOfOperation(r)
  BY DEF LockInv, Justified
<1> QED
  BY <1>1, <1>2 DEF PcOfOperation

(* The booking that book has read is not changed before book writes it. *)
LEMMA ReadStays ==
  ASSUME TypeOK, LockInv, NoDeletions, Clean, NEW r \in Requests,
         Start(r) \/ Proceed(r) \/ AuditLost(r) \/ Lose(r) \/ Reply(r)
  PROVE  /\ users' = users
         /\ \A q \in Requests \ {r} : pc[q] = "book_write" =>
              booking'[Event(q)][Owner(q)] = booking[Event(q)][Owner(q)]
         /\ ~Commit(r) => booking' = booking
<1> USE DEF Goto, Throw, DatabaseError, local, store
<1>0. pc[r] \notin {"cascade", "erase_lock", "remove_find", "remove_lock"}
  BY NothingDeletes
<1>1. CASE Start(r) \/ Reply(r) \/ Lose(r)
  BY <1>1 DEF Start, Reply, Lose
<1>2. CASE Book(r)
  BY <1>2 DEF Book, BookLockEvent, BookLook, BookReactivate, BookInsert, BookSeat
<1>3. CASE Cancel(r)
  BY <1>3 DEF Cancel, CancelLockBooking, CancelWrite, CancelSeat
<1>4. CASE Manage(r)
  BY <1>4 DEF Manage, CreateEvent, UpdateFind, UpdateEvent, RemoveFind, ManageFind, RemoveLockEvent
<1>5. CASE Erase(r)
  BY <1>0, <1>5 DEF Erase, EraseLockUser, CascadeLock, CascadeDelete
<1>6. CASE AuditInsert(r) \/ AuditLost(r) \/ Rollback(r)
  BY <1>6 DEF AuditInsert, AuditLost, FinishAudit, Rollback
<1>7. CASE Commit(r)
  <2>1. users' = users
    BY <1>7 DEF Commit
  <2>2. ASSUME NEW q \in Requests \ {r}, pc[q] = "book_write"
        PROVE  booking'[Event(q)][Owner(q)] = booking[Event(q)][Owner(q)]
    <3>1. eventLock[Event(q)] = q /\ Event(q) \in Events /\ Owner(q) \in Users
      BY <2>2, InFlight DEF LockInv, Justified, BookHoldsEvent
    <3>2. Op(r) \in {"book", "cancel"} /\ pc[r] = "commit"
      BY <1>7 DEF Commit, LockInv, Justified, PcOfOperation
    <3>3. eventLock[Event(r)] = r /\ Event(r) \in Events
      BY <3>2, InFlight DEF LockInv, Justified, CounterPending, SeatWritten
    <3> QED
      BY <1>7, <3>1, <3>3 DEF Commit, TypeOK, TablesTyped
  <2> QED
    BY <1>7, <2>1, <2>2
<1>8. CASE DeadlockAbort(r)
  BY <1>8 DEF DeadlockAbort
<1> QED
  BY <1>1, <1>2, <1>3, <1>4, <1>5, <1>6, <1>7, <1>8 DEF Proceed, Finish

(* No statement of book or cancel fails. *)
LEMMA OwnRunClean ==
  ASSUME TypeOK, LockInv, LockHolders, NoDeletions, Clean, NEW r \in Requests,
         Start(r) \/ Proceed(r) \/ AuditLost(r) \/ Lose(r) \/ Reply(r)
  PROVE  CleanRunOf(r)'
<1> USE DEF Goto, Throw, DatabaseError, local, store, CleanRunOf, Op, Event, Owner,
            TypeOK, RequestsTyped
<1>0. CleanRunOf(r) /\ PcOfOperation(r) /\ BookHoldsEvent(r) /\ users = Users
  BY DEF Clean, LockInv, Justified
<1>1. CASE Start(r) \/ Reply(r) \/ Lose(r)
  <2>1. \A w \in Workload : First[w.op] # "book_write" /\ First[w.op] # "idle"
    BY WorkloadTyped DEF First, RequestData, Operations
  <2> QED
    BY <1>0, <1>1, <2>1 DEF Start, Reply, Lose
<1>2. CASE Book(r)
  <2>1. pc[r] # "idle"
    BY <1>2 DEF Book, BookLockEvent, BookLook, BookReactivate, BookInsert, BookSeat
  <2>2. Actor(r) \in users /\ Event(r) \in Events
    BY <1>0, <2>1, InFlight
  <2>3. seats[Event(r)] \in Nat /\ capacity[Event(r)] \in Nat
    BY <2>2, CapacitiesPositive DEF TablesTyped
  <2>4. CASE BookLockEvent(r) \/ BookLook(r)
    BY <1>0, <2>4 DEF BookLockEvent, BookLook
  <2>5. CASE BookReactivate(r) \/ BookInsert(r)
    BY <1>0, <2>2, <2>5 DEF BookReactivate, BookInsert
  <2>6. CASE BookSeat(r)
    BY <1>0, <2>3, <2>6 DEF BookSeat, BookHoldsEvent
  <2> QED
    BY <1>2, <2>4, <2>5, <2>6 DEF Book
<1>3. CASE Cancel(r)
  BY <1>0, <1>3 DEF Cancel, CancelLockBooking, CancelWrite, CancelSeat, CancelRefusal
<1>4. CASE Manage(r)
  BY <1>0, <1>4 DEF Manage, CreateEvent, UpdateFind, UpdateEvent, RemoveFind, ManageFind,
     RemoveLockEvent, PcOfOperation
<1>5. CASE Erase(r)
  BY <1>5, NothingDeletes DEF Erase, EraseLockUser, CascadeLock, CascadeDelete
<1>6. CASE AuditInsert(r) \/ AuditLost(r)
  <2>1. Op(r) \in Operations
    BY <1>6, InFlight DEF AuditInsert, AuditLost
  <2>2. AfterAudit[Op(r)] \notin {"idle", "book_write"}
    BY <2>1 DEF AfterAudit, Operations
  <2> QED
    BY <1>0, <1>6, <2>2 DEF AuditInsert, AuditLost, FinishAudit
<1>7. CASE Commit(r) \/ Rollback(r)
  BY <1>0, <1>7 DEF Commit, Rollback
<1>8. CASE DeadlockAbort(r)
  <2>1. PICK S \in SUBSET Requests : Knot(S)
    BY <1>8 DEF DeadlockAbort
  <2>2. \A q \in S : pc[q] # "cascade"
    BY NothingDeletes
  <2> QED
    BY <2>1, <2>2, NoKnot
<1> QED
  BY <1>1, <1>2, <1>3, <1>4, <1>5, <1>6, <1>7, <1>8 DEF Proceed, Finish

CleanIfKept == NoDeletions => Clean

LEMMA AlwaysClean == Spec => []CleanIfKept
<1>1. Init => CleanIfKept
  BY DEF Init, CleanIfKept, Clean, CleanRunOf
<1>2. SafeInv /\ LockHolders /\ CleanIfKept /\ [Next]_vars => CleanIfKept'
  <2> SUFFICES ASSUME SafeInv, LockHolders, NoDeletions, Clean, [Next]_vars PROVE Clean'
    BY DEF CleanIfKept, NoDeletions
  <2>0. TypeOK /\ LockInv
    BY DEF SafeInv
  <2>1. ASSUME NEW r \in Requests,
               Start(r) \/ Proceed(r) \/ AuditLost(r) \/ Lose(r) \/ Reply(r)
        PROVE  Clean'
    <3>1. users' = Users
      BY <2>0, <2>1, ReadStays DEF Clean
    <3>2. CleanRunOf(r)'
      BY <2>0, <2>1, OwnRunClean
    <3>3. ASSUME NEW q \in Requests \ {r} PROVE CleanRunOf(q)'
      <4>1. pc'[q] = pc[q] /\ req'[q] = req[q] /\ result'[q] = result[q] /\ seen'[q] = seen[q]
        BY <2>0, <2>1, AuditOfOthers
      <4>2. pc[q] = "book_write" => booking'[Event(q)][Owner(q)] = booking[Event(q)][Owner(q)]
        BY <2>0, <2>1, ReadStays
      <4> QED
        BY <4>1, <4>2 DEF Clean, CleanRunOf, Op, Event, Owner
    <3> QED
      BY <3>1, <3>2, <3>3 DEF Clean
  <2>2. CASE UNCHANGED vars
    BY <2>2 DEF vars, store, local, Clean, CleanRunOf, Op, Event, Owner
  <2> QED
    BY <2>1, <2>2 DEF Next
<1> QED
  BY <1>1, <1>2, AlwaysSafe, AlwaysHeld, PTL DEF Spec

(* Without deletions the database refuses no statement of book and cancel, be it the
   unique index, a CHECK, a foreign key or a deadlock (bookingService.js:20-89). *)
THEOREM BookAndCancelSucceed == Spec => []BookAndCancelNeverFail
<1>1. CleanIfKept => BookAndCancelNeverFail
  BY DEF CleanIfKept, Clean, CleanRunOf, BookAndCancelNeverFail
<1> QED
  BY <1>1, AlwaysClean, PTL
=============================================================================
