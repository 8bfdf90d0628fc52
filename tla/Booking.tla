------------------------------ MODULE Booking ------------------------------
(***************************************************************************)
(* Seats, bookings and the rows they lock.                                 *)
(*                                                                         *)
(* Every HTTP request that changes the events or bookings tables runs in a *)
(* request slot, one SQL statement per action, in the order of             *)
(* bookingService.js, eventService.js and profileService.deleteAccount.    *)
(* The variables eventRow, capacity, seats, booking and users are the      *)
(* COMMITTED tables; what a transaction has written and not yet committed  *)
(* follows from its program counter, seen and newSeats.  Row locks are     *)
(* PostgreSQL's (READ COMMITTED): an exclusive lock per row, and the       *)
(* KEY SHARE locks that foreign-key checks take on a users row.            *)
(*                                                                         *)
(* A booking row is named by its event and its user: UNIQUE(event_id,      *)
(* user_id) allows one, and it disappears only with its event or its user. *)
(***************************************************************************)
EXTENDS Naturals, FiniteSets

CONSTANTS
  Users,          \* accounts that exist at the start
  Events,         \* event ids, including those not created yet
  InitialEvents,  \* events that exist at the start, without bookings
  Requests,       \* request slots: how many requests are in flight at once
  Capacities,     \* capacities the clients send
  Admins,         \* users whose token carries the role admin
  Organizer,      \* the organizer_id an event is created with
  Workload,       \* the requests the clients may send
  Nobody,         \* owner of a free row lock
  NoRequest       \* content of an idle slot

Operations == {"book", "cancel", "create_event", "update_event",
               "remove_event", "delete_account"}

(* owner is the user whose booking is cancelled; it is the actor elsewhere *)
RequestData == [op : Operations, actor : Users, event : Events, owner : Users]

ASSUME UsersFinite == IsFiniteSet(Users)
ASSUME CapacitiesPositive == Capacities \subseteq Nat \ {0}
ASSUME ConstantsTyped == /\ InitialEvents \subseteq Events
                         /\ Admins \subseteq Users
                         /\ Organizer \in [Events -> Users]
ASSUME WorkloadTyped == /\ Workload \subseteq RequestData
                        /\ \A w \in Workload :
                             /\ w.op # "cancel" => w.owner = w.actor
                             /\ w.op = "create_event"
                                  => w.actor = Organizer[w.event]
ASSUME NobodyNotRequest == Nobody \notin Requests
ASSUME NoRequestNotData == NoRequest \notin RequestData

VARIABLES
  eventRow,     \* "fresh" (not inserted yet), "live" or "gone" (deleted)
  capacity,     \* events.capacity
  seats,        \* events.seats_taken
  booking,      \* bookings.status by event and user, "none" without a row
  users,        \* the users rows that exist
  eventLock,    \* who holds the exclusive lock of an events row
  bookingLock,  \* the same of a bookings row, uncommitted inserts included
  userLock,     \* the same of a users row: only DELETE takes it
  userShare,    \* who holds a KEY SHARE lock of a users row
  pc,           \* the next statement of a request
  req,          \* what the request asks for
  seen,         \* the status the request's SELECT on bookings returned
  newSeats,     \* the seats_taken its UPDATE on events has written
  audited,      \* whether its audit_logs row was written
  result        \* what the client is told

store == <<eventRow, capacity, seats, booking, users>>
locks == <<eventLock, bookingLock, userLock, userShare>>
local == <<seen, newSeats, audited, result>>
vars  == <<store, locks, pc, req, local>>

Statuses == {"none", "confirmed", "cancelled"}
Results  == {"none", "ok", "not_found", "conflict", "forbidden",
             "bad_request", "error", "lost"}

BookPcs    == {"book_lock", "book_look", "book_write", "book_seat"}
CancelPcs  == {"cancel_lock", "cancel_write", "cancel_seat"}
ManagePcs  == {"create_write", "update_find", "update_write",
               "remove_find", "remove_lock"}
Pcs == BookPcs \cup CancelPcs \cup ManagePcs
         \cup {"idle", "erase_lock", "cascade", "audit", "commit",
               "rollback", "done"}

(* the statement that opens each operation *)
First == [book           |-> "book_lock",
          cancel         |-> "cancel_lock",
          create_event   |-> "create_write",
          update_event   |-> "update_find",
          remove_event   |-> "remove_find",
          delete_account |-> "audit"]

(* the statement after the audit row: only withTransaction has a COMMIT, and
   deleteAccount audits first and deletes then *)
AfterAudit == [book           |-> "commit",
               cancel         |-> "commit",
               create_event   |-> "done",
               update_event   |-> "done",
               remove_event   |-> "done",
               delete_account |-> "erase_lock"]

Op(r)    == req[r].op
Actor(r) == req[r].actor
Event(r) == req[r].event
Owner(r) == req[r].owner

Transactional(r) == Op(r) \in {"book", "cancel"}
(* a mistake: SELECT without FOR UPDATE, writes that do not wait *)
FreeIgnored(lock, r) == TRUE
Free(lock, r)    == lock \in {Nobody, r}
Confirmed(e)     == {u \in Users : booking[e][u] = "confirmed"}

Init ==
  /\ eventRow = [e \in Events |-> IF e \in InitialEvents THEN "live" ELSE "fresh"]
  /\ capacity \in [Events -> Capacities]
  /\ seats = [e \in Events |-> 0]
  /\ booking = [e \in Events |-> [u \in Users |-> "none"]]
  /\ users = Users
  /\ eventLock = [e \in Events |-> Nobody]
  /\ bookingLock = [e \in Events |-> [u \in Users |-> Nobody]]
  /\ userLock = [u \in Users |-> Nobody]
  /\ userShare = [u \in Users |-> {}]
  /\ pc = [r \in Requests |-> "idle"]
  /\ req = [r \in Requests |-> NoRequest]
  /\ seen = [r \in Requests |-> "none"]
  /\ newSeats = [r \in Requests |-> 0]
  /\ audited = [r \in Requests |-> FALSE]
  /\ result = [r \in Requests |-> "none"]

-----------------------------------------------------------------------------
(* Steps shared by the operations. *)

Goto(r, next) == pc' = [pc EXCEPT ![r] = next]

(* a mistake: a bookings row stays locked after its transaction *)
ReleaseLocksButBookings(r) ==
  /\ eventLock' = [e \in Events |->
                     IF eventLock[e] = r THEN Nobody ELSE eventLock[e]]
  /\ userLock' = [u \in Users |->
                     IF userLock[u] = r THEN Nobody ELSE userLock[u]]
  /\ userShare' = [u \in Users |-> userShare[u] \ {r}]
  /\ UNCHANGED bookingLock

(* The end of a transaction, or of a statement outside one. *)
ReleaseLocks(r) ==
  /\ eventLock' = [e \in Events |->
                     IF eventLock[e] = r THEN Nobody ELSE eventLock[e]]
  /\ bookingLock' = [e \in Events |-> [u \in Users |->
                     IF bookingLock[e][u] = r THEN Nobody ELSE bookingLock[e][u]]]
  /\ userLock' = [u \in Users |->
                     IF userLock[u] = r THEN Nobody ELSE userLock[u]]
  /\ userShare' = [u \in Users |-> userShare[u] \ {r}]

(* The code throws: inside a transaction its locks stay until ROLLBACK. *)
Throw(r, why) ==
  /\ Goto(r, IF Transactional(r) THEN "rollback" ELSE "done")
  /\ result' = [result EXCEPT ![r] = why]
  /\ UNCHANGED <<store, req, seen, newSeats, audited>>

(* PostgreSQL refuses the statement, which ends the transaction there. *)
DatabaseError(r) ==
  /\ Throw(r, "error")
  /\ ReleaseLocks(r)

(* gen_random_uuid: no event ever had this id and no other request gets it *)
NewId(e) == /\ eventRow[e] = "fresh"
            /\ \A q \in Requests :
                 pc[q] # "idle" => ~(Op(q) = "create_event" /\ Event(q) = e)

(* A request arrives; it may be any the workload has. *)
Start(r) ==
  /\ pc[r] = "idle"
  /\ \E w \in Workload :
       /\ w.op = "create_event" => NewId(w.event)
       /\ req' = [req EXCEPT ![r] = w]
       /\ Goto(r, First[w.op])
  /\ UNCHANGED <<store, locks, local>>

(* The response is sent and the slot is free again. *)
Reply(r) ==
  /\ pc[r] = "done"
  /\ Goto(r, "idle")
  /\ req' = [req EXCEPT ![r] = NoRequest]
  /\ seen' = [seen EXCEPT ![r] = "none"]
  /\ newSeats' = [newSeats EXCEPT ![r] = 0]
  /\ audited' = [audited EXCEPT ![r] = FALSE]
  /\ result' = [result EXCEPT ![r] = "none"]
  /\ UNCHANGED <<store, locks>>

-----------------------------------------------------------------------------
(* bookingService.book *)

(* SELECT ... FROM events WHERE id = $1 FOR UPDATE, and the two refusals *)
BookLockEvent(r) ==
  /\ pc[r] = "book_lock"
  /\ \/ /\ eventRow[Event(r)] # "live"
        /\ Throw(r, "not_found")
        /\ UNCHANGED locks
     \/ /\ eventRow[Event(r)] = "live"
        /\ Free(eventLock[Event(r)], r)
        /\ eventLock' = [eventLock EXCEPT ![Event(r)] = r]
        /\ IF seats[Event(r)] >= capacity[Event(r)]
             THEN Throw(r, "conflict")
             ELSE /\ Goto(r, "book_look")
                  /\ UNCHANGED <<store, req, local>>
        /\ UNCHANGED <<bookingLock, userLock, userShare>>

(* SELECT id, status FROM bookings: takes no lock, reads the committed row *)
BookLook(r) ==
  /\ pc[r] = "book_look"
  /\ LET status == booking[Event(r)][Owner(r)]
     IN IF status = "confirmed"
          THEN Throw(r, "conflict")
          ELSE /\ seen' = [seen EXCEPT ![r] = status]
               /\ Goto(r, "book_write")
               /\ UNCHANGED <<store, req, newSeats, audited, result>>
  /\ UNCHANGED locks

(* UPDATE bookings SET status = 'confirmed'.  If the row has gone meanwhile
   the UPDATE returns no row and reading its id throws a TypeError. *)
BookReactivate(r) ==
  /\ pc[r] = "book_write"
  /\ seen[r] = "cancelled"
  /\ \/ /\ booking[Event(r)][Owner(r)] = "none"
        /\ Throw(r, "error")
        /\ UNCHANGED locks
     \/ /\ booking[Event(r)][Owner(r)] # "none"
        /\ Free(bookingLock[Event(r)][Owner(r)], r)
        /\ bookingLock' = [bookingLock EXCEPT ![Event(r)][Owner(r)] = r]
        /\ Goto(r, "book_seat")
        /\ UNCHANGED <<store, eventLock, userLock, userShare, req, local>>

(* INSERT INTO bookings: the unique index, then the foreign key to users *)
BookInsert(r) ==
  /\ pc[r] = "book_write"
  /\ seen[r] = "none"
  /\ Free(bookingLock[Event(r)][Owner(r)], r)
  /\ Free(userLock[Actor(r)], r)
  /\ IF booking[Event(r)][Owner(r)] # "none" \/ Actor(r) \notin users
       THEN DatabaseError(r)
       ELSE /\ bookingLock' = [bookingLock EXCEPT ![Event(r)][Owner(r)] = r]
            /\ userShare' = [userShare EXCEPT ![Actor(r)] = @ \cup {r}]
            /\ Goto(r, "book_seat")
            /\ UNCHANGED <<store, eventLock, userLock, req, local>>

(* UPDATE events SET seats_taken = seats_taken + 1, under the CHECK
   seats_within_capacity *)
BookSeat(r) ==
  /\ pc[r] = "book_seat"
  /\ Free(eventLock[Event(r)], r)
  /\ IF seats[Event(r)] + 1 > capacity[Event(r)]
       THEN DatabaseError(r)
       ELSE /\ eventLock' = [eventLock EXCEPT ![Event(r)] = r]
            /\ newSeats' = [newSeats EXCEPT ![r] = seats[Event(r)] + 1]
            /\ Goto(r, "audit")
            /\ UNCHANGED <<store, bookingLock, userLock, userShare, req, seen,
                           audited, result>>

-----------------------------------------------------------------------------
(* bookingService.cancel *)

(* a user cancels only their own booking, an admin any; and only once *)
MayCancel(r) == Owner(r) = Actor(r) \/ Actor(r) \in Admins
(* a mistake: cancelling twice is not refused *)
CancelRefusalOfStrangers(r, status) ==
  IF ~MayCancel(r) THEN "forbidden" ELSE "none"
CancelRefusal(r, status) ==
  IF ~MayCancel(r) THEN "forbidden"
  ELSE IF status = "cancelled" THEN "bad_request" ELSE "none"

(* SELECT * FROM bookings WHERE id = $1 FOR UPDATE, and the three refusals *)
CancelLockBooking(r) ==
  /\ pc[r] = "cancel_lock"
  /\ LET status == booking[Event(r)][Owner(r)]
         refusal == CancelRefusal(r, status)
     IN \/ /\ status = "none"
           /\ Throw(r, "not_found")
           /\ UNCHANGED locks
        \/ /\ status # "none"
           /\ Free(bookingLock[Event(r)][Owner(r)], r)
           /\ bookingLock' = [bookingLock EXCEPT ![Event(r)][Owner(r)] = r]
           /\ IF refusal # "none"
                THEN Throw(r, refusal)
                ELSE /\ seen' = [seen EXCEPT ![r] = status]
                     /\ Goto(r, "cancel_write")
                     /\ UNCHANGED <<store, req, newSeats, audited, result>>
           /\ UNCHANGED <<eventLock, userLock, userShare>>

(* a mistake: the audit row is written before the counter *)
CancelWriteAudited(r) ==
  /\ pc[r] = "cancel_write"
  /\ Goto(r, "cancel_seat")
  /\ audited' = [audited EXCEPT ![r] = TRUE]
  /\ UNCHANGED <<store, locks, req, seen, newSeats, result>>

(* UPDATE bookings SET status = 'cancelled', on the row already locked *)
CancelWrite(r) ==
  /\ pc[r] = "cancel_write"
  /\ Goto(r, "cancel_seat")
  /\ UNCHANGED <<store, locks, req, local>>

(* UPDATE events SET seats_taken = GREATEST(seats_taken - 1, 0) *)
CancelSeat(r) ==
  /\ pc[r] = "cancel_seat"
  /\ Free(eventLock[Event(r)], r)
  /\ eventLock' = [eventLock EXCEPT ![Event(r)] = r]
  /\ newSeats' = [newSeats EXCEPT ![r] =
                    IF seats[Event(r)] = 0 THEN 0 ELSE seats[Event(r)] - 1]
  /\ Goto(r, "audit")
  /\ UNCHANGED <<store, bookingLock, userLock, userShare, req, seen,
                 audited, result>>

-----------------------------------------------------------------------------
(* auditService.record, then the end of withTransaction *)

FinishAudit(r) ==
  /\ Goto(r, AfterAudit[Op(r)])
  /\ result' = [result EXCEPT ![r] =
                  IF AfterAudit[Op(r)] = "done" THEN "ok" ELSE @]
  /\ UNCHANGED <<store, locks, req, seen, newSeats>>

(* INSERT INTO audit_logs on a connection of its own.  Its foreign key to the
   actor waits for a DELETE of that users row; an actor without a row makes
   the INSERT fail, which record() swallows. *)
AuditInsert(r) ==
  /\ pc[r] = "audit"
  /\ userLock[Actor(r)] = Nobody
  /\ audited' = [audited EXCEPT ![r] = Actor(r) \in users]
  /\ FinishAudit(r)

(* No connection within connectionTimeoutMillis, or a broken one: swallowed *)
AuditLost(r) ==
  /\ pc[r] = "audit"
  /\ FinishAudit(r)
  /\ UNCHANGED audited

(* COMMIT: the pending booking and the pending counter appear together *)
Commit(r) ==
  /\ pc[r] = "commit"
  /\ booking' = [booking EXCEPT ![Event(r)][Owner(r)] =
                   IF Op(r) = "book" THEN "confirmed" ELSE "cancelled"]
  /\ seats' = [seats EXCEPT ![Event(r)] = newSeats[r]]
  /\ ReleaseLocks(r)
  /\ Goto(r, "done")
  /\ result' = [result EXCEPT ![r] = "ok"]
  /\ UNCHANGED <<eventRow, capacity, users, req, seen, newSeats, audited>>

(* ROLLBACK in the catch of withTransaction *)
Rollback(r) ==
  /\ pc[r] = "rollback"
  /\ ReleaseLocks(r)
  /\ Goto(r, "done")
  /\ UNCHANGED <<store, req, local>>

-----------------------------------------------------------------------------
(* eventService: create, update and remove run outside a transaction, each
   statement commits by itself. *)

(* eventService.assertCanManage *)
MayManage(r) == Organizer[Event(r)] = Actor(r) \/ Actor(r) \in Admins

(* findById and assertCanManage of update and remove: a read without a lock *)
ManageFind(r, at, next) ==
  /\ pc[r] = at
  /\ CASE eventRow[Event(r)] # "live" -> Throw(r, "not_found")
       [] eventRow[Event(r)] = "live" /\ ~MayManage(r) -> Throw(r, "forbidden")
       [] eventRow[Event(r)] = "live" /\ MayManage(r) ->
            /\ Goto(r, next)
            /\ UNCHANGED <<store, req, local>>
  /\ UNCHANGED locks

UpdateFind(r) == ManageFind(r, "update_find", "update_write")
RemoveFind(r) == ManageFind(r, "remove_find", "remove_lock")

(* INSERT INTO events: the id is new, the organizer must be a users row *)
CreateEvent(r) ==
  /\ pc[r] = "create_write"
  /\ eventRow[Event(r)] = "fresh"
  /\ Free(userLock[Actor(r)], r)
  /\ IF Actor(r) \notin users
       THEN DatabaseError(r)
       ELSE /\ eventRow' = [eventRow EXCEPT ![Event(r)] = "live"]
            /\ \E c \in Capacities : capacity' = [capacity EXCEPT ![Event(r)] = c]
            /\ seats' = [seats EXCEPT ![Event(r)] = 0]
            /\ Goto(r, "audit")
            /\ UNCHANGED <<booking, users, locks, req, local>>

(* UPDATE events SET capacity = ...: no row matches once the event has gone,
   which the code takes for success; CHECK (seats_taken <= capacity) refuses
   a capacity below the seats taken. *)
UpdateEvent(r) ==
  /\ pc[r] = "update_write"
  /\ \/ /\ eventRow[Event(r)] # "live"
        /\ Goto(r, "audit")
        /\ UNCHANGED <<store, locks, req, local>>
     \/ /\ eventRow[Event(r)] = "live"
        /\ Free(eventLock[Event(r)], r)
        /\ \E c \in Capacities :
             IF c < seats[Event(r)]
               THEN DatabaseError(r)
               ELSE /\ capacity' = [capacity EXCEPT ![Event(r)] = c]
                    /\ Goto(r, "audit")
                    /\ UNCHANGED <<eventRow, seats, booking, users, locks, req,
                                   local>>

-----------------------------------------------------------------------------
(* DELETE FROM events and DELETE FROM users: the statement locks its row, then
   one by one the rows ON DELETE CASCADE leads to, and deletes them all. *)

(* the events rows a deletion takes with it *)
DoomedEvents(r) ==
  {e \in Events : /\ eventRow[e] = "live"
                  /\ \/ Op(r) = "remove_event" /\ e = Event(r)
                     \/ Op(r) = "delete_account" /\ Organizer[e] = Actor(r)}

(* a mistake: bookings without ON DELETE CASCADE to users *)
DoomedUsersOfEvents(r, e) ==
  {u \in Users : booking[e][u] # "none" /\ e \in DoomedEvents(r)}

(* the users of the bookings rows of event e that it takes with it *)
DoomedUsers(r, e) ==
  {u \in Users : /\ booking[e][u] # "none"
                 /\ \/ e \in DoomedEvents(r)
                    \/ Op(r) = "delete_account" /\ u = Actor(r)}

(* DELETE FROM events WHERE id = $1 *)
RemoveLockEvent(r) ==
  /\ pc[r] = "remove_lock"
  /\ \/ /\ eventRow[Event(r)] # "live"
        /\ Goto(r, "audit")
        /\ UNCHANGED locks
     \/ /\ eventRow[Event(r)] = "live"
        /\ Free(eventLock[Event(r)], r)
        /\ eventLock' = [eventLock EXCEPT ![Event(r)] = r]
        /\ Goto(r, "cascade")
        /\ UNCHANGED <<bookingLock, userLock, userShare>>
  /\ UNCHANGED <<store, req, local>>

(* DELETE FROM users WHERE id = $1 *)
EraseLockUser(r) ==
  /\ pc[r] = "erase_lock"
  /\ \/ /\ Actor(r) \notin users
        /\ Goto(r, "done")
        /\ result' = [result EXCEPT ![r] = "ok"]
        /\ UNCHANGED <<locks, seen, newSeats, audited>>
     \/ /\ Actor(r) \in users
        /\ Free(userLock[Actor(r)], r)
        /\ userShare[Actor(r)] = {}
        /\ userLock' = [userLock EXCEPT ![Actor(r)] = r]
        /\ Goto(r, "cascade")
        /\ UNCHANGED <<eventLock, bookingLock, userShare, local>>
  /\ UNCHANGED <<store, req>>

CascadeLock(r) ==
  /\ pc[r] = "cascade"
  /\ \E e \in Events :
       \/ /\ e \in DoomedEvents(r)
          /\ eventLock[e] = Nobody
          /\ eventLock' = [eventLock EXCEPT ![e] = r]
          /\ UNCHANGED bookingLock
       \/ \E u \in DoomedUsers(r, e) :
            /\ e \in DoomedEvents(r) => eventLock[e] = r
            /\ bookingLock[e][u] = Nobody
            /\ bookingLock' = [bookingLock EXCEPT ![e][u] = r]
            /\ UNCHANGED eventLock
  /\ UNCHANGED <<store, userLock, userShare, pc, req, local>>

CascadeDelete(r) ==
  /\ pc[r] = "cascade"
  /\ \A e \in Events :
       /\ e \in DoomedEvents(r) => eventLock[e] = r
       /\ \A u \in DoomedUsers(r, e) : bookingLock[e][u] = r
  /\ eventRow' = [e \in Events |->
                    IF e \in DoomedEvents(r) THEN "gone" ELSE eventRow[e]]
  /\ booking' = [e \in Events |-> [u \in Users |->
                    IF u \in DoomedUsers(r, e) THEN "none" ELSE booking[e][u]]]
  /\ users' = IF Op(r) = "delete_account" THEN users \ {Actor(r)} ELSE users
  /\ ReleaseLocks(r)
  /\ Goto(r, IF Op(r) = "delete_account" THEN "done" ELSE "audit")
  /\ result' = [result EXCEPT ![r] =
                  IF Op(r) = "delete_account" THEN "ok" ELSE @]
  /\ UNCHANGED <<capacity, seats, req, seen, newSeats, audited>>

-----------------------------------------------------------------------------
(* What PostgreSQL does by itself. *)

(* The requests whose locks the next statement of r must wait for, as far as
   PostgreSQL sees: the audit row is written on another connection, so a
   transaction that waits for it looks idle. *)
BlockedBy(r) ==
  (CASE pc[r] \in {"book_lock", "book_seat", "cancel_seat", "update_write",
                   "remove_lock"} ->
          {eventLock[Event(r)]}
     [] pc[r] = "book_write" /\ seen[r] = "none" ->
          {bookingLock[Event(r)][Owner(r)], userLock[Actor(r)]}
     [] pc[r] = "book_write" /\ seen[r] # "none" ->
          {bookingLock[Event(r)][Owner(r)]}
     [] pc[r] = "cancel_lock" /\ booking[Event(r)][Owner(r)] # "none" ->
          {bookingLock[Event(r)][Owner(r)]}
     [] pc[r] = "create_write" ->
          {userLock[Actor(r)]}
     [] pc[r] = "erase_lock" ->
          {userLock[Actor(r)]} \cup userShare[Actor(r)]
     [] pc[r] = "cascade" ->
          {eventLock[e] : e \in DoomedEvents(r)}
            \cup UNION {{bookingLock[e][u] : u \in DoomedUsers(r, e)} : e \in Events}
     [] OTHER -> {}) \ {Nobody, r}

(* requests that wait for each other in a circle *)
Knot(S) == S # {} /\ \A r \in S : BlockedBy(r) \cap S # {}

(* the deadlock detector breaks a smallest circle by failing one of them *)
DeadlockAbort(r) ==
  /\ \E S \in SUBSET Requests :
       /\ r \in S
       /\ Knot(S)
       /\ \A T \in SUBSET S : Knot(T) => T = S
  /\ DatabaseError(r)

(* The connection breaks or the server process dies: whatever is not
   committed is undone, and the client gets no answer of this request. *)
Lose(r) ==
  /\ pc[r] \notin {"idle", "done"}
  /\ ReleaseLocks(r)
  /\ Goto(r, "done")
  /\ result' = [result EXCEPT ![r] = "lost"]
  /\ UNCHANGED <<store, req, seen, newSeats, audited>>

-----------------------------------------------------------------------------

Book(r) == \/ BookLockEvent(r) \/ BookLook(r) \/ BookReactivate(r)
           \/ BookInsert(r) \/ BookSeat(r)
Cancel(r) == CancelLockBooking(r) \/ CancelWrite(r) \/ CancelSeat(r)
Manage(r) == \/ CreateEvent(r)
             \/ UpdateFind(r) \/ UpdateEvent(r)
             \/ RemoveFind(r) \/ RemoveLockEvent(r)
Erase(r) == EraseLockUser(r) \/ CascadeLock(r) \/ CascadeDelete(r)
Finish(r) == AuditInsert(r) \/ Commit(r) \/ Rollback(r)

(* what the server and the database do on their own *)
Proceed(r) == Book(r) \/ Cancel(r) \/ Manage(r) \/ Erase(r) \/ Finish(r)
                \/ DeadlockAbort(r)

Next == \E r \in Requests :
          Start(r) \/ Proceed(r) \/ AuditLost(r) \/ Lose(r) \/ Reply(r)

Spec == Init /\ [][Next]_vars

(* Node runs every request to its end and PostgreSQL serves the waiters of a
   row lock in the order they came, so a request that can go on again and
   again does go on.  Nothing forces a request to arrive, an audit row or a
   connection to be lost. *)
FairSpec == Spec /\ \A r \in Requests : SF_vars(Proceed(r))

-----------------------------------------------------------------------------
(* Properties. *)

(* Types of the tables, of the locks and of the requests in flight. *)
TablesTyped ==
  /\ eventRow \in [Events -> {"fresh", "live", "gone"}]
  /\ capacity \in [Events -> Capacities]
  /\ seats \in [Events -> Nat]
  /\ booking \in [Events -> [Users -> Statuses]]
  /\ users \in SUBSET Users
LocksTyped ==
  /\ eventLock \in [Events -> Requests \cup {Nobody}]
  /\ bookingLock \in [Events -> [Users -> Requests \cup {Nobody}]]
  /\ userLock \in [Users -> Requests \cup {Nobody}]
  /\ userShare \in [Users -> SUBSET Requests]
RequestsTyped ==
  /\ pc \in [Requests -> Pcs]
  /\ req \in [Requests -> Workload \cup {NoRequest}]
  /\ \A r \in Requests : req[r] = NoRequest <=> pc[r] = "idle"
  /\ seen \in [Requests -> Statuses]
  /\ newSeats \in [Requests -> Nat]
  /\ audited \in [Requests -> BOOLEAN]
  /\ result \in [Requests -> Results]
TypeOK == TablesTyped /\ LocksTyped /\ RequestsTyped

(* An event never has more confirmed bookings than seats_taken, nor a
   seats_taken above its capacity: no interleaving of book, cancel, update
   and the deletions oversells (bookingService.js:14-17). *)
NeverOversold ==
  \A e \in Events : eventRow[e] = "live" =>
    /\ Cardinality(Confirmed(e)) <= seats[e]
    /\ seats[e] <= capacity[e]

(* As long as no account has been deleted, seats_taken is exactly the number
   of confirmed bookings: book and cancel lose no seat and free none twice,
   whoever commits first, fails or loses its connection. *)
SeatsCountBookings ==
  users = Users => \A e \in Events :
    eventRow[e] = "live" => seats[e] = Cardinality(Confirmed(e))

(* The free seat a booking saw under its lock is still free when it takes it:
   seats_within_capacity is never what stops a booking. *)
SeatStillFree ==
  \A r \in Requests : pc[r] \in {"book_look", "book_write", "book_seat"} =>
    /\ eventRow[Event(r)] = "live"
    /\ seats[Event(r)] < capacity[Event(r)]

(* book locks the event and then the booking, cancel the booking and then the
   event; still no circle of waiting requests is without a deletion. *)
OnlyDeletionsDeadlock ==
  \A S \in SUBSET Requests :
    Knot(S) => \E r \in S : pc[r] = "cascade"

(* In a workload without deletions the database refuses no statement of book
   or cancel (unique index, CHECK, foreign key, deadlock) and no row they
   selected vanishes: the client never gets a 500 from them. *)
NoDeletions == \A w \in Workload : w.op \notin {"remove_event", "delete_account"}
BookAndCancelNeverFail ==
  NoDeletions => \A r \in Requests :
    result[r] = "error" => Op(r) \notin {"book", "cancel"}

(* An audit row for a booking or a cancellation is written only when nothing
   but a lost connection can undo it any more. *)
AuditHonest ==
  \A r \in Requests :
    audited[r] /\ Op(r) \in {"book", "cancel"} =>
      pc[r] = "commit" \/ result[r] \in {"ok", "lost"}

(* Every request comes to its end. *)
EveryRequestEnds ==
  \A r \in Requests : pc[r] # "idle" ~> pc[r] \in {"done", "idle"}

(* The committed tables behave as the ledger: whatever requests interleave,
   fail or are lost, a seat and its booking change together and alone. *)
Ledger == INSTANCE SeatLedger WITH
            confirmed <- [e \in Events |-> Confirmed(e)]
LedgerSpec == Ledger!Spec
=============================================================================
