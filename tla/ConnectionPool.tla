--------------------------- MODULE ConnectionPool ---------------------------
(***************************************************************************)
(* The connection pool (config/db.js) under the requests that use it most: *)
(* transactions, whose audit row asks for a second connection, and the     *)
(* export of a profile, which asks for three at once; and the shutdown     *)
(* (server.js).  What the statements read and write is left to Booking.    *)
(*                                                                         *)
(* pg-pool: a client is given out while fewer than `max` are; further      *)
(* askers wait in a queue, and get an error after connectionTimeoutMillis; *)
(* after end() nobody gets one, and whoever asks gets an error at once.    *)
(***************************************************************************)
EXTENDS Naturals, Sequences, FiniteSets

CONSTANTS
  Jobs,   \* request slots
  NoJob,
  Max     \* max of the pool

ASSUME MaxTyped == Max \in Nat \ {0}
ASSUME NoJobIsNoJob == NoJob \notin Jobs

VARIABLES
  pc,        \* what a request is at
  pool,      \* the clients given out and the queue of those who wait
  lock,      \* the transaction that holds the row of the event, FOR UPDATE
  left,      \* queries of exports that were answered without them
  connected, \* while the server closes: the requests whose connection is still open
  phase,     \* of the server
  forced     \* it was ended by the timer

server == <<connected, phase, forced>>
vars == <<pc, pool, lock, left, server>>

(* Clients are asked for by a request j for its slot s: 1 the transaction, 2 its audit
   row; 1 to 3 the queries of an export. *)
Slots == 1..3
Asks  == Jobs \X Slots

TxPcs == {"connect", "begin", "select", "audit", "commit", "rollback"}
ExportPcs == {"find", "all", "record"}

NoClients == [held |-> {}, waiting |-> <<>>]

Init ==
  /\ pc = [j \in Jobs |-> "idle"]
  /\ pool = NoClients
  /\ lock = NoJob
  /\ left = {} /\ connected = {}
  /\ phase = "up" /\ forced = FALSE

-----------------------------------------------------------------------------
(* pg-pool *)

Asked(p, a) == IF Cardinality(p.held) < Max
               THEN [p EXCEPT !.held = @ \cup {a}]
               ELSE [p EXCEPT !.waiting = Append(@, a)]

(* the first that waits gets the client, unless the pool is ending *)
Released(p, a) == IF p.waiting = <<>> \/ phase = "ending"
                  THEN [p EXCEPT !.held = @ \ {a}]
                  ELSE [held |-> (p.held \ {a}) \cup {Head(p.waiting)}, waiting |-> Tail(p.waiting)]

Withdrawn(p, a) ==
  LET i == CHOOSE i \in DOMAIN p.waiting : p.waiting[i] = a IN
  [p EXCEPT !.waiting = [n \in 1..Len(@) - 1 |-> IF n < i THEN @[n] ELSE @[n + 1]]]

Waits(a) == \E i \in DOMAIN pool.waiting : pool.waiting[i] = a
Holds(a) == a \in pool.held

Goto(j, next) == pc' = [pc EXCEPT ![j] = next]

(* query of the pool: a client for one statement *)
Ask(a)    == pool' = Asked(pool, a)
Return(a) == pool' = Released(pool, a)

-----------------------------------------------------------------------------
(* withTransaction, as book and cancel use it *)

(* A server that closes takes no new connections, but requests over those it has. *)
Free(j) ==
  /\ pc[j] = "idle" /\ \A s \in Slots : <<j, s>> \notin left
  /\ phase = "up" \/ (phase = "closing" /\ j \in connected)


StartTransaction(j) ==
  /\ Free(j)
  /\ Goto(j, "connect")
  /\ Ask(<<j, 1>>)
  /\ UNCHANGED <<lock, left, server>>

Connected(j) ==
  /\ pc[j] = "connect" /\ Holds(<<j, 1>>)
  /\ Goto(j, "begin")
  /\ UNCHANGED <<pool, lock, left, server>>

(* a statement of the transaction fails, or its callback throws *)
Begin(j) ==
  /\ pc[j] = "begin"
  /\ Goto(j, "select") \/ Goto(j, "rollback")
  /\ UNCHANGED <<pool, lock, left, server>>

(* SELECT ... FOR UPDATE and the writes after it; then the audit row asks, and goes without
   when the pool is ending: record catches the error *)
Select(j) ==
  /\ pc[j] = "select" /\ lock = NoJob
  /\ lock' = j
  /\ \/ phase # "ending" /\ Goto(j, "audit")  /\ Ask(<<j, 2>>)
     \/ phase = "ending" /\ Goto(j, "commit") /\ UNCHANGED pool
     \/ Goto(j, "rollback") /\ UNCHANGED pool
  /\ UNCHANGED <<left, server>>

(* record: written or not, the request goes on *)
Audited(j) ==
  /\ pc[j] = "audit" /\ Holds(<<j, 2>>)
  /\ Goto(j, "commit")
  /\ Return(<<j, 2>>)
  /\ UNCHANGED <<lock, left, server>>

Unlock(j) == lock' = IF lock = j THEN NoJob ELSE lock

(* finally: the client is released *)
Finally(j) ==
  /\ Goto(j, "idle")
  /\ Unlock(j)
  /\ Return(<<j, 1>>)

Commit(j) ==
  /\ pc[j] = "commit"
  /\ \/ Finally(j)
     \/ Goto(j, "rollback") /\ UNCHANGED <<pool, lock>>
  /\ UNCHANGED <<left, server>>

(* a mistake: released after the ROLLBACK, and so not when that throws *)
RollbackThenRelease(j) ==
  /\ pc[j] = "rollback"
  /\ Goto(j, "idle")
  /\ Unlock(j)
  /\ Return(<<j, 1>>) \/ UNCHANGED pool
  /\ UNCHANGED <<left, server>>

(* a mistake: the client goes back with its transaction open *)
ReleaseWithoutRollback(j) ==
  /\ pc[j] = "rollback"
  /\ Goto(j, "idle")
  /\ Return(<<j, 1>>)
  /\ UNCHANGED <<lock, left, server>>

(* the ROLLBACK may throw in its turn: PostgreSQL has rolled back when the connection broke *)
Rollback(j) ==
  /\ pc[j] = "rollback"
  /\ Finally(j)
  /\ UNCHANGED <<left, server>>

-----------------------------------------------------------------------------
(* exportData *)

StartExport(j) ==
  /\ Free(j)
  /\ Goto(j, "find")
  /\ Ask(<<j, 1>>)
  /\ UNCHANGED <<lock, left, server>>

(* findById: no user, or the three queries of Promise.all, which a pool that is ending
   rejects *)
Found(j) ==
  /\ pc[j] = "find" /\ Holds(<<j, 1>>)
  /\ LET p == Released(pool, <<j, 1>>) IN
       \/ Goto(j, "idle") /\ pool' = p
       \/ /\ phase # "ending"
          /\ Goto(j, "all")
          /\ pool' = Asked(Asked(Asked(p, <<j, 1>>), <<j, 2>>), <<j, 3>>)
  /\ UNCHANGED <<lock, left, server>>

Pending(j) == {<<j, s>> : s \in {s \in Slots : Holds(<<j, s>>) \/ Waits(<<j, s>>)}}

(* one of them is answered; after the last the audit row asks, or goes without *)
PartDone(j, s) ==
  /\ pc[j] = "all" /\ Holds(<<j, s>>)
  /\ LET p == Released(pool, <<j, s>>) IN
       \/ /\ Pending(j) # {<<j, s>>}
          /\ UNCHANGED pc /\ pool' = p
       \/ /\ Pending(j) = {<<j, s>>} /\ phase # "ending"
          /\ Goto(j, "record") /\ pool' = Asked(p, <<j, 1>>)
       \/ /\ Pending(j) = {<<j, s>>} /\ phase = "ending"
          /\ Goto(j, "idle") /\ pool' = p
  /\ UNCHANGED <<lock, left, server>>

(* one fails: Promise.all rejects, the others go on *)
Reject(j, s) ==
  /\ Goto(j, "idle")
  /\ left' = left \cup (Pending(j) \ {<<j, s>>})

PartFails(j, s) ==
  /\ pc[j] = "all" /\ Holds(<<j, s>>)
  /\ Reject(j, s)
  /\ Return(<<j, s>>)
  /\ UNCHANGED <<lock, server>>

LeftDone(a) ==
  /\ a \in left /\ Holds(a)
  /\ left' = left \ {a}
  /\ Return(a)
  /\ UNCHANGED <<pc, lock, server>>

Recorded(j) ==
  /\ pc[j] = "record" /\ Holds(<<j, 1>>)
  /\ Goto(j, "idle")
  /\ Return(<<j, 1>>)
  /\ UNCHANGED <<lock, left, server>>

-----------------------------------------------------------------------------
(* connectionTimeoutMillis *)

(* record catches the error *)
AuditGoesOn(j) == /\ Goto(j, IF pc[j] = "audit" THEN "commit" ELSE "idle")
                  /\ UNCHANGED left

(* a mistake: the pool has no timeout *)
WaitForEver(a) == FALSE

Timeout(a) ==
  /\ Waits(a)
  /\ pool' = Withdrawn(pool, a)
  /\ \/ /\ a \in left
        /\ left' = left \ {a}
        /\ UNCHANGED pc
     \/ /\ a \notin left /\ pc[a[1]] \in {"connect", "find"}
        /\ Goto(a[1], "idle")
        /\ UNCHANGED left
     \/ /\ a \notin left /\ pc[a[1]] \in {"audit", "record"}
        /\ AuditGoesOn(a[1])
     \/ /\ a \notin left /\ pc[a[1]] = "all"
        /\ Reject(a[1], a[2])
  /\ UNCHANGED <<lock, server>>

-----------------------------------------------------------------------------
(* shutdown *)

(* SIGTERM, SIGINT: no new connections.  Some of the clients have gone before, and a
   connection may be open that has no request. *)
Shutdown ==
  /\ phase = "up"
  /\ phase' = "closing" /\ connected' \in SUBSET Jobs
  /\ UNCHANGED <<pc, pool, lock, left, forced>>

(* the client goes, or its idle connection is closed; a handler goes on without it *)
Disconnect(j) ==
  /\ j \in connected
  /\ connected' = connected \ {j}
  /\ UNCHANGED <<pc, pool, lock, left, phase, forced>>

(* server.close calls back when every connection is closed, whoever is still at work:
   pool.end() *)
EndPool ==
  /\ phase = "closing" /\ connected = {}
  /\ phase' = "ending"
  /\ UNCHANGED <<pc, pool, lock, left, connected, forced>>

(* what a process leaves behind when it ends: nothing; PostgreSQL rolls back *)
Stopped ==
  /\ phase' = "down"
  /\ pc' = [j \in Jobs |-> "idle"]
  /\ pool' = NoClients /\ lock' = NoJob /\ left' = {} /\ connected' = {}

(* pool.end() waits for the clients that are out, not for those who wait for one; exit(0) *)
Exit ==
  /\ phase = "ending" /\ pool.held = {}
  /\ Stopped
  /\ UNCHANGED forced

(* the timer: exit(1) *)
ForceExit ==
  /\ phase \in {"closing", "ending"}
  /\ Stopped
  /\ forced' = TRUE

Restart ==
  /\ phase = "down"
  /\ phase' = "up" /\ forced' = FALSE
  /\ UNCHANGED <<pc, pool, lock, left, connected>>

-----------------------------------------------------------------------------

Statement(j) ==
  \/ Connected(j) \/ Begin(j) \/ Select(j) \/ Audited(j) \/ Commit(j) \/ Rollback(j)
  \/ Found(j) \/ Recorded(j)
  \/ \E s \in Slots : PartDone(j, s) \/ PartFails(j, s) \/ LeftDone(<<j, s>>)

Next ==
  \/ \E j \in Jobs : StartTransaction(j) \/ StartExport(j) \/ Statement(j) \/ Disconnect(j)
  \/ \E a \in Asks : Timeout(a)
  \/ Shutdown \/ EndPool \/ Exit \/ ForceExit \/ Restart

(* PostgreSQL answers, timers fire, a lock that is released again and again is got at some
   time, and the promise of pool.end() is settled.  Nothing forces the timer of shutdown. *)
Fairness == /\ \A j \in Jobs : WF_vars(Statement(j)) /\ SF_vars(Select(j))
            /\ \A a \in Asks : WF_vars(Timeout(a))
            /\ WF_vars(Exit)

Spec == Init /\ [][Next]_vars /\ Fairness

-----------------------------------------------------------------------------
TypeOK ==
  /\ pc \in [Jobs -> {"idle"} \cup TxPcs \cup ExportPcs]
  /\ pool \in [held : SUBSET Asks, waiting : Seq(Asks)]
  /\ Cardinality(pool.held) <= Max
  /\ lock \in Jobs \cup {NoJob}
  /\ left \subseteq Asks /\ connected \subseteq Jobs
  /\ phase \in {"up", "closing", "ending", "down"}
  /\ forced \in BOOLEAN

(* No client leaks: whoever holds one is a transaction between connect and release, a
   query under way, or one an export was answered without. *)
NoClientLeaks ==
  \A j \in Jobs, s \in Slots :
    <<j, s>> \in pool.held =>
      \/ s = 1 /\ pc[j] \in TxPcs \cup {"find", "record"}
      \/ s = 2 /\ pc[j] = "audit"
      \/ pc[j] = "all"
      \/ <<j, s>> \in left

(* A transaction is over, and its row unlocked, when its request is: whatever fails,
   the lock is held by a request that is still at work on its client. *)
LockHasAClient ==
  lock # NoJob => pc[lock] \in {"audit", "commit", "rollback"} /\ <<lock, 1>> \in pool.held

(* exit(0) cuts no transaction: those that go on after their client has gone and the pool
   has ended, with no second connection to be had, have committed or rolled back, and their
   rows are unlocked, when pool.end() is settled. *)
ExitCutsNoTransaction ==
  [][phase = "ending" /\ phase' = "down" /\ ~forced' =>
       lock = NoJob /\ \A j \in Jobs : pc[j] \notin TxPcs \ {"connect"}]_vars

(* "drain the DB pool" (server.js:14): once the pool is ended the process exits by itself,
   without the timer for a cleanup that hangs (server.js:21).  No client is kept for ever,
   by a transaction, by one that waits for the row of another, or by what a rejected
   Promise.all left. *)
DrainEnds == phase = "ending" ~> phase = "down"

(* Every request is answered, though transactions that hold every client wait for one
   more each: the timeout lets them go. *)
EveryRequestEnds == \A j \in Jobs : pc[j] # "idle" ~> pc[j] = "idle"
=============================================================================
