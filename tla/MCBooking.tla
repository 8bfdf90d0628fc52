----------------------------- MODULE MCBooking -----------------------------
(* Small instances of Booking for TLC: two or three users, one of them an
   admin, one or two events organised by different users. *)
EXTENDS BookingInvariant, TLC

CONSTANTS u1, u2, u3, e1, e2, r1, r2, r3

MCOrganizer == [e \in Events |-> IF e = e1 THEN u1 ELSE u2]

RequestsOf(op) ==
  {w \in RequestData :
     /\ w.op = op
     /\ op # "cancel" => w.owner = w.actor
     /\ op = "create_event" => w.actor = MCOrganizer[w.event]
     (* the event of a deletion of an account is not used: keep one *)
     /\ op = "delete_account" => w.event = e1}

BookingWorkload == RequestsOf("book") \cup RequestsOf("cancel")
                     \cup {w \in RequestsOf("update_event") : w.actor = u1}
DeletionWorkload == RequestsOf("book") \cup RequestsOf("remove_event")
                      \cup {w \in RequestsOf("cancel") : w.actor = w.owner}
                      \cup RequestsOf("delete_account")
LifecycleWorkload == DeletionWorkload \cup RequestsOf("create_event")
                       \cup RequestsOf("update_event") \cup RequestsOf("cancel")

(* u2 books and cancels, u1 removes the event: every circle of waiting
   requests is one PostgreSQL sees *)
ProgressWorkload ==
  {w \in RequestsOf("book") \cup RequestsOf("cancel") : w.owner = u2 /\ w.actor = u2}
    \cup {w \in RequestsOf("remove_event") : w.actor = u1}

RequestSymmetry == Permutations(Requests)
=============================================================================
