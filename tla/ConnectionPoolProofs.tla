------------------------- MODULE ConnectionPoolProofs -------------------------
(***************************************************************************)
(* Proofs about ConnectionPool, for any number of requests and any size of *)
(* the pool.  The inductive invariant says who may have asked for a client *)
(* (Owned), beside what each of the properties says.                       *)
(***************************************************************************)
EXTENDS ConnectionPool, FiniteSetTheorems, TLAPS

(* Ask a has been made of pool p and is not over. *)
In(p, a) == a \in p.held \/ \E i \in 1..Len(p.waiting) : p.waiting[i] = a

(* Nobody waits twice, or waits for what it holds. *)
PoolOK(p) ==
  /\ p \in [held : SUBSET Asks, waiting : Seq(Asks)]
  /\ IsFiniteSet(p.held) /\ Cardinality(p.held) <= Max
  /\ \A i, k \in 1..Len(p.waiting) : p.waiting[i] = p.waiting[k] => i = k
  /\ \A i \in 1..Len(p.waiting) : p.waiting[i] \notin p.held

Pcs == {"idle"} \cup TxPcs \cup ExportPcs

Justified(j, s) ==
  \/ s = 1 /\ pc[j] \in TxPcs \cup {"find", "record"}
  \/ s = 2 /\ pc[j] = "audit"
  \/ pc[j] = "all"
  \/ <<j, s>> \in left

Owned == \A j \in Jobs, s \in Slots : In(pool, <<j, s>>) => Justified(j, s)
LeftIdle == \A j \in Jobs, s \in Slots : <<j, s>> \in left => pc[j] = "idle"
InTransaction == {"begin", "select", "audit", "commit", "rollback"}
HasAClient == \A j \in Jobs : pc[j] \in InTransaction => <<j, 1>> \in pool.held
Locked == lock # NoJob => pc[lock] \in {"audit", "commit", "rollback"}
DownIsEmpty ==
  phase = "down" => pool = NoClients /\ left = {} /\ \A j \in Jobs : pc[j] = "idle"

Simple ==
  /\ pc \in [Jobs -> Pcs]
  /\ lock \in Jobs \cup {NoJob}
  /\ left \subseteq Asks /\ connected \subseteq Jobs
  /\ phase \in {"up", "closing", "ending", "down"}
  /\ forced \in BOOLEAN

PInv == Simple /\ PoolOK(pool) /\ Owned /\ LeftIdle /\ HasAClient /\ Locked /\ DownIsEmpty

-----------------------------------------------------------------------------
(* The operations of pg-pool *)

LEMMA NobodyAsked == PoolOK(NoClients) /\ \A a : ~In(NoClients, a)
<1>1. NoClients \in [held : SUBSET Asks, waiting : Seq(Asks)] /\ Len(NoClients.waiting) = 0
  BY DEF NoClients
<1>2. NoClients.held = {} /\ IsFiniteSet(NoClients.held) /\ Cardinality(NoClients.held) <= Max
  BY FS_EmptySet, MaxTyped DEF NoClients
<1> QED BY <1>1, <1>2 DEF PoolOK, In

(* A new ask is served or waits; nothing else changes. *)
LEMMA AskedOK ==
  ASSUME NEW p, PoolOK(p), NEW a \in Asks, ~In(p, a)
  PROVE  /\ PoolOK(Asked(p, a))
         /\ p.held \subseteq Asked(p, a).held
         /\ \A b : In(Asked(p, a), b) => In(p, b) \/ b = a
<1> DEFINE q == Asked(p, a)
<1>0. /\ p \in [held : SUBSET Asks, waiting : Seq(Asks)]
      /\ Len(p.waiting) \in Nat
  BY DEF PoolOK
<1>1. CASE Cardinality(p.held) < Max
  <2>1. q = [p EXCEPT !.held = @ \cup {a}]
    BY <1>1 DEF Asked
  <2>2. q.held = p.held \cup {a} /\ q.waiting = p.waiting
        /\ q \in [held : SUBSET Asks, waiting : Seq(Asks)]
    BY <1>0, <2>1
  <2>3. IsFiniteSet(q.held) /\ Cardinality(q.held) <= Max
    <3>1. IsFiniteSet(p.held) /\ Cardinality(p.held) \in Nat
      BY FS_CardinalityType DEF PoolOK
    <3>2. a \notin p.held
      BY DEF In
    <3>3. IsFiniteSet(p.held \cup {a}) /\ Cardinality(p.held \cup {a}) = Cardinality(p.held) + 1
      BY <3>1, <3>2, FS_AddElement
    <3> QED BY <1>1, <2>2, <3>1, <3>3, MaxTyped
  <2> HIDE DEF q
  <2>4. PoolOK(q)
    BY <2>2, <2>3 DEF PoolOK, In
  <2> QED BY <2>2, <2>4 DEF In, q
<1>2. CASE ~(Cardinality(p.held) < Max)
  <2>1. q = [p EXCEPT !.waiting = Append(@, a)]
    BY <1>2 DEF Asked
  <2>2. q.held = p.held /\ q.waiting = Append(p.waiting, a)
        /\ q \in [held : SUBSET Asks, waiting : Seq(Asks)]
    BY <1>0, <2>1
  <2>3. /\ Len(q.waiting) = Len(p.waiting) + 1
        /\ q.waiting[Len(p.waiting) + 1] = a
        /\ \A i \in 1..Len(p.waiting) : q.waiting[i] = p.waiting[i]
    BY <1>0, <2>2
  <2> HIDE DEF q
  <2>4. PoolOK(q)
    BY <1>0, <2>2, <2>3 DEF PoolOK, In
  <2>5. \A b : In(q, b) => In(p, b) \/ b = a
    BY <1>0, <2>2, <2>3 DEF In
  <2> QED BY <2>2, <2>4, <2>5 DEF q
<1> QED BY <1>1, <1>2

(* A client that is given back is free, or goes to one that waited. *)
LEMMA ReleasedOK ==
  ASSUME NEW p, PoolOK(p), NEW a \in p.held
  PROVE  /\ PoolOK(Released(p, a))
         /\ p.held \ {a} \subseteq Released(p, a).held
         /\ \A b : In(Released(p, a), b) => In(p, b) /\ b # a
<1> DEFINE q == Released(p, a)
<1>0. /\ p \in [held : SUBSET Asks, waiting : Seq(Asks)]
      /\ Len(p.waiting) \in Nat
      /\ \A i \in 1..Len(p.waiting) : p.waiting[i] # a
  BY DEF PoolOK
<1>a. /\ IsFiniteSet(p.held \ {a}) /\ Cardinality(p.held \ {a}) = Cardinality(p.held) - 1
      /\ Cardinality(p.held) \in Nat /\ Cardinality(p.held \ {a}) \in Nat
  BY FS_RemoveElement, FS_CardinalityType DEF PoolOK
<1>1. CASE p.waiting = <<>> \/ phase = "ending"
  <2>1. q = [p EXCEPT !.held = @ \ {a}]
    BY <1>1 DEF Released
  <2>2. q.held = p.held \ {a} /\ q.waiting = p.waiting
        /\ q \in [held : SUBSET Asks, waiting : Seq(Asks)]
    BY <1>0, <2>1
  <2>3. IsFiniteSet(q.held) /\ Cardinality(q.held) <= Max
    BY <1>a, <2>2, MaxTyped DEF PoolOK
  <2> HIDE DEF q
  <2>4. PoolOK(q)
    BY <2>2, <2>3 DEF PoolOK
  <2> QED BY <1>0, <2>2, <2>4 DEF In, q
<1>2. CASE ~(p.waiting = <<>> \/ phase = "ending")
  <2>1. q = [held |-> (p.held \ {a}) \cup {Head(p.waiting)}, waiting |-> Tail(p.waiting)]
    BY <1>2 DEF Released
  <2>2. /\ Len(p.waiting) > 0
        /\ Head(p.waiting) = p.waiting[1] /\ Head(p.waiting) \in Asks
        /\ Tail(p.waiting) \in Seq(Asks)
        /\ Len(Tail(p.waiting)) = Len(p.waiting) - 1
        /\ \A i \in 1..Len(p.waiting) - 1 : Tail(p.waiting)[i] = p.waiting[i + 1]
    BY <1>0, <1>2
  <2>3. /\ q.held = (p.held \ {a}) \cup {p.waiting[1]}
        /\ q.waiting = Tail(p.waiting)
        /\ q \in [held : SUBSET Asks, waiting : Seq(Asks)]
    BY <1>0, <2>1, <2>2
  <2>4. IsFiniteSet(q.held) /\ Cardinality(q.held) <= Max
    <3>1. p.waiting[1] \notin p.held \ {a}
      BY <2>2 DEF PoolOK
    <3> DEFINE h == p.held \ {a}
    <3>0. IsFiniteSet(h) /\ p.waiting[1] \notin h
      BY <1>a, <3>1
    <3>a. IsFiniteSet(h \cup {p.waiting[1]}) /\ Cardinality(h \cup {p.waiting[1]}) = Cardinality(h) + 1
      <4> HIDE DEF h
      <4> QED BY <3>0, FS_AddElement
    <3>2. Cardinality(q.held) = Cardinality(h) + 1 /\ IsFiniteSet(q.held)
      BY <2>3, <3>a
    <3> QED BY <1>a, <3>2, MaxTyped DEF PoolOK
  <2> HIDE DEF q
  <2>5. PoolOK(q)
    <3>1. \A i, k \in 1..Len(q.waiting) : q.waiting[i] = q.waiting[k] => i = k
      BY <1>0, <2>2, <2>3 DEF PoolOK
    <3>2. \A i \in 1..Len(q.waiting) : q.waiting[i] \notin q.held
      BY <1>0, <2>2, <2>3 DEF PoolOK
    <3> QED BY <2>3, <2>4, <3>1, <3>2 DEF PoolOK
  <2>6. \A b : In(q, b) => In(p, b) /\ b # a
    BY <1>0, <2>2, <2>3 DEF In
  <2> QED BY <2>3, <2>5, <2>6 DEF q
<1> QED BY <1>1, <1>2

(* One that waited is taken out of the queue. *)
LEMMA WithdrawnOK ==
  ASSUME NEW p, PoolOK(p), NEW a, \E i \in DOMAIN p.waiting : p.waiting[i] = a
  PROVE  /\ PoolOK(Withdrawn(p, a))
         /\ Withdrawn(p, a).held = p.held
         /\ a \notin p.held
         /\ \A b : In(Withdrawn(p, a), b) => In(p, b) /\ b # a
<1> DEFINE i == CHOOSE i \in DOMAIN p.waiting : p.waiting[i] = a
           w == [n \in 1..Len(p.waiting) - 1 |-> IF n < i THEN p.waiting[n] ELSE p.waiting[n + 1]]
           q == Withdrawn(p, a)
<1>0. /\ p \in [held : SUBSET Asks, waiting : Seq(Asks)]
      /\ Len(p.waiting) \in Nat /\ DOMAIN p.waiting = 1..Len(p.waiting)
      /\ \A n \in 1..Len(p.waiting) : p.waiting[n] \in Asks
  BY DEF PoolOK
<1>1. i \in 1..Len(p.waiting) /\ p.waiting[i] = a
  BY <1>0
<1>2. q = [p EXCEPT !.waiting = w]
  BY DEF Withdrawn
<1> HIDE DEF i
<1>3. /\ Len(p.waiting) - 1 \in Nat
      /\ w \in [1..Len(p.waiting) - 1 -> Asks]
  BY <1>0, <1>1
<1>4. w \in Seq(Asks) /\ Len(w) = Len(p.waiting) - 1
  <2> DEFINE n == Len(p.waiting) - 1
  <2>1. n \in Nat /\ w \in [1..n -> Asks]
    BY <1>3
  <2> HIDE DEF w, n
  <2>2. w \in Seq(Asks) /\ Len(w) = n
    BY <2>1
  <2> QED BY <2>2 DEF n
<1>5. q.held = p.held /\ q.waiting = w /\ q \in [held : SUBSET Asks, waiting : Seq(Asks)]
  BY <1>0, <1>2, <1>4
<1>6. \A n \in 1..Len(w) :
        \E m \in 1..Len(p.waiting) : /\ w[n] = p.waiting[m] /\ m # i
                                     /\ m = IF n < i THEN n ELSE n + 1
  BY <1>0, <1>1, <1>4
<1> HIDE DEF w, q
<1>7. PoolOK(q)
  <2>1. \A n, k \in 1..Len(w) : w[n] = w[k] => n = k
    <3> SUFFICES ASSUME NEW n \in 1..Len(w), NEW k \in 1..Len(w), w[n] = w[k]
                 PROVE  n = k
      OBVIOUS
    <3>1. (IF n < i THEN n ELSE n + 1) = (IF k < i THEN k ELSE k + 1)
      BY <1>6 DEF PoolOK
    <3> QED BY <1>0, <1>1, <1>4, <3>1
  <2>2. \A n \in 1..Len(w) : w[n] \notin p.held
    BY <1>6 DEF PoolOK
  <2> QED BY <1>5, <2>1, <2>2 DEF PoolOK
<1>8. \A n \in 1..Len(w) : w[n] # a
  BY <1>1, <1>6 DEF PoolOK
<1>9. a \notin p.held
  BY <1>1 DEF PoolOK
<1>10. \A b : In(q, b) => In(p, b) /\ b # a
  BY <1>5, <1>6, <1>8, <1>9 DEF In
<1> QED BY <1>5, <1>7, <1>9, <1>10 DEF q

-----------------------------------------------------------------------------
(* What a step of request j has to do to keep the invariant *)

LEMMA Frame ==
  ASSUME PInv, NEW j \in Jobs, NEW x \in Pcs, pc' = [pc EXCEPT ![j] = x],
         UNCHANGED server,
         phase # "down",
         PoolOK(pool)',
         \A k \in Jobs, s \in Slots : k # j =>
           /\ In(pool', <<k, s>>) => In(pool, <<k, s>>)
           /\ <<k, s>> \in pool.held => <<k, s>> \in pool'.held
           /\ <<k, s>> \in left' <=> <<k, s>> \in left,
         left' \subseteq Asks,
         \A s \in Slots : /\ In(pool', <<j, s>>) => Justified(j, s)'
                          /\ <<j, s>> \in left' => x = "idle",
         x \in InTransaction => <<j, 1>> \in pool'.held,
         lock' \in {lock, j, NoJob},
         lock' = j => x \in {"audit", "commit", "rollback"}
  PROVE  PInv'
<1>1. Simple'
  BY DEF PInv, Simple, server
<1>2. pc'[j] = x /\ \A k \in Jobs : k # j => pc'[k] = pc[k]
  BY DEF PInv, Simple
<1>3. Owned'
  <2> SUFFICES ASSUME NEW k \in Jobs, NEW s \in Slots, k # j, In(pool', <<k, s>>)
               PROVE  Justified(k, s)'
    BY DEF Owned
  <2>1. Justified(k, s)
    BY DEF PInv, Owned
  <2> QED BY <1>2, <2>1 DEF Justified
<1>4. LeftIdle'
  BY <1>2 DEF PInv, LeftIdle
<1>5. HasAClient'
  <2>1. 1 \in Slots
    BY DEF Slots
  <2> QED BY <1>2, <2>1 DEF PInv, HasAClient
<1>6. Locked'
  BY <1>2 DEF PInv, Locked, Simple
<1>7. DownIsEmpty'
  BY <1>2 DEF PInv, DownIsEmpty, server
<1> QED BY <1>1, <1>3, <1>4, <1>5, <1>6, <1>7 DEF PInv

(* A free request has no ask under way. *)
LEMMA FreeAsksNothing ==
  ASSUME PInv, NEW j \in Jobs, NEW s \in Slots, In(pool, <<j, s>>)
  PROVE  ~Free(j)
BY DEF PInv, Owned, Justified, Free, TxPcs

(* Whoever is at work is of a server that is not down. *)
LEMMA Working ==
  ASSUME PInv, NEW j \in Jobs, pc[j] # "idle"
  PROVE  phase # "down" /\ \A s \in Slots : <<j, s>> \notin left
BY DEF PInv, DownIsEmpty, LeftIdle

LEMMA PairsDiffer ==
  /\ \A j, k \in Jobs, s, r \in Slots : <<j, s>> = <<k, r>> => j = k /\ s = r
  /\ \A j \in Jobs, s \in Slots : <<j, s>> \in Asks
  /\ 1 \in Slots /\ 2 \in Slots /\ 3 \in Slots
  /\ \A a \in Asks : a = <<a[1], a[2]>> /\ a[1] \in Jobs /\ a[2] \in Slots
BY DEF Asks, Slots

(* A request asks for its slot s, which it does not hold. *)
LEMMA AskStep ==
  ASSUME PInv, NEW j \in Jobs, NEW s \in Slots, ~In(pool, <<j, s>>), Ask(<<j, s>>)
  PROVE  /\ PoolOK(pool)'
         /\ pool.held \subseteq pool'.held
         /\ \A b : In(pool', b) => In(pool, b) \/ b = <<j, s>>
BY AskedOK, PairsDiffer DEF PInv, Ask, PoolOK, In

LEMMA ReturnStep ==
  ASSUME PInv, NEW j \in Jobs, NEW s \in Slots, <<j, s>> \in pool.held, Return(<<j, s>>)
  PROVE  /\ PoolOK(pool)'
         /\ pool.held \ {<<j, s>>} \subseteq pool'.held
         /\ \A b : In(pool', b) => In(pool, b) /\ b # <<j, s>>
<1> DEFINE q == Released(pool, <<j, s>>)
<1>1. /\ PoolOK(q)
      /\ pool.held \ {<<j, s>>} \subseteq q.held
      /\ \A b : In(q, b) => In(pool, b) /\ b # <<j, s>>
  BY ReleasedOK DEF PInv
<1>2. pool' = q
  BY DEF Return
<1> HIDE DEF q
<1> QED BY <1>1, <1>2 DEF PoolOK

(* Of a request in a transaction but at its audit row, only slot 1 is asked for. *)
LEMMA OnlySlotOne ==
  ASSUME PInv, NEW j \in Jobs, NEW s \in Slots, In(pool, <<j, s>>),
         pc[j] \in (TxPcs \ {"audit"}) \cup {"find", "record"}
  PROVE  s = 1
<1>1. pc[j] # "idle" /\ pc[j] # "all" /\ pc[j] # "audit"
  BY DEF TxPcs
<1> QED BY <1>1, Working DEF PInv, Owned, Justified

-----------------------------------------------------------------------------
(* Transactions *)

LEMMA StartKeeps ==
  ASSUME PInv, NEW j \in Jobs, StartTransaction(j) \/ StartExport(j)
  PROVE  PInv'
<1> DEFINE x == pc'[j]
<1>1. /\ Free(j) /\ Ask(<<j, 1>>) /\ UNCHANGED <<lock, left, server>>
      /\ x \in {"connect", "find"} /\ pc' = [pc EXCEPT ![j] = x]
  BY DEF StartTransaction, StartExport, Goto, PInv, Simple
<1>2. \A s \in Slots : ~In(pool, <<j, s>>)
  BY <1>1, FreeAsksNothing
<1>3. /\ PoolOK(pool)'
      /\ pool.held \subseteq pool'.held
      /\ \A b : In(pool', b) => In(pool, b) \/ b = <<j, 1>>
  BY <1>1, <1>2, AskStep, PairsDiffer
<1>4. phase # "down" /\ pc[j] = "idle" /\ \A s \in Slots : <<j, s>> \notin left
  BY <1>1 DEF Free
<1>5. \A s \in Slots : In(pool', <<j, s>>) => s = 1 /\ Justified(j, s)'
  BY <1>1, <1>2, <1>3, PairsDiffer DEF Justified, TxPcs
<1>6. lock # j
  BY <1>4, NoJobIsNoJob DEF PInv, Locked
<1>7. x \in Pcs /\ x \notin InTransaction /\ left' \subseteq Asks
  BY <1>1 DEF Pcs, TxPcs, ExportPcs, InTransaction, PInv, Simple
<1> HIDE DEF x
<1> QED BY <1>1, <1>3, <1>4, <1>5, <1>6, <1>7, PairsDiffer, Frame

LEMMA ConnectedKeeps ==
  ASSUME PInv, NEW j \in Jobs, Connected(j) \/ Begin(j)
  PROVE  PInv'
<1> DEFINE x == pc'[j]
<1>1. /\ pc[j] \in {"connect", "begin"} /\ UNCHANGED <<pool, lock, left, server>>
      /\ x \in {"begin", "select", "rollback"} /\ pc' = [pc EXCEPT ![j] = x]
      /\ <<j, 1>> \in pool.held
  BY DEF Connected, Begin, Goto, Holds, PInv, Simple, HasAClient, InTransaction
<1>2. phase # "down" /\ \A s \in Slots : <<j, s>> \notin left
  BY <1>1, Working
<1>3. \A s \in Slots : In(pool', <<j, s>>) => Justified(j, s)'
  BY <1>1, OnlySlotOne DEF Justified, TxPcs
<1>4. lock # j
  BY <1>1, NoJobIsNoJob DEF PInv, Locked
<1>5. x \in Pcs /\ left' \subseteq Asks /\ PoolOK(pool)'
  BY <1>1 DEF Pcs, TxPcs, PInv, Simple, PoolOK
<1> HIDE DEF x
<1> QED BY <1>1, <1>2, <1>3, <1>4, <1>5, Frame

LEMMA SelectKeeps ==
  ASSUME PInv, NEW j \in Jobs, Select(j)
  PROVE  PInv'
<1> DEFINE x == pc'[j]
<1>1. /\ pc[j] = "select" /\ lock' = j /\ UNCHANGED <<left, server>>
      /\ pc' = [pc EXCEPT ![j] = x]
      /\ \/ x = "audit" /\ Ask(<<j, 2>>)
         \/ x \in {"commit", "rollback"} /\ UNCHANGED pool
  BY DEF Select, Goto, PInv, Simple
<1>2. phase # "down" /\ \A s \in Slots : <<j, s>> \notin left
  BY <1>1, Working
<1>3. \A s \in Slots : In(pool, <<j, s>>) => s = 1
  BY <1>1, OnlySlotOne DEF TxPcs
<1>4. /\ PoolOK(pool)'
      /\ pool.held \subseteq pool'.held
      /\ \A b : In(pool', b) => In(pool, b) \/ (b = <<j, 2>> /\ x = "audit")
  <2>1. CASE x = "audit" /\ Ask(<<j, 2>>)
    BY <1>3, <2>1, AskStep, PairsDiffer
  <2>2. CASE UNCHANGED pool
    BY <2>2 DEF PInv, PoolOK
  <2> QED BY <1>1, <2>1, <2>2
<1>5. \A s \in Slots : In(pool', <<j, s>>) => Justified(j, s)'
  BY <1>1, <1>3, <1>4, PairsDiffer DEF Justified, TxPcs
<1>6. <<j, 1>> \in pool'.held
  BY <1>1, <1>4 DEF PInv, HasAClient, InTransaction
<1>7. x \in Pcs /\ x \in {"audit", "commit", "rollback"} /\ left' \subseteq Asks
  BY <1>1 DEF Pcs, TxPcs, PInv, Simple
<1>8. pc' = [pc EXCEPT ![j] = x] /\ lock' = j /\ UNCHANGED <<left, server>>
  BY <1>1
<1>9. \A k \in Jobs, s \in Slots : k # j => (In(pool', <<k, s>>) => In(pool, <<k, s>>))
  BY <1>4, PairsDiffer
<1> HIDE DEF x
<1> QED BY <1>2, <1>4, <1>5, <1>6, <1>7, <1>8, <1>9, Frame

LEMMA AuditedKeeps ==
  ASSUME PInv, NEW j \in Jobs, Audited(j)
  PROVE  PInv'
<1>1. /\ pc[j] = "audit" /\ pc' = [pc EXCEPT ![j] = "commit"]
      /\ UNCHANGED <<lock, left, server>>
      /\ <<j, 2>> \in pool.held /\ Return(<<j, 2>>)
  BY DEF Audited, Goto, Holds
<1>2. phase # "down" /\ \A s \in Slots : <<j, s>> \notin left
  BY <1>1, Working
<1>3. /\ PoolOK(pool)'
      /\ pool.held \ {<<j, 2>>} \subseteq pool'.held
      /\ \A b : In(pool', b) => In(pool, b) /\ b # <<j, 2>>
  BY <1>1, ReturnStep, PairsDiffer
<1>4. \A s \in Slots : In(pool', <<j, s>>) => s = 1
  BY <1>1, <1>2, <1>3 DEF PInv, Owned, Justified
<1>5. pc'[j] = "commit"
  BY <1>1 DEF PInv, Simple
<1>6. <<j, 1>> \in pool'.held
  BY <1>1, <1>3, PairsDiffer DEF PInv, HasAClient, InTransaction
<1>7. "commit" \in Pcs /\ left' \subseteq Asks
  BY <1>1 DEF Pcs, TxPcs, PInv, Simple
<1>8. \A s \in Slots : In(pool', <<j, s>>) => Justified(j, s)'
  BY <1>4, <1>5 DEF Justified, TxPcs
<1> QED BY <1>1, <1>2, <1>3, <1>6, <1>7, <1>8, PairsDiffer, Frame

(* A request that is over has returned its only client. *)
LEMMA OverKeeps ==
  ASSUME PInv, NEW j \in Jobs, pc[j] \in (TxPcs \ {"audit"}) \cup {"find", "record"},
         Goto(j, "idle"), Unlock(j), <<j, 1>> \in pool.held, Return(<<j, 1>>),
         UNCHANGED <<left, server>>
  PROVE  PInv'
<1>1. pc[j] # "idle" /\ pc' = [pc EXCEPT ![j] = "idle"]
  BY DEF TxPcs, Goto
<1>2. phase # "down" /\ \A s \in Slots : <<j, s>> \notin left
  BY <1>1, Working
<1>3. /\ PoolOK(pool)'
      /\ pool.held \ {<<j, 1>>} \subseteq pool'.held
      /\ \A b : In(pool', b) => In(pool, b) /\ b # <<j, 1>>
  BY ReturnStep, PairsDiffer
<1>4. \A s \in Slots : ~In(pool', <<j, s>>)
  BY <1>3, OnlySlotOne
<1>5. "idle" \in Pcs /\ "idle" \notin InTransaction /\ left' \subseteq Asks
  BY DEF Pcs, InTransaction, PInv, Simple
<1>6. lock' \in {lock, j, NoJob} /\ lock' # j
  BY NoJobIsNoJob DEF Unlock
<1> QED BY <1>1, <1>2, <1>3, <1>4, <1>5, <1>6, PairsDiffer, Frame

LEMMA CommitKeeps ==
  ASSUME PInv, NEW j \in Jobs, Commit(j) \/ Rollback(j)
  PROVE  PInv'
<1>0. pc[j] \in {"commit", "rollback"} /\ <<j, 1>> \in pool.held
  BY DEF Commit, Rollback, PInv, HasAClient, InTransaction
<1>1. CASE Finally(j) /\ UNCHANGED <<left, server>>
  BY <1>0, <1>1, OverKeeps DEF Finally, TxPcs
<1>2. CASE Goto(j, "rollback") /\ UNCHANGED <<pool, lock, left, server>>
  <2>1. pc' = [pc EXCEPT ![j] = "rollback"] /\ pc'[j] = "rollback"
    BY <1>2 DEF Goto, PInv, Simple
  <2>2. phase # "down" /\ \A s \in Slots : <<j, s>> \notin left
    BY <1>0, Working
  <2>3. \A s \in Slots : In(pool', <<j, s>>) => Justified(j, s)'
    BY <1>0, <1>2, <2>1, OnlySlotOne DEF Justified, TxPcs
  <2>4. "rollback" \in Pcs /\ left' \subseteq Asks /\ PoolOK(pool)'
    BY <1>2 DEF Pcs, TxPcs, PInv, Simple, PoolOK
  <2> QED BY <1>0, <1>2, <2>1, <2>2, <2>3, <2>4, Frame
<1> QED BY <1>1, <1>2 DEF Commit, Rollback

-----------------------------------------------------------------------------
(* Exports *)

LEMMA FoundKeeps ==
  ASSUME PInv, NEW j \in Jobs, Found(j) \/ Recorded(j)
  PROVE  PInv'
<1>1. /\ pc[j] \in {"find", "record"} /\ <<j, 1>> \in pool.held
      /\ UNCHANGED <<lock, left, server>>
  BY DEF Found, Recorded, Holds
<1>2. lock # j
  BY <1>1, NoJobIsNoJob DEF PInv, Locked
<1>3. CASE Goto(j, "idle") /\ Return(<<j, 1>>)
  BY <1>1, <1>2, <1>3, OverKeeps DEF Unlock
<1>4. CASE ~(Goto(j, "idle") /\ Return(<<j, 1>>))
  <2> DEFINE p == Released(pool, <<j, 1>>)
             p1 == Asked(p, <<j, 1>>)
             p2 == Asked(p1, <<j, 2>>)
             p3 == Asked(p2, <<j, 3>>)
  <2>1. pc' = [pc EXCEPT ![j] = "all"] /\ pc'[j] = "all" /\ pool' = p3
    BY <1>4 DEF Found, Recorded, Goto, Return, PInv, Simple
  <2>2. /\ PoolOK(p)
        /\ pool.held \ {<<j, 1>>} \subseteq p.held
        /\ \A b : In(p, b) => In(pool, b) /\ b # <<j, 1>>
    BY <1>1, ReleasedOK DEF PInv
  <2>3. \A s \in Slots : ~In(p, <<j, s>>)
    BY <1>1, <2>2, OnlySlotOne
  <2> HIDE DEF p
  <2>4. /\ PoolOK(p1) /\ p.held \subseteq p1.held
        /\ \A b : In(p1, b) => In(p, b) \/ b = <<j, 1>>
    BY <2>2, <2>3, AskedOK, PairsDiffer
  <2>5. ~In(p1, <<j, 2>>) /\ ~In(p1, <<j, 3>>)
    BY <2>3, <2>4, PairsDiffer
  <2> HIDE DEF p1
  <2>6. /\ PoolOK(p2) /\ p1.held \subseteq p2.held
        /\ \A b : In(p2, b) => In(p1, b) \/ b = <<j, 2>>
    BY <2>4, <2>5, AskedOK, PairsDiffer
  <2>7. ~In(p2, <<j, 3>>)
    BY <2>5, <2>6, PairsDiffer
  <2> HIDE DEF p2
  <2>8. /\ PoolOK(p3) /\ p2.held \subseteq p3.held
        /\ \A b : In(p3, b) => In(p2, b) \/ b = <<j, 3>>
    BY <2>6, <2>7, AskedOK, PairsDiffer
  <2> HIDE DEF p3
  <2>9. PoolOK(pool)'
    BY <2>1, <2>8 DEF PoolOK
  <2>10. \A k \in Jobs, s \in Slots : k # j =>
           /\ In(pool', <<k, s>>) => In(pool, <<k, s>>)
           /\ <<k, s>> \in pool.held => <<k, s>> \in pool'.held
    BY <2>1, <2>2, <2>4, <2>6, <2>8, PairsDiffer
  <2>11. phase # "down" /\ \A s \in Slots : <<j, s>> \notin left
    BY <1>1, Working
  <2>12. "all" \in Pcs /\ "all" \notin InTransaction /\ left' \subseteq Asks
    BY <1>1 DEF Pcs, ExportPcs, InTransaction, PInv, Simple
  <2>13. \A s \in Slots : Justified(j, s)'
    BY <2>1 DEF Justified
  <2> QED BY <1>1, <1>2, <2>1, <2>9, <2>10, <2>11, <2>12, <2>13, Frame
<1> QED BY <1>3, <1>4

LEMMA PartDoneKeeps ==
  ASSUME PInv, NEW j \in Jobs, NEW s \in Slots, PartDone(j, s)
  PROVE  PInv'
<1> DEFINE p == Released(pool, <<j, s>>)
<1>1. /\ pc[j] = "all" /\ <<j, s>> \in pool.held
      /\ UNCHANGED <<lock, left, server>>
  BY DEF PartDone, Holds
<1>2. lock # j
  BY <1>1, NoJobIsNoJob DEF PInv, Locked
<1>3. /\ PoolOK(p)
      /\ pool.held \ {<<j, s>>} \subseteq p.held
      /\ \A b : In(p, b) => In(pool, b) /\ b # <<j, s>>
  BY <1>1, ReleasedOK DEF PInv
<1>4. phase # "down" /\ \A r \in Slots : <<j, r>> \notin left
  BY <1>1, Working
<1>5. {"all", "record", "idle"} \subseteq Pcs \ InTransaction /\ left' \subseteq Asks
  BY <1>1 DEF Pcs, ExportPcs, InTransaction, PInv, Simple
<1>6. CASE Pending(j) = {<<j, s>>}
  <2> DEFINE q == Asked(p, <<j, 1>>)
  <2>1. \A r \in Slots : In(pool, <<j, r>>) => <<j, r>> \in Pending(j)
    BY DEF Pending, Holds, Waits, In, PInv, PoolOK
  <2>2. \A r \in Slots : ~In(p, <<j, r>>)
    BY <1>3, <1>6, <2>1
  <2>3. CASE phase # "ending"
    <3>1. pc' = [pc EXCEPT ![j] = "record"] /\ pc'[j] = "record" /\ pool' = q
      BY <1>6, <2>3 DEF PartDone, Goto, PInv, Simple
    <3> HIDE DEF p
    <3>2. /\ PoolOK(q) /\ p.held \subseteq q.held
          /\ \A b : In(q, b) => In(p, b) \/ b = <<j, 1>>
      BY <1>3, <2>2, AskedOK, PairsDiffer
    <3> HIDE DEF q
    <3>3. PoolOK(pool)'
      BY <3>1, <3>2 DEF PoolOK
    <3>4. \A k \in Jobs, r \in Slots : k # j =>
            /\ In(pool', <<k, r>>) => In(pool, <<k, r>>)
            /\ <<k, r>> \in pool.held => <<k, r>> \in pool'.held
      BY <1>3, <3>1, <3>2, PairsDiffer
    <3>5. \A r \in Slots : In(pool', <<j, r>>) => Justified(j, r)'
      BY <2>2, <3>1, <3>2, PairsDiffer DEF Justified
    <3> QED BY <1>1, <1>2, <1>4, <1>5, <3>1, <3>3, <3>4, <3>5, Frame
  <2>4. CASE phase = "ending"
    <3>1. pc' = [pc EXCEPT ![j] = "idle"] /\ pc'[j] = "idle" /\ pool' = p
      BY <1>6, <2>4 DEF PartDone, Goto, PInv, Simple
    <3> HIDE DEF p
    <3>2. PoolOK(pool)'
      BY <1>3, <3>1 DEF PoolOK
    <3>3. \A k \in Jobs, r \in Slots : k # j =>
            /\ In(pool', <<k, r>>) => In(pool, <<k, r>>)
            /\ <<k, r>> \in pool.held => <<k, r>> \in pool'.held
      BY <1>3, <3>1, PairsDiffer
    <3>4. \A r \in Slots : ~In(pool', <<j, r>>)
      BY <2>2, <3>1
    <3> QED BY <1>1, <1>2, <1>4, <1>5, <3>1, <3>2, <3>3, <3>4, Frame
  <2> QED BY <2>3, <2>4
<1>7. CASE Pending(j) # {<<j, s>>}
  <2>1. pc' = [pc EXCEPT ![j] = "all"] /\ pc'[j] = "all" /\ pool' = p
    BY <1>1, <1>7 DEF PartDone, PInv, Simple
  <2> HIDE DEF p
  <2>2. PoolOK(pool)'
    BY <1>3, <2>1 DEF PoolOK
  <2>3. \A k \in Jobs, r \in Slots : k # j =>
          /\ In(pool', <<k, r>>) => In(pool, <<k, r>>)
          /\ <<k, r>> \in pool.held => <<k, r>> \in pool'.held
    BY <1>3, <2>1, PairsDiffer
  <2>4. \A r \in Slots : Justified(j, r)'
    BY <2>1 DEF Justified
  <2> QED BY <1>1, <1>2, <1>4, <1>5, <2>1, <2>2, <2>3, <2>4, Frame
<1> QED BY <1>6, <1>7

(* The queries that are left are those still under way. *)
LEMMA RejectKeeps ==
  ASSUME PInv, NEW j \in Jobs, NEW s \in Slots, pc[j] = "all", Reject(j, s),
         PoolOK(pool)', pool.held \ {<<j, s>>} \subseteq pool'.held,
         \A b : In(pool', b) => In(pool, b) /\ b # <<j, s>>,
         UNCHANGED <<lock, server>>
  PROVE  PInv'
<1>1. pc' = [pc EXCEPT ![j] = "idle"] /\ pc'[j] = "idle"
      /\ left' = left \cup (Pending(j) \ {<<j, s>>})
  BY DEF Reject, Goto, PInv, Simple
<1>2. lock # j
  BY NoJobIsNoJob DEF PInv, Locked
<1>3. phase # "down"
  BY Working
<1>4. \A b \in Pending(j) : b \in Asks /\ \E r \in Slots : b = <<j, r>>
  <2> SUFFICES ASSUME NEW b \in Pending(j)
               PROVE  b \in Asks /\ \E r \in Slots : b = <<j, r>>
    OBVIOUS
  <2>1. PICK r \in {s0 \in Slots : Holds(<<j, s0>>) \/ Waits(<<j, s0>>)} : b = <<j, r>>
    BY Zenon DEF Pending
  <2>2. r \in Slots
    OBVIOUS
  <2> QED BY <2>1, <2>2, PairsDiffer
<1>a. \A k \in Jobs, r \in Slots : <<k, r>> \in Pending(j) => k = j
  BY <1>4, PairsDiffer
<1>b. \A b : In(pool, b) => Holds(b) \/ Waits(b)
  BY DEF Holds, Waits, In, PInv, PoolOK
<1>5. \A r \in Slots : In(pool, <<j, r>>) => <<j, r>> \in Pending(j)
  BY <1>b DEF Pending
<1>6. \A r \in Slots : In(pool', <<j, r>>) => Justified(j, r)'
  BY <1>1, <1>5 DEF Justified
<1>7. "idle" \in Pcs /\ "idle" \notin InTransaction /\ left' \subseteq Asks
  BY <1>1, <1>4 DEF Pcs, InTransaction, PInv, Simple
<1>8. \A k \in Jobs, r \in Slots : k # j =>
        /\ In(pool', <<k, r>>) => In(pool, <<k, r>>)
        /\ <<k, r>> \in pool.held => <<k, r>> \in pool'.held
        /\ <<k, r>> \in left' <=> <<k, r>> \in left
  BY <1>1, <1>a, PairsDiffer
<1> QED BY <1>1, <1>2, <1>3, <1>6, <1>7, <1>8, Frame

LEMMA PartFailsKeeps ==
  ASSUME PInv, NEW j \in Jobs, NEW s \in Slots, PartFails(j, s)
  PROVE  PInv'
BY ReturnStep, RejectKeeps DEF PartFails, Holds

(* A query that was left is over: nobody waits for it. *)
LEMMA LeftOverKeeps ==
  ASSUME PInv, NEW a \in left, left' = left \ {a}, UNCHANGED <<pc, lock, server>>,
         In(pool, a), PoolOK(pool)', pool.held \ {a} \subseteq pool'.held,
         \A b : In(pool', b) => In(pool, b) /\ b # a
  PROVE  PInv'
<1>1. PICK j \in Jobs, s \in Slots : a = <<j, s>>
  BY PairsDiffer DEF PInv, Simple
<1>2. pc[j] = "idle" /\ pc' = [pc EXCEPT ![j] = "idle"]
  BY <1>1 DEF PInv, LeftIdle, Simple
<1>3. phase # "down"
  BY DEF PInv, DownIsEmpty
<1>4. lock # j
  BY <1>2, NoJobIsNoJob DEF PInv, Locked
<1>5. \A r \in Slots : In(pool', <<j, r>>) => Justified(j, r)'
  BY <1>1, <1>2, PairsDiffer DEF PInv, Owned, Justified, TxPcs
<1>6. "idle" \in Pcs /\ "idle" \notin InTransaction /\ left' \subseteq Asks
  BY DEF Pcs, InTransaction, PInv, Simple
<1>7. \A k \in Jobs, r \in Slots : k # j =>
        /\ In(pool', <<k, r>>) => In(pool, <<k, r>>)
        /\ <<k, r>> \in pool.held => <<k, r>> \in pool'.held
        /\ <<k, r>> \in left' <=> <<k, r>> \in left
  BY <1>1, PairsDiffer
<1> QED BY <1>2, <1>3, <1>4, <1>5, <1>6, <1>7, Frame

LEMMA LeftDoneKeeps ==
  ASSUME PInv, NEW a \in Asks, LeftDone(a)
  PROVE  PInv'
<1>1. PICK j \in Jobs, s \in Slots : a = <<j, s>>
  BY PairsDiffer
<1>2. a \in left /\ a \in pool.held /\ Return(a)
  BY DEF LeftDone, Holds
<1>3. /\ PoolOK(pool)'
      /\ pool.held \ {a} \subseteq pool'.held
      /\ \A b : In(pool', b) => In(pool, b) /\ b # a
  BY <1>1, <1>2, ReturnStep
<1> QED BY <1>2, <1>3, LeftOverKeeps DEF LeftDone, In

LEMMA TimeoutKeeps ==
  ASSUME PInv, NEW a \in Asks, Timeout(a)
  PROVE  PInv'
<1>1. PICK j \in Jobs, s \in Slots : a = <<j, s>> /\ j = a[1] /\ s = a[2]
  BY PairsDiffer
<1> DEFINE q == Withdrawn(pool, a)
<1>2. /\ PoolOK(q) /\ q.held = pool.held /\ a \notin pool.held
      /\ \A b : In(q, b) => In(pool, b) /\ b # a
  BY WithdrawnOK DEF Timeout, Waits, PInv
<1>3. pool' = q /\ UNCHANGED <<lock, server>>
  BY DEF Timeout
<1>4. In(pool, a)
  BY DEF Timeout, Waits, In, PInv, PoolOK
<1> HIDE DEF q
<1>5. /\ PoolOK(pool)' /\ pool'.held = pool.held
      /\ \A b : In(pool', b) => In(pool, b) /\ b # a
  BY <1>2, <1>3 DEF PoolOK
<1>6. CASE a \in left /\ left' = left \ {a} /\ UNCHANGED pc
  BY <1>3, <1>4, <1>5, <1>6, LeftOverKeeps
<1>7. CASE pc[j] = "all" /\ Reject(j, s)
  BY <1>1, <1>3, <1>5, <1>7, RejectKeeps
<1>8. ASSUME NEW x \in {"idle", "commit"}, Goto(j, x), UNCHANGED left,
             \/ x = "idle" /\ pc[j] \in {"connect", "find", "record"}
             \/ x = "commit" /\ pc[j] = "audit"
      PROVE  PInv'
  <2>1. pc' = [pc EXCEPT ![j] = x] /\ pc'[j] = x
    BY <1>8 DEF Goto, PInv, Simple
  <2>2. phase # "down" /\ \A r \in Slots : <<j, r>> \notin left
    BY <1>8, Working
  <2>3. \A r \in Slots : In(pool', <<j, r>>) => x = "commit" /\ r = 1
    <3> SUFFICES ASSUME NEW r \in Slots, In(pool', <<j, r>>)
                 PROVE  x = "commit" /\ r = 1
      OBVIOUS
    <3>1. In(pool, <<j, r>>) /\ r # s
      BY <1>1, <1>5
    <3>2. CASE x = "idle"
      BY <1>1, <1>4, <1>8, <3>1, <3>2, OnlySlotOne DEF TxPcs
    <3>3. CASE x = "commit"
      <4>1. pc[j] = "audit" /\ <<j, 1>> \in pool.held
        BY <1>8, <3>3 DEF PInv, HasAClient, InTransaction
      <4>2. s = 2
        BY <1>1, <1>2, <1>4, <2>2, <4>1 DEF PInv, Owned, Justified
      <4>3. r \in {1, 2}
        BY <2>2, <3>1, <4>1 DEF PInv, Owned, Justified
      <4> QED BY <3>1, <3>3, <4>2, <4>3
    <3> QED BY <3>2, <3>3
  <2>4. \A r \in Slots : In(pool', <<j, r>>) => Justified(j, r)'
    BY <2>1, <2>3 DEF Justified, TxPcs
  <2>5. x = "commit" => <<j, 1>> \in pool'.held
    BY <1>5, <1>8 DEF PInv, HasAClient, InTransaction
  <2>6. lock = j => x = "commit"
    BY <1>8, NoJobIsNoJob DEF PInv, Locked
  <2>7. x \in Pcs /\ left' \subseteq Asks /\ "idle" \notin InTransaction
    BY <1>8 DEF Pcs, TxPcs, InTransaction, PInv, Simple
  <2>8. \A k \in Jobs, r \in Slots : k # j =>
          /\ In(pool', <<k, r>>) => In(pool, <<k, r>>)
          /\ <<k, r>> \in pool.held => <<k, r>> \in pool'.held
          /\ <<k, r>> \in left' <=> <<k, r>> \in left
    BY <1>5, <1>8
  <2> QED BY <1>3, <1>5, <1>8, <2>1, <2>2, <2>4, <2>5, <2>6, <2>7, <2>8, Frame
<1> QED BY <1>1, <1>6, <1>7, <1>8 DEF Timeout, AuditGoesOn

-----------------------------------------------------------------------------
(* The server *)

LEMMA ServerKeeps ==
  ASSUME PInv,
         Shutdown \/ (\E j \in Jobs : Disconnect(j)) \/ EndPool \/ Exit \/ ForceExit \/ Restart
  PROVE  PInv'
<1>1. CASE Shutdown \/ (\E j \in Jobs : Disconnect(j)) \/ EndPool \/ Restart
  BY <1>1 DEF Shutdown, Disconnect, EndPool, Restart, PInv, Simple, PoolOK, Owned, In, Justified,
              LeftIdle, HasAClient, Locked, DownIsEmpty
<1>2. CASE Exit \/ ForceExit
  <2>0. Stopped /\ forced' \in BOOLEAN
    BY <1>2 DEF Exit, ForceExit, PInv, Simple
  <2>1. PoolOK(pool)' /\ Owned'
    BY <2>0, NobodyAsked DEF Stopped, PoolOK, Owned, In
  <2>2. \A j \in Jobs : pc'[j] = "idle"
    BY <2>0 DEF Stopped
  <2>3. Simple'
    BY <2>0 DEF Stopped, Simple, Pcs
  <2>4. HasAClient' /\ Locked' /\ LeftIdle' /\ DownIsEmpty'
    BY <2>0, <2>2 DEF Stopped, HasAClient, InTransaction, Locked, LeftIdle, DownIsEmpty
  <2> QED BY <2>1, <2>3, <2>4 DEF PInv
<1> QED BY <1>1, <1>2

-----------------------------------------------------------------------------

LEMMA InitPInv == Init => PInv
<1> SUFFICES ASSUME Init PROVE PInv
  OBVIOUS
<1>1. PoolOK(pool) /\ Owned
  BY NobodyAsked DEF Init, Owned
<1>2. Simple
  BY DEF Init, Simple, Pcs
<1> QED BY <1>1, <1>2 DEF Init, PInv, LeftIdle, HasAClient, InTransaction, Locked, DownIsEmpty

LEMMA NextPInv == PInv /\ [Next]_vars => PInv'
<1> SUFFICES ASSUME PInv, [Next]_vars PROVE PInv'
  OBVIOUS
<1>1. ASSUME NEW j \in Jobs, Statement(j)
      PROVE  PInv'
  BY <1>1, ConnectedKeeps, SelectKeeps, AuditedKeeps, CommitKeeps, FoundKeeps, PartDoneKeeps,
     PartFailsKeeps, LeftDoneKeeps, PairsDiffer DEF Statement
<1>2. CASE UNCHANGED vars
  BY <1>2 DEF vars, server, PInv, Simple, PoolOK, Owned, In, Justified, LeftIdle, HasAClient, Locked, DownIsEmpty
<1> QED BY <1>1, <1>2, StartKeeps, TimeoutKeeps, ServerKeeps DEF Next

LEMMA AlwaysPInv == Spec => []PInv
BY InitPInv, NextPInv, PTL DEF Spec

(* Every variable keeps its type, and no more than `max` clients are given out
   (db.js:15). *)
THEOREM TypesHold == Spec => []TypeOK
<1>1. PInv => TypeOK
  BY DEF PInv, Simple, PoolOK, TypeOK, Pcs
<1> QED BY <1>1, AlwaysPInv, PTL

(* A client is held only by a statement under way or by a transaction between connect and
   release (db.js:42-55), or by a query an export was answered without
   (profileService.js:68-72). *)
THEOREM ClientsAreReturned == Spec => []NoClientLeaks
<1>1. PInv => NoClientLeaks
  BY DEF PInv, Owned, In, Justified, NoClientLeaks
<1> QED BY <1>1, AlwaysPInv, PTL

(* A transaction that is over has unlocked the row of the event, even when its ROLLBACK
   fails (db.js:47-54). *)
THEOREM LocksAreOfTheLiving == Spec => []LockHasAClient
<1>1. PInv => LockHasAClient
  BY DEF PInv, Simple, Locked, HasAClient, InTransaction, LockHasAClient
<1> QED BY <1>1, AlwaysPInv, PTL

(* The process ends by itself only between transactions: a transaction has its client to its
   end, which the pool waits for, though the client of its request has gone and it gets no
   second connection (server.js:17-20, db.js:42-55). *)
THEOREM ExitWaitsForTransactions == Spec => ExitCutsNoTransaction
<1> DEFINE Exits == phase = "ending" /\ phase' = "down" /\ ~forced'
           Clean == lock = NoJob /\ \A j \in Jobs : pc[j] \notin TxPcs \ {"connect"}
<1>1. PInv /\ [Next]_vars => [Exits => Clean]_vars
  <2> SUFFICES ASSUME PInv, Next, Exits
               PROVE  Clean
    OBVIOUS
  <2>1. Exit
    BY DEF Next, Statement, StartTransaction, StartExport, Connected, Begin, Select, Audited,
           Commit, Rollback, Found, Recorded, PartDone, PartFails, LeftDone, Timeout,
           Disconnect, Shutdown, EndPool, ForceExit, Restart, server
  <2>2. pool.held = {}
    BY <2>1 DEF Exit
  <2>3. \A j \in Jobs : pc[j] \notin InTransaction
    BY <2>2 DEF PInv, HasAClient
  <2>4. lock = NoJob
    BY <2>3 DEF PInv, Simple, Locked, InTransaction
  <2> QED BY <2>3, <2>4 DEF TxPcs, InTransaction
<1> QED BY <1>1, AlwaysPInv, PTL DEF Spec, ExitCutsNoTransaction
=============================================================================
