------------------------ MODULE DispatcherRefinement ------------------------
(***************************************************************************)
(* Proof that push delivery implements AtLeastOnce, for every number of    *)
(* subscriptions, events, goroutines and attempts. The mapping takes the   *)
(* delivery table to the place of each pair, as Dispatcher defines it.     *)
(***************************************************************************)
EXTENDS DispatcherProofs

Placed == [p \in Pairs |-> Place(p)]

(* Where each statement moves a row.                                        *)
LEMMA PlaceMoves ==
  ASSUME row \in Types, NEW p \in Pairs
  PROVE  /\ Place(p) \in {"out", "queued", "delivered", "dead"}
         /\ UNCHANGED row => Place(p)' = Place(p)
         /\ row' = Recovered => Place(p)' = Place(p)
         /\ BackoffElapses => Place(p)' = Place(p)
         /\ \A R : /\ row' = Leased(R) => Place(p)' = Place(p)
                   /\ row' = Enqueued(R) =>
                        Place(p)' = IF p \in R /\ Place(p) = "out" THEN "queued" ELSE Place(p)
                   /\ row' = Delivered(R) =>
                        Place(p)' = IF p \in R /\ Place(p) # "out" THEN "delivered" ELSE Place(p)
                   /\ row' = Requeued(R) => Place(p)' = IF p \in R THEN "queued" ELSE Place(p)
                   /\ row' = Dropped(R) => Place(p)' = IF p \in R THEN "out" ELSE Place(p)
         /\ \A R, why, retry : \A dead \in BOOLEAN :
              row' = Failed(R, why, retry, dead) =>
                Place(p)' = IF p \in R /\ Place(p) # "out"
                            THEN (IF dead THEN "dead" ELSE "queued") ELSE Place(p)
<1>1. row[p] \in Rows /\ row[p].status \in {"absent", "pending", "inflight", "delivered", "dead"}
  BY DEF Types, Rows
<1>2. Place(p) \in {"out", "queued", "delivered", "dead"}
  BY <1>1 DEF Place
<1>3. /\ UNCHANGED row => Place(p)' = Place(p)
      /\ row' = Recovered => Place(p)' = Place(p)
  <2>1. UNCHANGED row => Place(p)' = Place(p)
    BY DEF Place
  <2>2. CASE row' = Recovered /\ row[p].status = "inflight"
    BY <1>1, <2>2 DEF Place, Recovered, Rows
  <2>3. CASE row' = Recovered /\ row[p].status # "inflight"
    BY <1>1, <2>3 DEF Place, Recovered
  <2> QED
    BY <2>1, <2>2, <2>3
<1>4. BackoffElapses => Place(p)' = Place(p)
  <2> SUFFICES ASSUME BackoffElapses PROVE Place(p)' = Place(p)
    OBVIOUS
  <2>1. row'[p] = [row[p] EXCEPT !.wait = IF @ > 0 THEN @ - 1 ELSE 0]
    BY DEF BackoffElapses
  <2>2. row'[p].status = row[p].status
    BY <1>1, <2>1 DEF Rows
  <2> QED
    BY <2>2 DEF Place
<1>5. ASSUME NEW R
      PROVE  /\ row' = Leased(R) => Place(p)' = Place(p)
             /\ row' = Enqueued(R) =>
                  Place(p)' = IF p \in R /\ Place(p) = "out" THEN "queued" ELSE Place(p)
             /\ row' = Delivered(R) =>
                  Place(p)' = IF p \in R /\ Place(p) # "out" THEN "delivered" ELSE Place(p)
             /\ row' = Requeued(R) => Place(p)' = IF p \in R THEN "queued" ELSE Place(p)
             /\ row' = Dropped(R) => Place(p)' = IF p \in R THEN "out" ELSE Place(p)
  <2>1. row' = Leased(R) => Place(p)' = Place(p)
    BY <1>1 DEF Place, Leased, Rows
  <2>2. row' = Enqueued(R) =>
          Place(p)' = IF p \in R /\ Place(p) = "out" THEN "queued" ELSE Place(p)
    BY <1>1 DEF Place, Enqueued, Queued, NoRow
  <2>3. row' = Delivered(R) =>
          Place(p)' = IF p \in R /\ Place(p) # "out" THEN "delivered" ELSE Place(p)
    BY <1>1 DEF Place, Delivered, Rows
  <2>4. /\ row' = Requeued(R) => Place(p)' = IF p \in R THEN "queued" ELSE Place(p)
        /\ row' = Dropped(R) => Place(p)' = IF p \in R THEN "out" ELSE Place(p)
    BY <1>1 DEF Place, Requeued, Dropped, Queued, NoRow
  <2> QED
    BY <2>1, <2>2, <2>3, <2>4
<1>6. ASSUME NEW R, NEW why, NEW retry, NEW dead \in BOOLEAN, row' = Failed(R, why, retry, dead)
      PROVE  Place(p)' = IF p \in R /\ Place(p) # "out"
                         THEN (IF dead THEN "dead" ELSE "queued") ELSE Place(p)
  <2>1. CASE p \in R /\ row[p].status # "absent"
    BY <1>1, <1>6, <2>1 DEF Place, Failed, Rows
  <2>2. CASE ~ (p \in R /\ row[p].status # "absent")
    BY <1>1, <1>6, <2>2 DEF Place, Failed
  <2> QED
    BY <2>1, <2>2
<1> QED
  BY <1>2, <1>3, <1>4, <1>5, <1>6

-----------------------------------------------------------------------------
(* The batch of a goroutine.                                               *)

HasBatch(w) == worker[w].at \in {"selected", "leased", "orphaned", "loaded", "answered"}

Open(p) == Place(p) = "queued" \/ (Place(p) = "out" /\ interventions # 0)

(* The rows of a goroutine's batch are queued, unless an operator or a purge
   dropped them, and what its subscriber confirmed is on record.            *)
BatchOpen ==
    \A w \in Slots : HasBatch(w) =>
        /\ \A p \in MyRows(w) : Open(p)
        /\ worker[w].at = "answered" /\ worker[w].answer = "ok"
               => worker[w].batch \subseteq acked[worker[w].sub]

(* What a goroutine works on are rows of the table.                         *)
LEMMA BatchRows ==
  ASSUME TypeOK, Exclusion, NEW w \in Slots, HasBatch(w)
  PROVE  /\ worker[w].sub \in Subs /\ worker[w].batch \subseteq Seqs
         /\ MyRows(w) \subseteq Pairs
<1>1. worker[w].sub \in Subs
  BY DEF Exclusion, HasBatch, Off
<1>2. worker[w].batch \subseteq Seqs
  BY DEF TypeOK, Workers
<1> QED
  BY <1>1, <1>2 DEF MyRows, Pairs

(* Steps that are no goroutine's open or drop rows of a batch, never close
   them.                                                                    *)
LEMMA OutsideKeepsOpen ==
  ASSUME TypeOK, Outside, NEW p \in Pairs, Open(p)
  PROVE  Open(p)'
<1> row \in Types
  BY DEF TypeOK, QueueTypeOK, Types
<1> USE PlaceMoves DEF tableVars, ingestVars, boundVars
<1>0. /\ interventions \in Nat
      /\ Intervene => interventions' # 0
  BY QueueAssumption DEF TypeOK, QueueTypeOK, Intervene
<1>1. ASSUME UNCHANGED <<row, interventions>>
      PROVE  Open(p)'
  BY <1>1 DEF Open
<1>2. ASSUME NEW n \in Seqs, NEW s \in Subs, EnqueueDeliveries(n, s)
      PROVE  Open(p)'
  BY <1>2 DEF EnqueueDeliveries, Open
<1>3. ASSUME Intervene, UNCHANGED row \/ \E R : row' = Dropped(R) \/ row' = Requeued(R)
      PROVE  Open(p)'
  BY <1>0, <1>3 DEF Open
<1>4. CASE BackoffElapses
  BY <1>4 DEF BackoffElapses, Open
<1>5. CASE Ingest
  <2>1. ASSUME NEW n \in Seqs, NEW s \in Subs, EnqueueFails(n, s)
        PROVE  UNCHANGED <<row, interventions>>
    BY <2>1 DEF EnqueueFails, Fault
  <2>2. ASSUME NEW n \in Seqs, MatchingSubscriptions(n) \/ MatchingFails(n) \/ Answer(n) \/ RetryIngest(n)
        PROVE  UNCHANGED <<row, interventions>>
    BY <2>2 DEF MatchingSubscriptions, MatchingFails, Answer, RetryIngest, Fault
  <2>3. CASE AppendEvent
    BY <1>1, <2>3 DEF AppendEvent
  <2> QED
    BY <1>1, <1>2, <1>5, <2>1, <2>2, <2>3 DEF Ingest
<1>6. CASE Admin
  <2>1. Intervene
    BY <1>6 DEF Admin, SetSubscriptionStatus, CreateSubscription, DeleteSubscription,
                RequeueDeliveries, PurgeOlderThan
  <2>2. UNCHANGED row \/ \E R : row' = Dropped(R) \/ row' = Requeued(R)
    BY <1>6 DEF Admin, SetSubscriptionStatus, CreateSubscription, DeleteSubscription,
                RequeueDeliveries, PurgeOlderThan
  <2> QED
    BY <1>3, <2>1, <2>2
<1> QED
  BY <1>4, <1>5, <1>6 DEF Outside

LEMMA BatchOpenKept ==
  ASSUME TypeOK, Exclusion, BatchOpen, Next
  PROVE  BatchOpen'
<1> row \in Types /\ worker \in [Slots -> Workers]
  BY DEF TypeOK, QueueTypeOK, Types
<1> USE DEF queueVars, tableVars, ingestVars, boundVars
<1>1. ASSUME Outside, UNCHANGED <<loop, due, worker, acked>>
      PROVE  BatchOpen'
  <2> SUFFICES ASSUME NEW w \in Slots, HasBatch(w)
               PROVE  /\ \A p \in MyRows(w) : Open(p)'
                      /\ worker[w].at = "answered" /\ worker[w].answer = "ok"
                             => worker[w].batch \subseteq acked[worker[w].sub]
    BY <1>1 DEF BatchOpen, HasBatch, MyRows
  <2> QED
    BY <1>1, BatchRows, OutsideKeepsOpen DEF BatchOpen
<1>2. CASE RecoverInflight
  <2>1. \A w \in Slots : worker'[w] = Off
    BY <1>2 DEF RecoverInflight, Exclusion
  <2> QED
    BY <2>1 DEF BatchOpen, HasBatch, Off
<1>3. CASE RecoverFails \/ StartPass \/ EndPass
  <2>1. UNCHANGED <<row, worker, acked, interventions>>
    BY <1>3 DEF RecoverFails, StartPass, EndPass, Fault
  <2> QED
    BY <2>1 DEF BatchOpen, HasBatch, MyRows, Open, Place
<1>4. CASE Crash
  <2>1. \A w \in Slots : worker'[w] = Off
    BY <1>4 DEF Crash
  <2> QED
    BY <2>1 DEF BatchOpen, HasBatch, Off
<1>5. ASSUME NEW w \in Slots, Deliver(w) \/ StoreFails(w)
      PROVE  BatchOpen'
  <2>0. UNCHANGED interventions
    BY <1>5 DEF Deliver, StartWorker, GetSubscription, SelectDue, Lease, LoadEvents, ParkOrphans,
                Post, MarkDelivered, MarkFailed, StoreFails, Fault
  <2>1. \A v \in Slots : v # w => worker'[v] = worker[v]
    BY <1>5 DEF Deliver, StartWorker, GetSubscription, SelectDue, Lease, LoadEvents, ParkOrphans,
                Post, MarkDelivered, MarkFailed, StoreFails, Again, Return
  <2>2. /\ acked' = acked \/ acked' = [acked EXCEPT ![worker[w].sub] = @ \cup worker[w].batch]
    BY <1>5 DEF Deliver, StartWorker, GetSubscription, SelectDue, Lease, LoadEvents, ParkOrphans,
                Post, MarkDelivered, MarkFailed, StoreFails
  <2>3. \/ UNCHANGED row
        \/ /\ HasBatch(w)
           /\ \/ row' = Leased(MyRows(w)) \/ row' = Delivered(MyRows(w))
              \/ \E why, retry : \E dead \in BOOLEAN : row' = Failed(MyRows(w), why, retry, dead)
    BY <1>5 DEF Deliver, StartWorker, GetSubscription, SelectDue, Lease, LoadEvents, ParkOrphans,
                Post, MarkDelivered, MarkFailed, StoreFails, HasBatch
  <2>4. ASSUME NEW v \in Slots, v # w, HasBatch(v)
        PROVE  /\ \A p \in MyRows(v) : Open(p)'
               /\ worker[v].at = "answered" /\ worker[v].answer = "ok"
                     => worker[v].batch \subseteq acked'[worker[v].sub]
    <3>1. HasBatch(w) => MyRows(v) \cap MyRows(w) = {}
      BY <2>4 DEF HasBatch, Exclusion, Running, MyRows
    <3>2. ASSUME NEW p \in MyRows(v)
          PROVE  Place(p)' = Place(p)
      <4>1. p \in Pairs
        BY <2>4, BatchRows
      <4>2. HasBatch(w) => p \notin MyRows(w)
        BY <3>1
      <4> QED
        BY <2>3, <4>1, <4>2, PlaceMoves
    <3>3. acked[worker[v].sub] \subseteq acked'[worker[v].sub]
      <4>1. worker[v].sub \in Subs /\ acked \in [Subs -> SUBSET Seqs]
        BY <2>4, BatchRows DEF TypeOK
      <4> QED
        BY <2>2, <4>1
    <3> QED
      BY <2>0, <2>4, <3>2, <3>3 DEF BatchOpen, Open
  <2>5. ASSUME HasBatch(w)'
        PROVE  /\ \A p \in MyRows(w)' : Open(p)'
               /\ worker'[w].at = "answered" /\ worker'[w].answer = "ok"
                     => worker'[w].batch \subseteq acked'[worker'[w].sub]
    <3>1. CASE SelectDue(w)
      <4>1. PICK first \in Seqs, batch \in SUBSET Seqs :
              /\ batch = DueSeqs(worker[w].sub, BatchSize)
              /\ worker'[w] = [worker[w] EXCEPT !.at = "selected", !.batch = batch,
                                  !.attempt = row[<<worker[w].sub, first>>].attempt + 1]
        <5> DEFINE chosen == DueSeqs(worker[w].sub, BatchSize)
        <5>1. chosen # {}
          BY <2>5, <3>1 DEF SelectDue, Return, HasBatch, Off
        <5>2. chosen \in SUBSET Seqs /\ Lowest(chosen, 1) \subseteq Seqs
          BY DEF DueSeqs, Lowest
        <5>3. \E first \in Lowest(chosen, 1) :
                worker' = [worker EXCEPT ![w].at = "selected", ![w].batch = chosen,
                               ![w].attempt = row[<<worker[w].sub, first>>].attempt + 1]
          BY <3>1, <5>1 DEF SelectDue
        <5> HIDE DEF chosen
        <5>4. \E first \in Seqs :
                worker'[w] = [worker[w] EXCEPT !.at = "selected", !.batch = chosen,
                                  !.attempt = row[<<worker[w].sub, first>>].attempt + 1]
          BY <5>2, <5>3
        <5> QED
          BY <5>2, <5>4 DEF chosen
      <4>2. /\ worker'[w].at = "selected" /\ worker'[w].sub = worker[w].sub
            /\ worker'[w].batch = batch
        BY <4>1 DEF Workers
      <4>3. \A n \in batch : row[<<worker[w].sub, n>>].status = "pending"
        BY <4>1 DEF DueSeqs, Lowest, Due
      <4>4. UNCHANGED row
        BY <3>1 DEF SelectDue
      <4> QED
        BY <4>2, <4>3, <4>4 DEF MyRows, Place, Open
    <3>2. CASE Lease(w)
      <4>1. worker'[w] = [worker[w] EXCEPT !.at = "leased"] /\ row' = Leased(MyRows(w)) /\ HasBatch(w)
        BY <3>2 DEF Lease, HasBatch
      <4>2. worker'[w].at = "leased" /\ MyRows(w)' = MyRows(w)
        BY <4>1 DEF Workers, MyRows
      <4> QED
        BY <2>0, <4>1, <4>2, BatchRows, PlaceMoves DEF BatchOpen, Open
    <3>3. CASE LoadEvents(w)
      <4>1. \E at \in {"loaded", "orphaned"} : worker'[w] = [worker[w] EXCEPT !.at = at]
        BY <3>3 DEF LoadEvents
      <4>2. worker'[w].at \in {"loaded", "orphaned"} /\ MyRows(w)' = MyRows(w)
        BY <4>1 DEF Workers, MyRows
      <4>3. HasBatch(w) /\ UNCHANGED row
        BY <3>3 DEF LoadEvents, HasBatch
      <4> QED
        BY <2>0, <4>2, <4>3, BatchRows, PlaceMoves DEF BatchOpen, Open
    <3>4. CASE Post(w)
      <4>1. PICK answer \in {"ok", "failed", "refused"} :
              /\ worker'[w] = [worker[w] EXCEPT !.at = "answered", !.answer = answer]
              /\ acked' = IF answer = "ok"
                          THEN [acked EXCEPT ![worker[w].sub] = @ \cup worker[w].batch]
                          ELSE acked
        BY <3>4 DEF Post
      <4>2. /\ worker'[w].answer = answer /\ worker'[w].sub = worker[w].sub
            /\ worker'[w].batch = worker[w].batch
        BY <4>1 DEF Workers
      <4>3. HasBatch(w) /\ UNCHANGED row
        BY <3>4 DEF Post, HasBatch
      <4>4. worker[w].sub \in Subs /\ acked \in [Subs -> SUBSET Seqs]
        BY <4>3, BatchRows DEF TypeOK
      <4>5. worker'[w].answer = "ok" => worker'[w].batch \subseteq acked'[worker'[w].sub]
        BY <4>1, <4>2, <4>4
      <4>6. MyRows(w)' = MyRows(w)
        BY <4>2 DEF MyRows
      <4>7. \A p \in MyRows(w) : p \in Pairs /\ Open(p)
        BY <4>3, BatchRows DEF BatchOpen
      <4>8. \A p \in MyRows(w)' : Open(p)'
        <5>1. \A p : Place(p)' = Place(p)
          BY <4>3 DEF Place
        <5> QED
          BY <2>0, <4>6, <4>7, <5>1 DEF Open
      <4> QED
        BY <4>5, <4>8
    <3>5. CASE StartWorker(w) \/ GetSubscription(w) \/ ParkOrphans(w) \/ MarkDelivered(w)
               \/ MarkFailed(w) \/ StoreFails(w)
      <4>1. CASE StartWorker(w)
        <5>1. \E s : worker'[w] = [Off EXCEPT !.at = "started", !.sub = s]
          BY <4>1 DEF StartWorker
        <5> QED
          BY <2>5, <5>1 DEF HasBatch, Off
      <4>2. CASE ~ StartWorker(w)
        <5> DEFINE again == [Off EXCEPT !.at = "ready", !.sub = worker[w].sub]
        <5>1. again.at = "ready"
          BY DEF Off
        <5>2. worker' = [worker EXCEPT ![w] = Off] \/ worker' = [worker EXCEPT ![w] = again]
          BY <3>5, <4>2 DEF GetSubscription, ParkOrphans, MarkDelivered, MarkFailed, StoreFails,
                            Again, Return
        <5> HIDE DEF again
        <5>3. worker'[w] = Off \/ worker'[w] = again
          BY <5>2
        <5> QED
          BY <2>5, <5>1, <5>3 DEF HasBatch, Off
      <4> QED
        BY <4>1, <4>2
    <3> QED
      BY <1>5, <3>1, <3>2, <3>3, <3>4, <3>5 DEF Deliver
  <2> QED
    BY <2>1, <2>4, <2>5 DEF BatchOpen, HasBatch, MyRows
<1> QED
  BY <1>1, <1>2, <1>3, <1>4, <1>5 DEF Next

-----------------------------------------------------------------------------
(* The simulation, step by step.                                           *)

LEMMA Stutters ==
  ASSUME \A p \in Pairs : Place(p)' = Place(p), UNCHANGED <<acked, interventions>>
  PROVE  UNCHANGED Promise!vars
BY DEF Promise!vars

(* Rows that change place leave one of the places of "from" and go to "to". *)
LEMMA Moves ==
  ASSUME NEW from, NEW to,
         \A p \in Pairs : Place(p)' = Place(p) \/ (Place(p) \in from /\ Place(p)' = to)
  PROVE  Promise!Move(Promise!Changed, from, to)
BY DEF Promise!Move, Promise!Changed

LEMMA OutsideSimulates ==
  ASSUME TypeOK, Outside, UNCHANGED acked
  PROVE  Promise!Next \/ UNCHANGED Promise!vars
<1> row \in Types
  BY DEF TypeOK, QueueTypeOK, Types
<1> USE DEF tableVars, ingestVars, boundVars
<1>1. ASSUME UNCHANGED <<row, interventions>>
      PROVE  UNCHANGED Promise!vars
  BY <1>1, PlaceMoves, Stutters
<1>2. ASSUME NEW n \in Seqs, NEW s \in Subs, EnqueueDeliveries(n, s)
      PROVE  Promise!Next \/ UNCHANGED Promise!vars
  <2> DEFINE q == <<s, n>>
  <2>1. q \in Pairs
    BY DEF Pairs
  <2>2. \A p \in Pairs : Place(p)' = IF p \in {q} /\ Place(p) = "out" THEN "queued" ELSE Place(p)
    BY <1>2, PlaceMoves DEF EnqueueDeliveries
  <2>3. CASE Place(q) = "out"
    <3>1. Promise!Move({q}, {"out"}, "queued")
      <4>1. \A p \in {q} : p \in Pairs /\ Place(p) \in {"out"}
        BY <2>1, <2>3
      <4>2. \A p \in Pairs : Place(p)' = IF p \in {q} THEN "queued" ELSE Place(p)
        BY <2>2, <2>3
      <4> HIDE DEF q
      <4> QED
        BY <4>1, <4>2 DEF Promise!Move
    <3>2. UNCHANGED <<acked, interventions>>
      BY <1>2 DEF EnqueueDeliveries
    <3> HIDE DEF q
    <3> QED
      BY <2>1, <3>1, <3>2 DEF Promise!Next, Promise!Enqueue
  <2>4. CASE Place(q) # "out"
    <3>1. \A p \in Pairs : Place(p)' = Place(p)
      BY <2>2, <2>4
    <3>2. UNCHANGED <<acked, interventions>>
      BY <1>2 DEF EnqueueDeliveries
    <3> QED
      BY <3>1, <3>2, Stutters
  <2> QED
    BY <2>3, <2>4
<1>3. ASSUME Intervene,
             \/ \A p \in Pairs : Place(p)' = Place(p) \/ (Place(p) \in {"delivered", "dead"} /\ Place(p)' = "queued")
             \/ \A p \in Pairs : Place(p)' = Place(p) \/ (Place(p) \in {"queued", "delivered", "dead"} /\ Place(p)' = "out")
      PROVE  Promise!Next
  <2>1. \/ Promise!Move(Promise!Changed, {"delivered", "dead"}, "queued")
        \/ Promise!Move(Promise!Changed, {"queued", "delivered", "dead"}, "out")
    BY <1>3, Moves
  <2>2. interventions' = interventions + 1
    BY <1>3 DEF Intervene
  <2> QED
    BY <2>1, <2>2 DEF Promise!Next, Promise!Operate
<1>4. ASSUME NEW s \in Subs, NEW new, SetSubscriptionStatus(s, new) \/ CreateSubscription(s)
      PROVE  Promise!Next
  BY <1>3, <1>4, PlaceMoves DEF SetSubscriptionStatus, CreateSubscription
<1>5. ASSUME NEW R, Intervene, row' = Dropped(R)
      PROVE  Promise!Next
  <2>1. \A p \in Pairs : Place(p)' = Place(p) \/ (Place(p) \in {"queued", "delivered", "dead"} /\ Place(p)' = "out")
    BY <1>5, PlaceMoves
  <2> QED
    BY <1>3, <1>5, <2>1
<1>6. ASSUME NEW scope \in SUBSET Subs, NEW old \in {"pending", "inflight", "delivered", "dead"},
             RequeueDeliveries(scope, old)
      PROVE  Promise!Next
  <2> DEFINE rows == {p \in scope \X Seqs : row[p].status = old}
  <2>1. PICK R \in SUBSET rows : row' = Requeued(R)
    BY <1>6 DEF RequeueDeliveries
  <2>2. \A p \in Pairs : p \in R => Place(p) \in {"queued", "delivered", "dead"}
    BY DEF Place
  <2>3. \A p \in Pairs : Place(p)' = Place(p) \/ (Place(p) \in {"delivered", "dead"} /\ Place(p)' = "queued")
    BY <2>1, <2>2, PlaceMoves
  <2>4. Intervene
    BY <1>6 DEF RequeueDeliveries
  <2> QED
    BY <1>3, <2>3, <2>4
<1>7. CASE BackoffElapses
  BY <1>7, PlaceMoves, Stutters DEF BackoffElapses
<1>8. CASE Ingest
  <2>1. ASSUME NEW n \in Seqs, NEW s \in Subs, EnqueueFails(n, s)
        PROVE  UNCHANGED <<row, interventions>>
    BY <2>1 DEF EnqueueFails, Fault
  <2>2. ASSUME NEW n \in Seqs, MatchingSubscriptions(n) \/ MatchingFails(n) \/ Answer(n) \/ RetryIngest(n)
        PROVE  UNCHANGED <<row, interventions>>
    BY <2>2 DEF MatchingSubscriptions, MatchingFails, Answer, RetryIngest, Fault
  <2>3. CASE AppendEvent
    BY <1>1, <2>3 DEF AppendEvent
  <2> QED
    BY <1>1, <1>2, <1>8, <2>1, <2>2, <2>3 DEF Ingest
<1>9. CASE Admin
  <2>1. ASSUME NEW s \in Subs, DeleteSubscription(s)
        PROVE  Promise!Next
    BY <1>5, <2>1 DEF DeleteSubscription
  <2>2. ASSUME NEW old, PurgeOlderThan(old)
        PROVE  Promise!Next
    BY <1>5, <2>2 DEF PurgeOlderThan
  <2>3. {Subs} \cup {{s} : s \in Subs} \subseteq SUBSET Subs
    OBVIOUS
  <2> QED
    BY <1>4, <1>6, <1>9, <2>1, <2>2, <2>3 DEF Admin
<1> QED
  BY <1>7, <1>8, <1>9 DEF Outside
LEMMA PostConfirms ==
  ASSUME TypeOK, Exclusion, NEW w \in Slots, Post(w)
  PROVE  Promise!Next \/ UNCHANGED Promise!vars
<1> DEFINE s == worker[w].sub
           batch == worker[w].batch
<1>1. UNCHANGED <<row, interventions>>
  BY DEF Post, queueVars, boundVars
<1>2. \A p \in Pairs : Place(p)' = Place(p)
  BY <1>1 DEF Place
<1>3. s \in Subs /\ acked \in [Subs -> SUBSET Seqs]
  BY BatchRows DEF Post, HasBatch, TypeOK
<1>4. CASE acked' = acked
  BY <1>1, <1>2, <1>4, Stutters
<1>5. CASE acked' = [acked EXCEPT ![s] = @ \cup batch]
  <2>1. 1 \in Seqs
    BY QueueAssumption DEF Seqs
  <2>2. <<s, 1>> \in Pairs /\ <<s, 1>>[1] = s
    BY <1>3, <2>1 DEF Pairs
  <2> HIDE DEF s, batch
  <2>3. acked' = [acked EXCEPT ![s] = acked'[s]]
    BY <1>3, <1>5
  <2>4. \A t \in DOMAIN acked : acked[t] \subseteq acked'[t]
    BY <1>3, <1>5
  <2>5. \E p \in Pairs : acked' = [acked EXCEPT ![p[1]] = acked'[p[1]]]
    BY <2>2, <2>3
  <2>6. Placed' = Placed
    BY <1>2 DEF Placed
  <2> QED
    BY <1>1, <2>4, <2>5, <2>6 DEF Promise!Next, Promise!Confirm, Placed
<1> QED
  BY <1>4, <1>5 DEF Post

LEMMA DeliverSimulates ==
  ASSUME TypeOK, Exclusion, BatchOpen, NEW w \in Slots, Deliver(w) \/ StoreFails(w)
  PROVE  Promise!Next \/ UNCHANGED Promise!vars
<1> row \in Types
  BY DEF TypeOK, QueueTypeOK, Types
<1> USE DEF queueVars, tableVars, ingestVars, boundVars
<1>1. CASE Post(w)
  BY <1>1, PostConfirms
<1>2. CASE MarkDelivered(w)
  <2>1. HasBatch(w) /\ row' = Delivered(MyRows(w)) /\ UNCHANGED <<acked, interventions>>
    BY <1>2 DEF MarkDelivered, HasBatch
  <2>2. \A p \in MyRows(w) : Open(p) /\ p[2] \in acked[p[1]]
    BY <1>2, <2>1 DEF BatchOpen, MarkDelivered, MyRows
  <2>3. \A p \in Pairs : Place(p)' = Place(p) \/ (Place(p) \in {"queued"} /\ Place(p)' = "delivered")
    BY <2>1, <2>2, PlaceMoves DEF Open
  <2>4. \A p \in Pairs : Place(p)' # Place(p) => p \in MyRows(w)
    BY <2>1, PlaceMoves
  <2>5. Promise!Move(Promise!Changed, {"queued"}, "delivered")
    BY <2>3, Moves
  <2>6. \A p \in Promise!Changed : p[2] \in acked[p[1]]
    BY <2>2, <2>4 DEF Promise!Changed
  <2> QED
    BY <2>1, <2>5, <2>6 DEF Promise!Next, Promise!Deliver
<1>3. CASE MarkFailed(w) \/ ParkOrphans(w)
  <2>1. PICK dead \in BOOLEAN : \E why, retry : row' = Failed(MyRows(w), why, retry, dead)
    BY <1>3 DEF MarkFailed, ParkOrphans
  <2>2. HasBatch(w) /\ UNCHANGED <<acked, interventions>>
    BY <1>3 DEF MarkFailed, ParkOrphans, HasBatch
  <2>3. \A p \in MyRows(w) : Open(p)
    BY <2>2 DEF BatchOpen
  <2>4. \A p \in Pairs : Place(p)' = Place(p) \/ (Place(p) \in {"queued"} /\ Place(p)' = "dead")
    BY <2>1, <2>3, PlaceMoves DEF Open
  <2>5. Promise!Move(Promise!Changed, {"queued"}, "dead")
    BY <2>4, Moves
  <2> QED
    BY <2>2, <2>5 DEF Promise!Next, Promise!GiveUp
<1>4. CASE Lease(w)
  BY <1>4, PlaceMoves, Stutters DEF Lease
<1>5. CASE StartWorker(w) \/ GetSubscription(w) \/ SelectDue(w) \/ LoadEvents(w) \/ StoreFails(w)
  <2>1. UNCHANGED <<row, acked, interventions>>
    BY <1>5 DEF StartWorker, GetSubscription, SelectDue, LoadEvents, StoreFails, Fault
  <2> QED
    BY <2>1, PlaceMoves, Stutters
<1> QED
  BY <1>1, <1>2, <1>3, <1>4, <1>5 DEF Deliver

LEMMA StepSimulates ==
  ASSUME TypeOK, Exclusion, BatchOpen, [Next]_vars
  PROVE  [Promise!Next]_(Promise!vars)
<1> row \in Types
  BY DEF TypeOK, QueueTypeOK, Types
<1> USE DEF queueVars, tableVars, ingestVars, boundVars
<1>1. CASE Outside /\ UNCHANGED <<loop, due, worker, acked>>
  BY <1>1, OutsideSimulates
<1>2. CASE RecoverInflight
  BY <1>2, PlaceMoves, Stutters DEF RecoverInflight
<1>3. CASE RecoverFails \/ StartPass \/ EndPass \/ Crash \/ UNCHANGED vars
  <2>1. UNCHANGED <<row, acked, interventions>>
    BY <1>3 DEF RecoverFails, StartPass, EndPass, Crash, Fault, vars
  <2> QED
    BY <2>1, PlaceMoves, Stutters
<1>4. ASSUME NEW w \in Slots, Deliver(w) \/ StoreFails(w)
      PROVE  Promise!Next \/ UNCHANGED Promise!vars
  BY <1>4, DeliverSimulates
<1> QED
  BY <1>1, <1>2, <1>3, <1>4 DEF Next

LEMMA InitSimulates == Init => Promise!Init /\ BatchOpen
<1> SUFFICES ASSUME Init PROVE Promise!Init /\ BatchOpen
  OBVIOUS
<1>1. \A p \in Pairs : Place(p) = "out"
  BY DEF Init, QueueInit, NoRow, Place
<1>2. Subs = {p[1] : p \in Pairs}
  <2>1. 1 \in Seqs
    BY QueueAssumption DEF Seqs
  <2>2. \A s \in Subs : <<s, 1>> \in Pairs /\ <<s, 1>>[1] = s
    BY <2>1 DEF Pairs
  <2>3. \A p \in Pairs : p[1] \in Subs
    BY DEF Pairs
  <2> QED
    BY <2>2, <2>3
<1>3. Promise!Init
  BY <1>1, <1>2 DEF Init, QueueInit, Promise!Init
<1>4. BatchOpen
  BY DEF Init, BatchOpen, HasBatch, Off
<1> QED
  BY <1>3, <1>4

(* The rows of every batch stay queued under the goroutine that works on them,
   unless an operator or a purge takes them away.                           *)
THEOREM BatchesStayOpen == Spec => []BatchOpen
<1>1. Inductive /\ BatchOpen /\ [Next]_vars => BatchOpen'
  <2>1. CASE UNCHANGED vars
    BY <2>1 DEF vars, queueVars, boundVars, BatchOpen, HasBatch, MyRows, Open, Place
  <2>2. Inductive /\ BatchOpen /\ Next => BatchOpen'
    BY BatchOpenKept DEF Inductive
  <2> QED
    BY <2>1, <2>2
<1> QED
  BY <1>1, InitSimulates, InductiveHolds, PTL DEF Spec

(* Push delivery is at-least-once: each step of the tables, the dispatcher and
   the operators is one of AtLeastOnce or leaves every pair in its place.   *)
THEOREM DeliveryIsAtLeastOnce == Spec => ImplementsAtLeastOnce
<1>1. Inductive /\ BatchOpen /\ [Next]_vars => [Promise!Next]_(Promise!vars)
  BY StepSimulates DEF Inductive
<1> QED
  BY <1>1, BatchesStayOpen, InitSimulates, InductiveHolds, PTL
     DEF Spec, ImplementsAtLeastOnce, Promise!Spec
=============================================================================
