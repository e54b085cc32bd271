-------------------------- MODULE DispatcherProofs --------------------------
(***************************************************************************)
(* Proofs about Dispatcher, for every number of subscriptions, events,     *)
(* places in the semaphore, batch size, attempts and bounds.               *)
(***************************************************************************)
EXTENDS Dispatcher, TLAPS

Types == [Pairs -> Rows]

(* A row of the delivery table keeps its type under every statement.        *)
LEMMA RowStatements ==
  ASSUME row \in Types, NEW R
  PROVE  /\ Enqueued(R) \in Types /\ Recovered \in Types /\ Leased(R) \in Types
         /\ Delivered(R) \in Types /\ Requeued(R) \in Types /\ Dropped(R) \in Types
<1>1. NoRow \in Rows /\ Queued \in Rows
  BY DEF NoRow, Queued, Rows
<1>2. ASSUME NEW p \in Pairs
      PROVE  /\ row[p] \in Rows
             /\ [row[p] EXCEPT !.status = "pending"] \in Rows
             /\ [row[p] EXCEPT !.status = "inflight", !.attempt = @ + 1] \in Rows
             /\ [row[p] EXCEPT !.status = "delivered", !.wait = 0, !.error = "none"] \in Rows
  <2>1. row[p] \in Rows
    BY DEF Types
  <2>2. row[p].attempt \in Nat
    BY <2>1 DEF Rows
  <2>3. row[p].attempt + 1 \in Nat
    BY <2>2
  <2>4. [row[p] EXCEPT !.status = "inflight", !.attempt = @ + 1] \in Rows
    BY <2>1, <2>3 DEF Rows
  <2>5. /\ [row[p] EXCEPT !.status = "pending"] \in Rows
        /\ [row[p] EXCEPT !.status = "delivered", !.wait = 0, !.error = "none"] \in Rows
    BY <2>1 DEF Rows
  <2> QED
    BY <2>1, <2>4, <2>5
<1>3. Enqueued(R) \in Types
  BY <1>1, <1>2 DEF Enqueued, Types
<1>4. Recovered \in Types
  BY <1>2 DEF Recovered, Types
<1>5. Leased(R) \in Types
  BY <1>2 DEF Leased, Types
<1>6. Delivered(R) \in Types
  BY <1>2 DEF Delivered, Types
<1>7. Requeued(R) \in Types
  BY <1>1, <1>2 DEF Requeued, Types
<1>8. Dropped(R) \in Types
  BY <1>1, <1>2 DEF Dropped, Types
<1> QED
  BY <1>3, <1>4, <1>5, <1>6, <1>7, <1>8

LEMMA FailedRows ==
  ASSUME row \in Types, NEW R, NEW why \in {"none", "failed", "refused", "not retained"},
         NEW retry \in Nat, NEW dead \in BOOLEAN
  PROVE  Failed(R, why, retry, dead) \in Types
<1> DEFINE After(p) == [row[p] EXCEPT !.status = IF dead THEN "dead" ELSE "pending",
                                      !.wait = IF dead THEN 0 ELSE retry,
                                      !.error = why]
<1>1. ASSUME NEW p \in Pairs PROVE row[p] \in Rows /\ After(p) \in Rows
  BY DEF Types, Rows
<1> QED
  BY <1>1 DEF Failed, Types

(* The delay of an attempt before its jitter: at least one unit, at most the cap. *)
Capped(attempt) ==
    LET d == Doubling[IF attempt < 1 THEN 1 ELSE IF attempt > 10 THEN 11 ELSE attempt]
    IN  IF d > MaxBackoff THEN MaxBackoff ELSE d

LEMMA CappedDelays ==
  ASSUME NEW attempt \in Nat
  PROVE  /\ Capped(attempt) \in 1..MaxBackoff
         /\ WithJitter(Capped(attempt)) \in Nat
         /\ \A delay \in Backoff(attempt) :
               delay \in Nat /\ Capped(attempt) <= delay /\ delay <= WithJitter(Capped(attempt))
<1>1. \A i \in 1..11 : Doubling[i] \in Nat /\ 1 <= Doubling[i]
  BY DEF Doubling
<1> DEFINE k == IF attempt < 1 THEN 1 ELSE IF attempt > 10 THEN 11 ELSE attempt
<1>2. k \in 1..11
  OBVIOUS
<1>3. Doubling[k] \in Nat /\ 1 <= Doubling[k]
  BY <1>1, <1>2
<1>4. Capped(attempt) \in 1..MaxBackoff
  BY <1>3, QueueAssumption DEF Capped
<1>5. Backoff(attempt) = Capped(attempt)..WithJitter(Capped(attempt))
  BY DEF Backoff, Capped
<1>6. WithJitter(Capped(attempt)) \in Nat
  BY <1>4, QueueAssumption DEF WithJitter
<1>7. ASSUME NEW delay \in Backoff(attempt)
      PROVE  delay \in Nat /\ Capped(attempt) <= delay /\ delay <= WithJitter(Capped(attempt))
  <2>1. delay \in Capped(attempt)..WithJitter(Capped(attempt))
    BY <1>5
  <2> QED
    BY <1>4, <1>6, <2>1, QueueAssumption
<1> QED
  BY <1>4, <1>6, <1>7

(* A pause before a retry is a number of units.                             *)
LEMMA BackoffIsNat ==
  ASSUME NEW attempt \in Nat, NEW delay \in Backoff(attempt)
  PROVE  delay \in Nat
BY CappedDelays

(* A retry waits one unit at least, and at most the cap with the jitter of a cap
   on top: the cap is put on before the jitter (push.go: backoff). Of two attempts
   the later one waits no less, whatever the jitter of each, as long as its own
   delay has not run into the cap; at the cap the jitter may let it shrink.   *)
THEOREM BackoffGrows ==
  ASSUME NEW attempt \in Nat, NEW delay \in Backoff(attempt)
  PROVE  /\ 1 <= delay /\ delay <= WithJitter(MaxBackoff)
         /\ \A later \in (attempt + 1)..11 : \A next \in Backoff(later) :
                attempt >= 1 /\ Doubling[later] <= MaxBackoff => delay <= next
<1>1. /\ Capped(attempt) \in 1..MaxBackoff
      /\ delay \in Nat /\ Capped(attempt) <= delay /\ delay <= WithJitter(Capped(attempt))
      /\ WithJitter(Capped(attempt)) \in Nat
  BY CappedDelays
<1>2. MaxBackoff \in Nat
  BY QueueAssumption
<1>3. WithJitter(Capped(attempt)) <= WithJitter(MaxBackoff)
  BY <1>1, <1>2 DEF WithJitter
<1>4. 1 <= delay /\ delay <= WithJitter(MaxBackoff)
  <2>1. WithJitter(MaxBackoff) \in Nat
    BY <1>2 DEF WithJitter
  <2> QED
    BY <1>1, <1>2, <1>3, <2>1
<1>5. ASSUME NEW later \in (attempt + 1)..11, NEW next \in Backoff(later),
             attempt >= 1, Doubling[later] <= MaxBackoff
      PROVE  delay <= next
  <2>1. \A i, j \in 1..11 : i < j => /\ Doubling[i] \in Nat /\ Doubling[j] \in Nat
                                   /\ 1 <= Doubling[i] /\ 2 * Doubling[i] <= Doubling[j]
    BY DEF Doubling
  <2>2. attempt \in 1..11 /\ later \in 1..11 /\ attempt < later /\ later \in Nat
    BY <1>5
  <2>3. /\ Doubling[attempt] \in Nat /\ Doubling[later] \in Nat
        /\ 1 <= Doubling[attempt] /\ 2 * Doubling[attempt] <= Doubling[later]
    BY <2>1, <2>2
  <2>4. Capped(attempt) = Doubling[attempt] /\ Capped(later) = Doubling[later]
    BY <1>2, <1>5, <2>2, <2>3 DEF Capped
  <2>5. next \in Nat /\ Doubling[later] <= next
    <3>1. later \in Nat
      BY <2>2
    <3> QED
      BY <2>4, <3>1, CappedDelays
  <2>6. WithJitter(Doubling[attempt]) <= 2 * Doubling[attempt]
    BY <2>3 DEF WithJitter
  <2>7. delay <= next
    <3>1. delay \in Nat /\ delay <= WithJitter(Doubling[attempt])
      BY <1>1, <2>3, <2>4
    <3>2. WithJitter(Doubling[attempt]) \in Nat
      BY <1>1, <2>4
    <3> QED
      BY <2>3, <2>5, <2>6, <3>1, <3>2
  <2> QED
    BY <2>7
<1> QED
  BY <1>4, <1>5

(* What a step of the dispatcher leaves alone is still well typed.          *)
LEMMA WorkerStates ==
  ASSUME worker \in [Slots -> Workers], NEW w \in Slots
  PROVE  /\ [worker EXCEPT ![w] = Off] \in [Slots -> Workers]
         /\ [worker EXCEPT ![w] = [Off EXCEPT !.at = "ready", !.sub = worker[w].sub]]
                \in [Slots -> Workers]
<1>1. NSubs \in Nat
  BY QueueAssumption
<1>2. worker[w].sub \in 0..NSubs
  BY DEF Workers
<1>3. Off \in Workers
  BY <1>1 DEF Off, Workers
<1>4. [Off EXCEPT !.at = "ready", !.sub = worker[w].sub] \in Workers
  BY <1>2 DEF Off, Workers
<1> QED
  BY <1>3, <1>4

(* Producers, operators, the purge and time keep the tables well typed.     *)
LEMMA OutsideTypes ==
  ASSUME QueueTypeOK, Outside
  PROVE  QueueTypeOK'
<1> USE DEF QueueTypeOK, tableVars, ingestVars, boundVars
<1> row \in Types
  BY DEF Types
<1>1. CASE AppendEvent
  BY <1>1, QueueAssumption DEF AppendEvent, Seqs
<1>2. ASSUME NEW n \in Seqs, MatchingSubscriptions(n) \/ MatchingFails(n) \/ Answer(n) \/ RetryIngest(n)
      PROVE  QueueTypeOK'
  BY <1>2, QueueAssumption DEF MatchingSubscriptions, MatchingFails, Answer, RetryIngest, Fault
<1>3. ASSUME NEW n \in Seqs, NEW s \in Subs, EnqueueDeliveries(n, s) \/ EnqueueFails(n, s)
      PROVE  QueueTypeOK'
  <2>1. Enqueued({<<s, n>>}) \in Types
    BY RowStatements
  <2>2. CASE EnqueueDeliveries(n, s)
    BY <2>1, <2>2 DEF EnqueueDeliveries, Types
  <2>3. CASE EnqueueFails(n, s)
    BY <2>3, QueueAssumption DEF EnqueueFails, Fault
  <2> QED
    BY <1>3, <2>2, <2>3
<1>4. ASSUME NEW s \in Subs, NEW new \in {"active", "paused"}, SetSubscriptionStatus(s, new)
      PROVE  QueueTypeOK'
  BY <1>4, QueueAssumption DEF SetSubscriptionStatus, Intervene
<1>5. ASSUME NEW s \in Subs, CreateSubscription(s) \/ DeleteSubscription(s)
      PROVE  QueueTypeOK'
  <2>1. Dropped({s} \X Seqs) \in Types
    BY RowStatements
  <2>2. 0 \in 0..MaxSeq
    BY QueueAssumption
  <2>3. CASE CreateSubscription(s)
    BY <2>2, <2>3, QueueAssumption DEF CreateSubscription, Intervene
  <2>4. CASE DeleteSubscription(s)
    <3>1. row' \in Types
      BY <2>1, <2>4 DEF DeleteSubscription
    <3>2. status' \in [Subs -> {"absent", "active", "paused"}] /\ cursor' \in [Subs -> 0..MaxSeq]
      BY <2>2, <2>4 DEF DeleteSubscription
    <3>3. UNCHANGED <<events, lastSeq, ingest, todo, since, cutShort, faults, crashes>>
      BY <2>4 DEF DeleteSubscription, Intervene
    <3>4. interventions' \in 0..MaxInterventions
      BY <2>4, QueueAssumption DEF DeleteSubscription, Intervene
    <3> QED
      BY <3>1, <3>2, <3>3, <3>4 DEF Types
  <2> QED
    BY <1>5, <2>3, <2>4
<1>6. ASSUME NEW scope \in {Subs} \cup {{s} : s \in Subs},
             NEW old \in {"pending", "inflight", "delivered", "dead"},
             RequeueDeliveries(scope, old)
      PROVE  QueueTypeOK'
  <2>1. \A R : Requeued(R) \in Types
    BY RowStatements
  <2>2. row' \in Types
    BY <1>6, <2>1 DEF RequeueDeliveries
  <2> QED
    BY <1>6, <2>2, QueueAssumption DEF RequeueDeliveries, Intervene, Types
<1>7. ASSUME NEW old \in SUBSET events, PurgeOlderThan(old)
      PROVE  QueueTypeOK'
  <2>1. Dropped(Subs \X old) \in Types
    BY RowStatements
  <2>2. row' \in Types
    BY <1>7, <2>1 DEF PurgeOlderThan
  <2>3. events' \subseteq Seqs
    BY <1>7 DEF PurgeOlderThan
  <2>4. UNCHANGED <<lastSeq, ingest, todo, status, cursor, since, cutShort, faults, crashes>>
    BY <1>7 DEF PurgeOlderThan, Intervene
  <2>5. interventions' \in 0..MaxInterventions
    BY <1>7, QueueAssumption DEF PurgeOlderThan, Intervene
  <2> QED
    BY <2>2, <2>3, <2>4, <2>5 DEF Types
<1>8. CASE BackoffElapses
  <2>1. ASSUME NEW p \in Pairs
        PROVE  [row[p] EXCEPT !.wait = IF @ > 0 THEN @ - 1 ELSE 0] \in Rows
    <3>1. row[p] \in Rows
      BY DEF Types
    <3>2. row[p].wait \in Nat
      BY <3>1 DEF Rows
    <3>3. (IF row[p].wait > 0 THEN row[p].wait - 1 ELSE 0) \in Nat
      BY <3>2
    <3> QED
      BY <3>1, <3>3 DEF Rows
  <2> QED
    BY <1>8, <2>1 DEF BackoffElapses
<1> QED
  BY <1>1, <1>2, <1>3, <1>4, <1>5, <1>6, <1>7, <1>8 DEF Outside, Ingest, Admin

-----------------------------------------------------------------------------
(* The dispatcher's own steps.                                             *)

LoopTypeOK ==
    /\ loop \in {"recover", "idle", "pass"}
    /\ due \subseteq Subs
    /\ worker \in [Slots -> Workers]
    /\ acked \in [Subs -> SUBSET Seqs]

(* The subscription and the batch of a goroutine, and an attempt number.    *)
LEMMA WorkerParts ==
  ASSUME LoopTypeOK, NEW w \in Slots
  PROVE  /\ worker[w] \in Workers
         /\ worker[w].sub \in 0..NSubs /\ worker[w].batch \in SUBSET Seqs
         /\ worker[w].attempt \in Nat
         /\ worker[w].answer \in {"none", "ok", "failed", "refused"}
BY DEF LoopTypeOK, Workers

(* One goroutine for a subscription at most, and none that the loop does not
   wait for: the part of the inductive invariant that is about goroutines.  *)
Exclusion ==
    /\ loop # "pass" => due = {}
    /\ \A w \in Slots :
           \/ worker[w] = Off
           \/ worker[w].at # "off" /\ worker[w].sub \in Subs \ due /\ loop = "pass"
    /\ \A v, w \in Slots :
           v # w /\ v \in Running /\ w \in Running => worker[v].sub # worker[w].sub

(* The loop's steps, a failing store call and a crash keep the types.       *)
LEMMA LoopTypes ==
  ASSUME TypeOK,
         \/ RecoverInflight \/ RecoverFails \/ StartPass \/ EndPass \/ Crash
         \/ \E w \in Slots : StoreFails(w)
  PROVE  TypeOK'
<1> USE DEF TypeOK, QueueTypeOK, queueVars, tableVars, ingestVars, boundVars
<1>1. CASE RecoverInflight
  <2>1. Recovered \in Types
    BY RowStatements DEF Types
  <2> QED
    BY <1>1, <2>1 DEF RecoverInflight, Types
<1>2. CASE RecoverFails
  BY <1>2, QueueAssumption DEF RecoverFails, Fault
<1>3. CASE StartPass
  <2>1. due' \subseteq Subs
    BY <1>3 DEF StartPass, DueSubscriptionIDs, Lowest
  <2> QED
    BY <1>3, <2>1 DEF StartPass
<1>4. CASE EndPass
  BY <1>4 DEF EndPass
<1>5. CASE Crash
  <2>1. /\ ingest' \in [Seqs -> {"none", "stored", "matched", "answered", "cut"}]
        /\ todo' \in [Seqs -> SUBSET Subs]
        /\ cutShort' \subseteq Seqs
    BY <1>5 DEF Crash, CutIngest
  <2>2. NSubs \in Nat
    BY QueueAssumption
  <2>3. worker' \in [Slots -> Workers]
    BY <1>5, <2>2 DEF Crash, Off, Workers
  <2>4. crashes' \in 0..MaxCrashes
    BY <1>5, QueueAssumption DEF Crash
  <2> QED
    BY <1>5, <2>1, <2>3, <2>4 DEF Crash
<1>6. ASSUME NEW w \in Slots, StoreFails(w)
      PROVE  TypeOK'
  <2>1. worker' \in [Slots -> Workers]
    BY <1>6, WorkerStates DEF StoreFails, Again, Return
  <2>2. faults' \in 0..MaxFaults
    BY <1>6, QueueAssumption DEF StoreFails, Fault
  <2> QED
    BY <1>6, <2>1, <2>2 DEF StoreFails, Fault
<1> QED
  BY <1>1, <1>2, <1>3, <1>4, <1>5, <1>6

(* A step of a goroutine keeps the types.                                   *)
LEMMA DeliverTypes ==
  ASSUME TypeOK, Exclusion, NEW w \in Slots, Deliver(w)
  PROVE  TypeOK'
<1> USE DEF TypeOK, QueueTypeOK, queueVars, tableVars, ingestVars, boundVars
<1> row \in Types /\ LoopTypeOK
  BY DEF Types, LoopTypeOK
<1>n. NSubs \in Nat
  BY QueueAssumption
<1>1. CASE StartWorker(w)
  <2>1. PICK s \in Lowest(due, 1) :
          /\ due' = due \ {s}
          /\ worker' = [worker EXCEPT ![w] = [Off EXCEPT !.at = "started", !.sub = s]]
    BY <1>1 DEF StartWorker
  <2>2. s \in 0..NSubs
    BY <1>n DEF Lowest, Subs
  <2>3. [Off EXCEPT !.at = "started", !.sub = s] \in Workers
    BY <2>2 DEF Off, Workers
  <2> QED
    BY <1>1, <2>1, <2>3 DEF StartWorker
<1>2. CASE GetSubscription(w)
  <2>1. worker' \in [Slots -> Workers]
    BY <1>2, WorkerStates DEF GetSubscription, Again, Return
  <2> QED
    BY <1>2, <2>1 DEF GetSubscription
<1>3. CASE SelectDue(w)
  <2> DEFINE s == worker[w].sub
             batch == DueSeqs(s, BatchSize)
  <2>1. CASE batch = {}
    BY <1>3, <2>1, WorkerStates DEF SelectDue, Return
  <2>2. CASE batch # {}
    <3>1. PICK first \in Lowest(batch, 1) :
            worker' = [worker EXCEPT ![w].at = "selected", ![w].batch = batch,
                                     ![w].attempt = row[<<s, first>>].attempt + 1]
      BY <1>3, <2>2 DEF SelectDue
    <3>2. batch \in SUBSET Seqs /\ first \in batch
      BY DEF DueSeqs, Lowest
    <3>3. row[<<s, first>>].attempt + 1 \in Nat
      <4>1. <<s, first>> \in Pairs
        BY <1>3, <3>2 DEF SelectDue, Exclusion, Off, Pairs
      <4>2. row[<<s, first>>] \in Rows
        BY <4>1 DEF Types
      <4>3. row[<<s, first>>].attempt \in Nat
        BY <4>2 DEF Rows
      <4> QED
        BY <4>3
    <3>4. [worker[w] EXCEPT !.at = "selected", !.batch = batch,
                            !.attempt = row[<<s, first>>].attempt + 1] \in Workers
      BY <3>2, <3>3, WorkerParts DEF Workers
    <3>5. worker' \in [Slots -> Workers]
      BY <3>1, <3>4
    <3> QED
      BY <1>3, <3>5 DEF SelectDue
  <2> QED
    BY <2>1, <2>2
<1>4. CASE Lease(w)
  <2>1. row' \in Types
    BY <1>4, RowStatements DEF Lease
  <2>2. worker' \in [Slots -> Workers]
    BY <1>4 DEF Lease, Workers
  <2> QED
    BY <1>4, <2>1, <2>2 DEF Lease, Types
<1>5. CASE LoadEvents(w)
  <2>1. worker' \in [Slots -> Workers]
    BY <1>5 DEF LoadEvents, Workers
  <2> QED
    BY <1>5, <2>1 DEF LoadEvents
<1>6. CASE ParkOrphans(w)
  <2>1. row' \in Types
    BY <1>6, FailedRows DEF ParkOrphans
  <2>2. worker' \in [Slots -> Workers]
    BY <1>6, WorkerStates DEF ParkOrphans, Again
  <2> QED
    BY <1>6, <2>1, <2>2 DEF ParkOrphans, Types
<1>7. CASE Post(w)
  <2>1. PICK answer \in {"ok", "failed", "refused"} :
          worker' = [worker EXCEPT ![w].at = "answered", ![w].answer = answer]
    BY <1>7 DEF Post
  <2>2. [worker[w] EXCEPT !.at = "answered", !.answer = answer] \in Workers
    BY <2>1, WorkerParts DEF Workers
  <2>3. worker' \in [Slots -> Workers]
    BY <2>1, <2>2
  <2>4. acked' \in [Subs -> SUBSET Seqs]
    <3>1. worker[w].batch \in SUBSET Seqs
      BY WorkerParts
    <3>2. acked' = acked \/ acked' = [acked EXCEPT ![worker[w].sub] = @ \cup worker[w].batch]
      BY <1>7 DEF Post
    <3> QED
      BY <3>1, <3>2
  <2> QED
    BY <1>7, <2>3, <2>4 DEF Post
<1>8. CASE MarkDelivered(w)
  <2>1. row' \in Types
    BY <1>8, RowStatements DEF MarkDelivered
  <2>2. worker' \in [Slots -> Workers]
    BY <1>8, WorkerStates DEF MarkDelivered, Again
  <2>3. PICK last \in worker[w].batch : cursor' = Advanced(worker[w].sub, last)
    BY <1>8 DEF MarkDelivered
  <2>4. last \in 0..MaxSeq
    BY WorkerParts, QueueAssumption DEF Seqs
  <2>5. cursor' \in [Subs -> 0..MaxSeq]
    BY <2>3, <2>4 DEF Advanced
  <2> QED
    BY <1>8, <2>1, <2>2, <2>5 DEF MarkDelivered, Types
<1>9. CASE MarkFailed(w)
  <2> DEFINE dead == worker[w].answer = "refused" \/ Exhausted(worker[w].attempt)
  <2>1. worker[w].answer \in {"failed", "refused", "none"}
    BY <1>9, WorkerParts DEF MarkFailed
  <2>2. PICK delay \in Backoff(worker[w].attempt) :
          row' = Failed(MyRows(w), worker[w].answer, delay, dead)
    BY <1>9 DEF MarkFailed
  <2>3. delay \in Nat
    BY WorkerParts, BackoffIsNat
  <2>4. row' \in Types
    BY <2>1, <2>2, <2>3, FailedRows
  <2>5. worker' \in [Slots -> Workers]
    BY <1>9, WorkerStates DEF MarkFailed, Again
  <2> QED
    BY <1>9, <2>4, <2>5 DEF MarkFailed, Types
<1> QED
  BY <1>1, <1>2, <1>3, <1>4, <1>5, <1>6, <1>7, <1>8, <1>9 DEF Deliver

-----------------------------------------------------------------------------
(* Which goroutines there are.                                             *)

(* A goroutine goes on with its subscription, or ends.                      *)
LEMMA GoroutineMoves ==
  ASSUME Exclusion, worker \in [Slots -> Workers], NEW w \in Slots, NEW after,
         worker[w].at # "off",
         worker' = [worker EXCEPT ![w] = after],
         after = Off \/ (after.at # "off" /\ after.sub = worker[w].sub),
         UNCHANGED <<loop, due>>
  PROVE  Exclusion'
<1>1. worker[w].sub \in Subs \ due /\ loop = "pass"
  BY DEF Exclusion, Off
<1>2. \A v \in Slots : worker'[v] = IF v = w THEN after ELSE worker[v]
  OBVIOUS
<1>3. Running' \subseteq Running
  BY <1>2 DEF Running, Off
<1>4. \A v \in Slots : v \in Running' => worker'[v].sub = worker[v].sub
  BY <1>2 DEF Running, Off
<1>5. ASSUME NEW v \in Slots
      PROVE  \/ worker'[v] = Off
             \/ worker'[v].at # "off" /\ worker'[v].sub \in Subs \ due /\ loop = "pass"
  <2>1. CASE v = w
    BY <1>1, <1>2, <2>1
  <2>2. CASE v # w
    BY <1>2, <2>2 DEF Exclusion
  <2> QED
    BY <2>1, <2>2
<1>6. \A u, v \in Slots : u # v /\ u \in Running' /\ v \in Running'
                             => worker'[u].sub # worker'[v].sub
  BY <1>3, <1>4 DEF Exclusion
<1> QED
  BY <1>5, <1>6 DEF Exclusion, Running

(* Every step of the loop and of the goroutines keeps them apart.           *)
LEMMA ExclusionKept ==
  ASSUME TypeOK, Exclusion, Next
  PROVE  Exclusion'
<1> worker \in [Slots -> Workers]
  BY DEF TypeOK
<1>1. CASE Outside /\ UNCHANGED <<loop, due, worker, acked>>
  BY <1>1 DEF Exclusion, Running
<1>2. CASE RecoverInflight \/ RecoverFails
  BY <1>2 DEF RecoverInflight, RecoverFails, Exclusion, Running
<1>3. CASE StartPass
  <2>1. \A w \in Slots : worker[w] = Off
    BY <1>3 DEF StartPass, Exclusion
  <2> QED
    BY <1>3, <2>1 DEF StartPass, Exclusion, Running, Off
<1>4. CASE EndPass
  <2>1. \A w \in Slots : worker[w] = Off
    BY <1>4 DEF EndPass, Exclusion, Running
  <2> QED
    BY <1>4, <2>1 DEF EndPass, Exclusion, Running, Off
<1>5. CASE Crash
  BY <1>5 DEF Crash, Exclusion, Running, Off
<1>6. ASSUME NEW w \in Slots, StartWorker(w)
      PROVE  Exclusion'
  <2>1. PICK s \in Lowest(due, 1) :
          /\ due' = due \ {s}
          /\ worker' = [worker EXCEPT ![w] = [Off EXCEPT !.at = "started", !.sub = s]]
    BY <1>6 DEF StartWorker
  <2>2. s \in due /\ s \in Subs
    BY DEF Lowest, TypeOK
  <2>3. loop = "pass" /\ loop' = "pass"
    BY <1>6 DEF StartWorker
  <2>4. worker'[w].at = "started" /\ worker'[w].sub = s
    BY <2>1 DEF Off
  <2>5. \A v \in Slots : v # w => worker'[v] = worker[v]
    BY <2>1
  <2>6. \A v \in Slots : v \in Running => worker[v].sub \in Subs \ due
    BY DEF Exclusion, Running, Off
  <2>7. ASSUME NEW v \in Slots
        PROVE  \/ worker'[v] = Off
               \/ worker'[v].at # "off" /\ worker'[v].sub \in Subs \ due' /\ loop' = "pass"
    <3>1. CASE v = w
      BY <2>1, <2>2, <2>3, <2>4, <3>1
    <3>2. CASE v # w
      BY <2>1, <2>3, <2>5, <3>2 DEF Exclusion
    <3> QED
      BY <3>1, <3>2
  <2>8. \A u, v \in Slots : u # v /\ u \in Running' /\ v \in Running'
                               => worker'[u].sub # worker'[v].sub
    <3>1. \A v \in Slots : v # w /\ v \in Running' => v \in Running /\ worker'[v] = worker[v]
      BY <2>5 DEF Running
    <3>2. \A v \in Slots : v # w /\ v \in Running' => worker'[v].sub # s
      BY <3>1, <2>2, <2>6
    <3> QED
      BY <3>1, <3>2, <2>4 DEF Exclusion
  <2> QED
    BY <2>3, <2>7, <2>8 DEF Exclusion, Running
<1>7. ASSUME NEW w \in Slots,
             GetSubscription(w) \/ ParkOrphans(w) \/ MarkDelivered(w) \/ MarkFailed(w) \/ StoreFails(w)
      PROVE  Exclusion'
  <2> DEFINE again == [Off EXCEPT !.at = "ready", !.sub = worker[w].sub]
  <2>1. worker[w].at # "off" /\ UNCHANGED <<loop, due>>
    BY <1>7 DEF GetSubscription, ParkOrphans, MarkDelivered, MarkFailed, StoreFails
  <2>2. again.at # "off" /\ again.sub = worker[w].sub
    BY DEF Off
  <2>3. worker' = [worker EXCEPT ![w] = Off] \/ worker' = [worker EXCEPT ![w] = again]
    BY <1>7 DEF GetSubscription, ParkOrphans, MarkDelivered, MarkFailed, StoreFails, Again, Return
  <2> HIDE DEF again
  <2> QED
    BY <2>1, <2>2, <2>3, GoroutineMoves
<1>8. ASSUME NEW w \in Slots, SelectDue(w)
      PROVE  Exclusion'
  <2> DEFINE batch == DueSeqs(worker[w].sub, BatchSize)
             chosen(first) == [worker[w] EXCEPT !.at = "selected", !.batch = batch,
                                 !.attempt = row[<<worker[w].sub, first>>].attempt + 1]
  <2>1. worker[w].at # "off" /\ UNCHANGED <<loop, due>>
    BY <1>8 DEF SelectDue
  <2>2. \A first : chosen(first).at # "off" /\ chosen(first).sub = worker[w].sub
    BY DEF Workers
  <2>3. worker' = [worker EXCEPT ![w] = Off] \/ \E first : worker' = [worker EXCEPT ![w] = chosen(first)]
    BY <1>8 DEF SelectDue, Return
  <2> HIDE DEF chosen
  <2> QED
    BY <2>1, <2>2, <2>3, GoroutineMoves
<1>9. ASSUME NEW w \in Slots, Lease(w) \/ LoadEvents(w) \/ Post(w)
      PROVE  Exclusion'
  <2> DEFINE at(p) == [worker[w] EXCEPT !.at = p]
             answered(a) == [worker[w] EXCEPT !.at = "answered", !.answer = a]
  <2>1. worker[w].at # "off" /\ UNCHANGED <<loop, due>>
    BY <1>9 DEF Lease, LoadEvents, Post
  <2>2. /\ \A p : p # "off" => at(p).at # "off" /\ at(p).sub = worker[w].sub
        /\ \A a : answered(a).at # "off" /\ answered(a).sub = worker[w].sub
    BY DEF Workers
  <2>3. \/ \E p \in {"leased", "loaded", "orphaned"} : worker' = [worker EXCEPT ![w] = at(p)]
        \/ \E a : worker' = [worker EXCEPT ![w] = answered(a)]
    BY <1>9 DEF Lease, LoadEvents, Post
  <2> HIDE DEF at, answered
  <2> QED
    BY <2>1, <2>2, <2>3, GoroutineMoves
<1> QED
  BY <1>1, <1>2, <1>3, <1>4, <1>5, <1>6, <1>7, <1>8, <1>9 DEF Next, Deliver

-----------------------------------------------------------------------------
(* The theorems.                                                           *)

Inductive == TypeOK /\ Exclusion

LEMMA InitInductive == Init => Inductive
<1> SUFFICES ASSUME Init PROVE Inductive
  OBVIOUS
<1> USE DEF Init, QueueInit
<1>1. QueueTypeOK
  BY QueueAssumption DEF QueueTypeOK, Rows, NoRow
<1>2. NSubs \in Nat
  BY QueueAssumption
<1>3. LoopTypeOK
  BY <1>2 DEF LoopTypeOK, Workers, Off
<1>4. Exclusion
  BY DEF Exclusion, Running, Off
<1> QED
  BY <1>1, <1>3, <1>4 DEF Inductive, TypeOK, LoopTypeOK

LEMMA StepInductive == Inductive /\ [Next]_vars => Inductive'
<1> SUFFICES ASSUME TypeOK, Exclusion, [Next]_vars PROVE TypeOK' /\ Exclusion'
  BY DEF Inductive
<1>1. CASE UNCHANGED vars
  <2> USE <1>1 DEF vars, queueVars, tableVars, ingestVars, boundVars
  <2>1. TypeOK'
    BY DEF TypeOK, QueueTypeOK
  <2>2. Exclusion'
    BY DEF Exclusion, Running
  <2> QED
    BY <2>1, <2>2
<1>2. CASE Next
  <2>1. Exclusion'
    BY <1>2, ExclusionKept
  <2>2. ASSUME Outside, UNCHANGED <<loop, due, worker, acked>>
        PROVE  TypeOK'
    <3>1. QueueTypeOK'
      BY <2>2, OutsideTypes DEF TypeOK
    <3> QED
      BY <2>2, <3>1 DEF TypeOK
  <2>3. ASSUME RecoverInflight \/ RecoverFails \/ StartPass \/ EndPass \/ Crash
        PROVE  TypeOK'
    BY <2>3, LoopTypes
  <2>4. ASSUME NEW w \in Slots, Deliver(w)
        PROVE  TypeOK'
    BY <2>4, DeliverTypes
  <2>5. ASSUME NEW w \in Slots, StoreFails(w)
        PROVE  TypeOK'
    BY <2>5, LoopTypes
  <2> QED
    BY <1>2, <2>1, <2>2, <2>3, <2>4, <2>5 DEF Next
<1> QED
  BY <1>1, <1>2

(* Every reachable state is well typed and its goroutines are apart.        *)
THEOREM InductiveHolds == Spec => []Inductive
<1> QED
  BY InitInductive, StepInductive, PTL DEF Spec

(* The dispatcher's type invariant: what tables, loop and goroutines hold.  *)
THEOREM TypeCorrect == Spec => []TypeOK
<1>1. Inductive => TypeOK
  BY DEF Inductive
<1> QED
  BY <1>1, InductiveHolds, PTL

(* Two goroutines never work on the same row (LeaseDeliveries takes no lock
   for its SELECT): no two run for the same subscription.                   *)
THEOREM Exclusive == Spec => []ExclusiveBatch
<1>1. Inductive => ExclusiveBatch
  BY DEF Inductive, Exclusion, ExclusiveBatch, MyRows, Running, Off
<1> QED
  BY <1>1, InductiveHolds, PTL
-----------------------------------------------------------------------------
(* No lease is lost.                                                       *)

Holds(w) == worker[w].at \in {"leased", "orphaned", "loaded", "answered"}

(* InflightIsHeld with its operators unfolded, row by row.                  *)
Held == faults = 0 /\ loop # "recover" =>
    \A p \in Pairs : row[p].status = "inflight" => \E w \in Slots : p \in MyRows(w) /\ Holds(w)

(* Producers, operators, the purge and time put no row in-flight.           *)
LEMMA OutsideLeasesNothing ==
  ASSUME QueueTypeOK, Outside, NEW p \in Pairs, row'[p].status = "inflight"
  PROVE  row[p].status = "inflight"
<1> USE DEF QueueTypeOK, tableVars, ingestVars, boundVars
<1>1. ASSUME NEW R
      PROVE  /\ Enqueued(R)[p].status = "inflight" => row[p].status = "inflight"
             /\ Requeued(R)[p].status = "inflight" => row[p].status = "inflight"
             /\ Dropped(R)[p].status = "inflight" => row[p].status = "inflight"
  BY DEF Enqueued, Requeued, Dropped, Queued, NoRow
<1>2. CASE UNCHANGED row
  BY <1>2
<1>3. ASSUME NEW n \in Seqs, NEW s \in Subs, EnqueueDeliveries(n, s)
      PROVE  row[p].status = "inflight"
  BY <1>1, <1>3 DEF EnqueueDeliveries
<1>4. ASSUME NEW s \in Subs, DeleteSubscription(s)
      PROVE  row[p].status = "inflight"
  BY <1>1, <1>4 DEF DeleteSubscription
<1>5. ASSUME NEW scope, NEW old, RequeueDeliveries(scope, old)
      PROVE  row[p].status = "inflight"
  BY <1>1, <1>5 DEF RequeueDeliveries
<1>6. ASSUME NEW old \in SUBSET events, PurgeOlderThan(old)
      PROVE  row[p].status = "inflight"
  BY <1>1, <1>6 DEF PurgeOlderThan
<1>7. CASE BackoffElapses
  <2>1. row[p] \in Rows
    OBVIOUS
  <2>2. row'[p] = [row[p] EXCEPT !.wait = IF @ > 0 THEN @ - 1 ELSE 0]
    BY <1>7 DEF BackoffElapses
  <2> QED
    BY <2>1, <2>2 DEF Rows
<1> QED
  BY <1>2, <1>3, <1>4, <1>5, <1>6, <1>7
     DEF Outside, Ingest, Admin, AppendEvent, MatchingSubscriptions, MatchingFails, Answer,
         RetryIngest, EnqueueFails, SetSubscriptionStatus, CreateSubscription

(* A goroutine that marks or parks its batch leaves no row of it in-flight
   and touches no other.                                                    *)
LEMMA BatchMarked ==
  ASSUME row \in Types, NEW R, NEW p \in Pairs,
         \/ row' = Delivered(R)
         \/ \E why, retry, dead : row' = Failed(R, why, retry, dead),
         row'[p].status = "inflight"
  PROVE  p \notin R /\ row[p].status = "inflight"
<1>1. row[p] \in Rows
  BY DEF Types
<1>2. CASE row' = Delivered(R)
  BY <1>1, <1>2 DEF Delivered, Rows
<1>3. ASSUME NEW why, NEW retry, NEW dead, row' = Failed(R, why, retry, dead)
      PROVE  p \notin R /\ row[p].status = "inflight"
  BY <1>1, <1>3 DEF Failed, Rows
<1> QED
  BY <1>2, <1>3

LEMMA HeldKept ==
  ASSUME TypeOK, Held, Next
  PROVE  Held'
<1> SUFFICES ASSUME faults' = 0, loop' # "recover",
                    NEW p \in Pairs, row'[p].status = "inflight"
             PROVE  \E w \in Slots : p \in MyRows(w)' /\ Holds(w)'
  BY DEF Held
<1> worker \in [Slots -> Workers] /\ row \in Types /\ QueueTypeOK
  BY DEF TypeOK, QueueTypeOK, Types
<1> USE DEF queueVars, tableVars, ingestVars, boundVars
<1>0. faults \in Nat
  BY QueueAssumption DEF QueueTypeOK
<1>1. ASSUME Outside, UNCHANGED <<loop, due, worker, acked>>
      PROVE  \E w \in Slots : p \in MyRows(w)' /\ Holds(w)'
  <2>1. row[p].status = "inflight"
    BY <1>1, OutsideLeasesNothing
  <2>2. UNCHANGED faults \/ faults' = faults + 1
    BY <1>1 DEF Outside, Ingest, Admin, AppendEvent, MatchingSubscriptions, MatchingFails,
          Answer, RetryIngest, EnqueueDeliveries, EnqueueFails, SetSubscriptionStatus,
          CreateSubscription, DeleteSubscription, RequeueDeliveries, PurgeOlderThan,
          BackoffElapses, Fault, Intervene
  <2>3. faults = 0
    BY <1>0, <2>2
  <2> QED
    BY <1>1, <2>1, <2>3 DEF Held, MyRows, Holds
<1>2. CASE RecoverInflight
  <2>1. row[p] \in Rows
    BY DEF Types
  <2> QED
    BY <1>2, <2>1 DEF RecoverInflight, Recovered, Rows
<1>3. ASSUME RecoverFails \/ \E w \in Slots : StoreFails(w) PROVE FALSE
  BY <1>0, <1>3 DEF RecoverFails, StoreFails, Fault
<1>4. CASE StartPass \/ EndPass
  <2>1. UNCHANGED <<row, worker, faults>> /\ loop # "recover"
    BY <1>4 DEF StartPass, EndPass
  <2> QED
    BY <2>1 DEF Held, MyRows, Holds
<1>5. CASE Crash
  BY <1>5 DEF Crash
<1>6. ASSUME NEW w \in Slots, Deliver(w)
      PROVE  \E v \in Slots : p \in MyRows(v)' /\ Holds(v)'
  <2>1. UNCHANGED <<loop, faults>>
    BY <1>6 DEF Deliver, StartWorker, GetSubscription, SelectDue, Lease, LoadEvents, ParkOrphans,
                Post, MarkDelivered, MarkFailed
  <2>2. \A v \in Slots : v # w => worker'[v] = worker[v]
    BY <1>6 DEF Deliver, StartWorker, GetSubscription, SelectDue, Lease, LoadEvents, ParkOrphans,
                Post, MarkDelivered, MarkFailed, Again, Return
  <2>3. ASSUME row[p].status = "inflight"
        PROVE  \E v \in Slots : p \in MyRows(v) /\ Holds(v)
    BY <2>1, <2>3 DEF Held
  <2>4. ASSUME NEW v \in Slots, v # w, p \in MyRows(v), Holds(v)
        PROVE  p \in MyRows(v)' /\ Holds(v)'
    BY <2>2, <2>4 DEF MyRows, Holds
  <2>5. CASE StartWorker(w) \/ GetSubscription(w) \/ SelectDue(w)
    <3>1. ~ Holds(w) /\ UNCHANGED row
      BY <2>5 DEF StartWorker, GetSubscription, SelectDue, Holds
    <3> QED
      BY <2>3, <2>4, <3>1
  <2>6. CASE LoadEvents(w) \/ Post(w)
    <3>1. UNCHANGED row
      BY <2>6 DEF LoadEvents, Post
    <3>2. /\ worker'[w].at \in {"loaded", "orphaned", "answered"}
          /\ worker'[w].sub = worker[w].sub /\ worker'[w].batch = worker[w].batch
      <4>1. worker[w] \in Workers
        OBVIOUS
      <4>2. \/ \E at \in {"loaded", "orphaned"} : worker'[w] = [worker[w] EXCEPT !.at = at]
            \/ \E a : worker'[w] = [worker[w] EXCEPT !.at = "answered", !.answer = a]
        BY <2>6 DEF LoadEvents, Post
      <4> QED
        BY <4>1, <4>2 DEF Workers
    <3>3. p \in MyRows(w) => p \in MyRows(w)' /\ Holds(w)'
      BY <3>2 DEF MyRows, Holds
    <3> QED
      BY <2>3, <2>4, <3>1, <3>3
  <2>7. CASE Lease(w)
    <3>1. worker[w].at = "selected" /\ worker'[w] = [worker[w] EXCEPT !.at = "leased"]
          /\ row' = Leased(MyRows(w))
      BY <2>7 DEF Lease
    <3>2. CASE p \in MyRows(w)
      BY <3>1, <3>2 DEF MyRows, Holds, Workers
    <3>3. CASE p \notin MyRows(w)
      <4>1. row[p].status = "inflight"
        BY <3>1, <3>3 DEF Leased
      <4> QED
        BY <2>3, <2>4, <3>3, <4>1
    <3> QED
      BY <3>2, <3>3
  <2>8. CASE ParkOrphans(w) \/ MarkDelivered(w) \/ MarkFailed(w)
    <3>1. \/ row' = Delivered(MyRows(w))
          \/ \E why, retry, dead : row' = Failed(MyRows(w), why, retry, dead)
      BY <2>8 DEF ParkOrphans, MarkDelivered, MarkFailed
    <3>2. p \notin MyRows(w) /\ row[p].status = "inflight"
      BY <3>1, BatchMarked
    <3> QED
      BY <2>3, <2>4, <3>2
  <2> QED
    BY <1>6, <2>5, <2>6, <2>7, <2>8 DEF Deliver
<1> QED
  BY <1>1, <1>2, <1>3, <1>4, <1>5, <1>6 DEF Next

(* As long as no store call fails, a row is in-flight only while a goroutine
   holds it or until the recovery at start-up has run: RecoverInflight and the
   two marks leave no lease behind.                                         *)
THEOREM NoLeaseLost == Spec => []InflightIsHeld
<1>1. Init => Held
  BY DEF Init, QueueInit, Held
<1>2. Inductive /\ Held /\ [Next]_vars => Held'
  <2>1. CASE UNCHANGED vars
    BY <2>1 DEF vars, queueVars, tableVars, boundVars, Held, MyRows, Holds
  <2>2. Inductive /\ Held /\ Next => Held'
    BY HeldKept DEF Inductive
  <2> QED
    BY <2>1, <2>2
<1>3. Held => InflightIsHeld
  BY DEF Held, InflightIsHeld, Holds
<1> QED
  BY <1>1, <1>2, <1>3, InductiveHolds, PTL DEF Spec
=============================================================================
