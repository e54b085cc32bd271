------------------------ MODULE DispatcherInvariants ------------------------
(***************************************************************************)
(* Proofs of what links the delivery table to the cursors of the           *)
(* subscriptions and to the answers of the producers.                      *)
(***************************************************************************)
EXTENDS DispatcherRefinement, FiniteSetTheorems

(* A fan-out takes no row away.                                             *)
LEMMA IngestRemovesNothing ==
  ASSUME TypeOK, Ingest
  PROVE  /\ UNCHANGED <<interventions, status, since>>
         /\ \A p \in Pairs : Place(p) # "out" => Place(p)' # "out"
         /\ faults' = 0 => faults = 0
         /\ crashes' = 0 => crashes = 0
<1> row \in Types
  BY DEF TypeOK, QueueTypeOK, Types
<1> USE DEF queueVars, tableVars, ingestVars, boundVars
<1>0. interventions \in Nat /\ faults \in Nat /\ crashes \in Nat
  BY QueueAssumption DEF TypeOK, QueueTypeOK
<1>1. ASSUME NEW n \in Seqs, NEW s \in Subs, EnqueueDeliveries(n, s)
      PROVE  UNCHANGED <<interventions, status, since, faults, crashes>> /\ row' = Enqueued({<<s, n>>})
  BY <1>1 DEF EnqueueDeliveries
<1>2. ASSUME NEW n \in Seqs, NEW s \in Subs, EnqueueFails(n, s)
      PROVE  UNCHANGED <<interventions, status, since, crashes, row>> /\ faults' = faults + 1
  BY <1>2 DEF EnqueueFails, Fault
<1>3. ASSUME NEW n \in Seqs, MatchingSubscriptions(n) \/ Answer(n) \/ RetryIngest(n)
      PROVE  UNCHANGED <<interventions, status, since, faults, crashes, row>>
  BY <1>3 DEF MatchingSubscriptions, Answer, RetryIngest
<1>4. ASSUME NEW n \in Seqs, MatchingFails(n)
      PROVE  UNCHANGED <<interventions, status, since, crashes, row>> /\ faults' = faults + 1
  BY <1>4 DEF MatchingFails, Fault
<1>5. CASE AppendEvent
  BY <1>5, PlaceMoves DEF AppendEvent
<1>6. \/ \E R : UNCHANGED <<interventions, status, since, faults, crashes>> /\ row' = Enqueued(R)
      \/ UNCHANGED <<interventions, status, since, crashes, row>> /\ faults' = faults + 1
      \/ UNCHANGED <<interventions, status, since, faults, crashes, row>>
  BY <1>1, <1>2, <1>3, <1>4, <1>5 DEF Ingest, AppendEvent
<1> QED
  BY <1>0, <1>6, PlaceMoves

(* What all but the operators leave alone: subscriptions stay, rows stay.    *)
LEMMA OthersRemoveNothing ==
  ASSUME TypeOK, Next, ~ Admin
  PROVE  /\ UNCHANGED <<interventions, status, since>>
         /\ \A p \in Pairs : Place(p) # "out" => Place(p)' # "out"
         /\ faults' = 0 => faults = 0
         /\ crashes' = 0 => crashes = 0
<1> row \in Types
  BY DEF TypeOK, QueueTypeOK, Types
<1> USE DEF queueVars, tableVars, ingestVars, boundVars
<1>0. interventions \in Nat /\ faults \in Nat /\ crashes \in Nat
  BY QueueAssumption DEF TypeOK, QueueTypeOK
<1>2. CASE Ingest
  BY <1>2, IngestRemovesNothing
<1>4. CASE BackoffElapses
  BY <1>4, PlaceMoves DEF BackoffElapses
<1>5. CASE RecoverInflight
  BY <1>5, PlaceMoves DEF RecoverInflight
<1>6. CASE RecoverFails \/ StartPass \/ EndPass
  <2>1. UNCHANGED <<interventions, status, since, crashes, row>> /\ (UNCHANGED faults \/ faults' = faults + 1)
    BY <1>6 DEF RecoverFails, StartPass, EndPass, Fault
  <2> QED
    BY <1>0, <2>1, PlaceMoves
<1>7. CASE Crash
  BY <1>0, <1>7, PlaceMoves DEF Crash
<1>8. ASSUME NEW w \in Slots, Deliver(w) \/ StoreFails(w)
      PROVE  /\ UNCHANGED <<interventions, status, since>>
             /\ \A p \in Pairs : Place(p) # "out" => Place(p)' # "out"
             /\ faults' = 0 => faults = 0
             /\ crashes' = 0 => crashes = 0
  <2>1. UNCHANGED <<interventions, status, since, crashes>> /\ (UNCHANGED faults \/ faults' = faults + 1)
    BY <1>8 DEF Deliver, StartWorker, GetSubscription, SelectDue, Lease, LoadEvents, ParkOrphans,
                Post, MarkDelivered, MarkFailed, StoreFails, Fault
  <2>2. \/ UNCHANGED row
        \/ \E R : row' = Leased(R) \/ row' = Delivered(R)
        \/ \E R, why, retry : \E dead \in BOOLEAN : row' = Failed(R, why, retry, dead)
    BY <1>8 DEF Deliver, StartWorker, GetSubscription, SelectDue, Lease, LoadEvents, ParkOrphans,
                Post, MarkDelivered, MarkFailed, StoreFails
  <2> QED
    BY <1>0, <2>1, <2>2, PlaceMoves
<1> QED
  BY <1>2, <1>4, <1>5, <1>6, <1>7, <1>8 DEF Next, Outside

(* A step that leaves no intervention behind is no operator's.              *)
LEMMA QuietStep ==
  ASSUME TypeOK, Next, interventions' = 0
  PROVE  /\ ~ Admin /\ UNCHANGED <<interventions, status>>
         /\ \A p \in Pairs : Place(p) # "out" => Place(p)' # "out"
         /\ faults' = 0 => faults = 0
         /\ crashes' = 0 => crashes = 0
<1>1. interventions \in Nat
  BY QueueAssumption DEF TypeOK, QueueTypeOK
<1>2. Admin => Intervene
  BY DEF Admin, SetSubscriptionStatus, CreateSubscription, DeleteSubscription,
         RequeueDeliveries, PurgeOlderThan
<1>3. ~ Intervene
  BY <1>1 DEF Intervene
<1> QED
  BY <1>2, <1>3, OthersRemoveNothing

-----------------------------------------------------------------------------
(* The cursor.                                                             *)

Done(s) == {n \in Seqs : Place(<<s, n>>) = "delivered"}

CursorInv == interventions = 0 =>
    \A s \in Subs :
        /\ status[s] # "absent"
        /\ cursor[s] \in Done(s) \cup {0}
        /\ \A n \in Done(s) : n <= cursor[s]

(* Only MarkDelivered adds to what is delivered or moves a cursor.          *)
LEMMA OthersDeliverNothing ==
  ASSUME TypeOK, Exclusion, BatchOpen, Next, interventions' = 0,
         ~ \E w \in Slots : MarkDelivered(w)
  PROVE  /\ UNCHANGED cursor
         /\ \A p \in Pairs : Place(p)' = "delivered" <=> Place(p) = "delivered"
<1> row \in Types
  BY DEF TypeOK, QueueTypeOK, Types
<1> USE DEF queueVars, tableVars, ingestVars, boundVars
<1>1. UNCHANGED interventions
  BY QuietStep
<1>2. ~ Intervene
  BY <1>1, QueueAssumption DEF Intervene, TypeOK, QueueTypeOK
<1>3. CASE Ingest
  <2>1. UNCHANGED cursor /\ (UNCHANGED row \/ \E R : row' = Enqueued(R))
    BY <1>3 DEF Ingest, AppendEvent, MatchingSubscriptions, MatchingFails, Answer, RetryIngest,
                EnqueueDeliveries, EnqueueFails, Fault
  <2> QED
    BY <2>1, PlaceMoves
<1>4. CASE Admin
  BY <1>2, <1>4 DEF Admin, SetSubscriptionStatus, CreateSubscription, DeleteSubscription,
                    RequeueDeliveries, PurgeOlderThan
<1>5. CASE BackoffElapses
  BY <1>5, PlaceMoves DEF BackoffElapses
<1>6. CASE RecoverInflight
  BY <1>6, PlaceMoves DEF RecoverInflight
<1>7. CASE RecoverFails \/ StartPass \/ EndPass \/ Crash
  <2>1. UNCHANGED <<row, cursor>>
    BY <1>7 DEF RecoverFails, StartPass, EndPass, Crash
  <2> QED
    BY <2>1, PlaceMoves
<1>8. ASSUME NEW w \in Slots, Deliver(w) \/ StoreFails(w)
      PROVE  /\ UNCHANGED cursor
             /\ \A p \in Pairs : Place(p)' = "delivered" <=> Place(p) = "delivered"
  <2>1. UNCHANGED cursor
    BY <1>8 DEF Deliver, StartWorker, GetSubscription, SelectDue, Lease, LoadEvents, ParkOrphans,
                Post, MarkFailed, StoreFails
  <2>2. \/ UNCHANGED row
        \/ \E R : row' = Leased(R)
        \/ HasBatch(w) /\ \E why, retry : \E dead \in BOOLEAN : row' = Failed(MyRows(w), why, retry, dead)
    BY <1>8 DEF Deliver, StartWorker, GetSubscription, SelectDue, Lease, LoadEvents, ParkOrphans,
                Post, MarkFailed, StoreFails, HasBatch
  <2>3. HasBatch(w) => \A p \in MyRows(w) : Place(p) = "queued"
    BY <1>1 DEF BatchOpen, Open
  <2> QED
    BY <2>1, <2>2, <2>3, PlaceMoves
<1> QED
  BY <1>3, <1>4, <1>5, <1>6, <1>7, <1>8 DEF Next, Outside

LEMMA CursorKept ==
  ASSUME TypeOK, Exclusion, BatchOpen, CursorInv, Next
  PROVE  CursorInv'
<1> SUFFICES ASSUME interventions' = 0, NEW t \in Subs
             PROVE  /\ status'[t] # "absent"
                    /\ cursor'[t] \in Done(t)' \cup {0}
                    /\ \A n \in Done(t)' : n <= cursor'[t]
  BY DEF CursorInv
<1> row \in Types /\ cursor \in [Subs -> 0..MaxSeq]
  BY DEF TypeOK, QueueTypeOK, Types
<1>1. interventions = 0 /\ UNCHANGED status
  BY QuietStep
<1>2. /\ status[t] # "absent" /\ cursor[t] \in Done(t) \cup {0}
      /\ \A n \in Done(t) : n <= cursor[t]
  BY <1>1 DEF CursorInv
<1>3. \A n \in Seqs : <<t, n>> \in Pairs
  BY DEF Pairs
<1>4. CASE ~ \E w \in Slots : MarkDelivered(w)
  <2>1. UNCHANGED cursor /\ Done(t)' = Done(t)
    BY <1>3, <1>4, OthersDeliverNothing DEF Done
  <2> QED
    BY <1>1, <1>2, <2>1
<1>5. ASSUME NEW w \in Slots, MarkDelivered(w)
      PROVE  cursor'[t] \in Done(t)' \cup {0} /\ \A n \in Done(t)' : n <= cursor'[t]
  <2> DEFINE s == worker[w].sub
             batch == worker[w].batch
  <2>1. PICK last \in batch : (\A n \in batch : n <= last) /\ cursor' = Advanced(s, last)
    BY <1>5 DEF MarkDelivered
  <2>2. row' = Delivered(MyRows(w)) /\ HasBatch(w)
    BY <1>5 DEF MarkDelivered, HasBatch
  <2>3. s \in Subs /\ batch \subseteq Seqs
    BY <2>2, BatchRows
  <2>4. \A n \in Seqs : <<t, n>> \in MyRows(w) <=> t = s /\ n \in batch
    BY DEF MyRows
  <2>5. \A p \in MyRows(w) : Place(p) = "queued"
    BY <1>1, <2>2 DEF BatchOpen, Open
  <2>6. \A n \in Seqs : Place(<<t, n>>)' = IF t = s /\ n \in batch THEN "delivered" ELSE Place(<<t, n>>)
    BY <1>3, <2>2, <2>4, <2>5, PlaceMoves
  <2>7. Done(t)' = IF t = s THEN Done(t) \cup batch ELSE Done(t)
    BY <2>3, <2>6 DEF Done
  <2> HIDE DEF s, batch
  <2>8. CASE t # s
    BY <1>2, <2>1, <2>3, <2>7, <2>8 DEF Advanced
  <2>9. CASE t = s
    <3>1. cursor'[t] = IF cursor[t] < last THEN last ELSE cursor[t]
      BY <1>2, <2>1, <2>3, <2>9 DEF Advanced
    <3>2. Done(t)' = Done(t) \cup batch
      BY <2>7, <2>9
    <3>3. last \in Nat /\ cursor[t] \in Nat /\ Done(t) \subseteq Nat /\ batch \subseteq Nat
      BY <2>1, <2>3, QueueAssumption DEF Seqs, Done
    <3> QED
      BY <1>2, <2>1, <3>1, <3>2, <3>3
  <2> QED
    BY <2>8, <2>9
<1> QED
  BY <1>1, <1>2, <1>4, <1>5
(* The cursor of a push subscription is the newest seq marked delivered to it,
   for every interleaving of batches, crashes and failed calls.             *)
THEOREM CursorCorrect == Spec => []CursorIsNewestDelivered
<1>1. Init => CursorInv
  <2> SUFFICES ASSUME Init, NEW s \in Subs
               PROVE  status[s] # "absent" /\ cursor[s] = 0 /\ Done(s) = {}
    BY DEF CursorInv
  <2>1. status[s] # "absent" /\ cursor[s] = 0
    BY DEF Init, QueueInit
  <2>2. \A n \in Seqs : Place(<<s, n>>) = "out"
    BY DEF Init, QueueInit, Place, NoRow, Pairs
  <2> QED
    BY <2>1, <2>2 DEF Done
<1>2. Inductive /\ BatchOpen /\ CursorInv /\ [Next]_vars => CursorInv'
  <2>1. CASE UNCHANGED vars
    BY <2>1 DEF vars, queueVars, tableVars, boundVars, CursorInv, Done, Place
  <2>2. Inductive /\ BatchOpen /\ CursorInv /\ Next => CursorInv'
    BY CursorKept DEF Inductive
  <2> QED
    BY <2>1, <2>2
<1>3. Inductive /\ CursorInv => CursorIsNewestDelivered
  <2> SUFFICES ASSUME Inductive, CursorInv, interventions = 0, NEW s \in Subs
               PROVE  /\ cursor[s] \in {n \in Seqs : row[<<s, n>>].status = "delivered"} \cup {0}
                      /\ \A n \in Seqs : row[<<s, n>>].status = "delivered" => n <= cursor[s]
    BY DEF CursorIsNewestDelivered
  <2>1. \A n \in Seqs : Place(<<s, n>>) = "delivered" <=> row[<<s, n>>].status = "delivered"
    BY DEF Place
  <2> QED
    BY <2>1 DEF CursorInv, Done
<1> QED
  BY <1>1, <1>2, <1>3, BatchesStayOpen, InductiveHolds, PTL DEF Spec
-----------------------------------------------------------------------------
(* The answer of the producer.                                             *)

(* A seq that is gone does not come back.                                   *)
LEMMA SeqsGrow ==
  ASSUME TypeOK, Next
  PROVE  /\ lastSeq <= lastSeq'
         /\ \A n \in Seqs : n <= lastSeq /\ n \in events' => n \in events
<1> USE DEF queueVars, tableVars, ingestVars, boundVars
<1>1. lastSeq \in Nat /\ \A n \in Seqs : n \in Nat
  BY QueueAssumption DEF TypeOK, QueueTypeOK, Seqs
<1>2. CASE AppendEvent
  BY <1>1, <1>2 DEF AppendEvent
<1>3. ASSUME ~ AppendEvent
      PROVE  UNCHANGED lastSeq /\ events' \subseteq events
  <2>1. CASE Ingest \/ Admin
    BY <1>3, <2>1 DEF Ingest, MatchingSubscriptions, MatchingFails, Answer, RetryIngest,
                      EnqueueDeliveries, EnqueueFails, Admin, SetSubscriptionStatus,
                      CreateSubscription, DeleteSubscription, RequeueDeliveries, PurgeOlderThan
  <2>2. CASE BackoffElapses \/ RecoverInflight \/ RecoverFails \/ StartPass \/ EndPass \/ Crash
    BY <2>2 DEF BackoffElapses, RecoverInflight, RecoverFails, StartPass, EndPass, Crash
  <2>3. ASSUME NEW w \in Slots, Deliver(w) \/ StoreFails(w)
        PROVE  UNCHANGED <<events, lastSeq>>
    BY <2>3 DEF Deliver, StartWorker, GetSubscription, SelectDue, Lease, LoadEvents, ParkOrphans,
                Post, MarkDelivered, MarkFailed, StoreFails
  <2> QED
    BY <2>1, <2>2, <2>3 DEF Next, Outside
<1> QED
  BY <1>1, <1>2, <1>3

(* Only what has been stored has been fanned out.                           *)
KnownFanOut == \A n \in Seqs : ingest[n] # "none" \/ todo[n] # {} => n <= lastSeq

(* A fan-out that lost nothing has queued the event for a subscription, or has
   that subscription still to do.                                            *)
FanOut(s, n) ==
    /\ ingest[n] = "answered" => Place(<<s, n>>) # "out"
    /\ ingest[n] = "matched" => Place(<<s, n>>) # "out" \/ s \in todo[n]

AcceptedInv ==
    /\ KnownFanOut
    /\ \A n \in Seqs : ingest[n] = "cut" => n \in cutShort
    /\ \A s \in Subs, n \in events \ cutShort :
          status[s] # "absent" /\ since[s] < n => FanOut(s, n)

(* Only a fan-out and a crash move a request, and only a fan-out and the
   operators change which events there are.                                  *)
LEMMA OthersLeaveRequests ==
  ASSUME Next, ~ Ingest, ~ Crash
  PROVE  UNCHANGED ingestVars /\ (~ Admin => UNCHANGED <<events, lastSeq>>)
<1> USE DEF queueVars, tableVars, ingestVars, boundVars
<1>1. CASE Admin
  BY <1>1 DEF Admin, SetSubscriptionStatus, CreateSubscription, DeleteSubscription,
              RequeueDeliveries, PurgeOlderThan
<1>2. CASE BackoffElapses \/ RecoverInflight \/ RecoverFails \/ StartPass \/ EndPass
  BY <1>2 DEF BackoffElapses, RecoverInflight, RecoverFails, StartPass, EndPass
<1>3. ASSUME NEW w \in Slots, Deliver(w) \/ StoreFails(w)
      PROVE  UNCHANGED ingestVars /\ UNCHANGED <<events, lastSeq>>
  BY <1>3 DEF Deliver, StartWorker, GetSubscription, SelectDue, Lease, LoadEvents, ParkOrphans,
              Post, MarkDelivered, MarkFailed, StoreFails
<1> QED
  BY <1>1, <1>2, <1>3 DEF Next, Outside

(* A request that is under way carries a stored event.                      *)
LEMMA FanOutKnown ==
  ASSUME TypeOK, Exclusion, KnownFanOut, Next
  PROVE  KnownFanOut'
<1> SUFFICES ASSUME NEW m \in Seqs, ingest'[m] # "none" \/ todo'[m] # {}
             PROVE  m <= lastSeq'
  BY DEF KnownFanOut
<1> USE DEF queueVars, tableVars, ingestVars, boundVars
<1>0. lastSeq \in Nat /\ m \in Nat /\ lastSeq <= lastSeq' /\ lastSeq' \in Nat
  <2>1. lastSeq' \in 0..MaxSeq
    BY StepInductive DEF Inductive, TypeOK, QueueTypeOK
  <2> QED
    BY <2>1, SeqsGrow, QueueAssumption DEF TypeOK, QueueTypeOK, Seqs
<1>1. CASE ingest[m] # "none" \/ todo[m] # {}
  BY <1>0, <1>1 DEF KnownFanOut
<1>2. CASE ingest[m] = "none" /\ todo[m] = {}
  <2>1. CASE AppendEvent
    BY <1>0, <1>2, <2>1 DEF AppendEvent, TypeOK, QueueTypeOK
  <2>2. CASE Ingest /\ ~ AppendEvent
    BY <1>2, <2>2 DEF Ingest, MatchingSubscriptions, MatchingFails, Answer, RetryIngest,
                      EnqueueDeliveries, EnqueueFails, TypeOK, QueueTypeOK
  <2>3. CASE Crash
    BY <1>2, <2>3 DEF Crash, CutIngest
  <2>4. CASE ~ Ingest /\ ~ Crash
    BY <1>2, <2>4, OthersLeaveRequests
  <2> QED
    BY <2>1, <2>2, <2>3, <2>4
<1> QED
  BY <1>1, <1>2

(* The fan-out of one event to one subscription, through every step.        *)
LEMMA FanOutKept ==
  ASSUME TypeOK, Exclusion, AcceptedInv, Next, NEW s \in Subs, NEW m \in events' \ cutShort',
         status'[s] # "absent", since'[s] < m
  PROVE  FanOut(s, m)'
<1> DEFINE p == <<s, m>>
<1> USE DEF queueVars, tableVars, ingestVars, boundVars
<1> row \in Types
  BY DEF TypeOK, QueueTypeOK, Types
<1>0. m \in Seqs /\ p \in Pairs
  BY StepInductive DEF Inductive, TypeOK, QueueTypeOK, Pairs
<1>1. ASSUME UNCHANGED ingestVars, UNCHANGED <<events, status, since>>, Place(p) # "out" => Place(p)' # "out"
      PROVE  FanOut(s, m)'
  BY <1>1 DEF AcceptedInv, FanOut
<1>2. CASE Ingest
  <2>1. ~ Admin => UNCHANGED <<status, since>> /\ (Place(p) # "out" => Place(p)' # "out")
    BY <1>0, OthersRemoveNothing
  <2>2. UNCHANGED <<status, since>> /\ (Place(p) # "out" => Place(p)' # "out")
    BY <1>0, <1>2, IngestRemovesNothing
  <2>3. CASE AppendEvent
    <3>1. ingest' = [ingest EXCEPT ![lastSeq'] = "stored"] /\ UNCHANGED <<todo, cutShort>>
          /\ events' = events \cup {lastSeq'}
      BY <2>3 DEF AppendEvent
    <3>2. CASE m = lastSeq'
      BY <1>0, <3>1, <3>2 DEF FanOut, TypeOK, QueueTypeOK
    <3> QED
      BY <2>2, <3>1, <3>2 DEF AcceptedInv, FanOut
  <2>4. ASSUME UNCHANGED events, cutShort \subseteq cutShort'
        PROVE  FanOut(s, m)
    BY <2>2, <2>4 DEF AcceptedInv
  <2>5. ASSUME NEW n \in Seqs, MatchingSubscriptions(n)
        PROVE  FanOut(s, m)'
    BY <2>2, <2>4, <2>5 DEF MatchingSubscriptions, FanOut, TypeOK, QueueTypeOK
  <2>6. ASSUME NEW n \in Seqs, NEW t \in Subs, EnqueueDeliveries(n, t)
        PROVE  FanOut(s, m)'
    <3>1. <<t, n>> \in Pairs /\ Place(<<t, n>>)' # "out"
      BY <2>6, PlaceMoves DEF EnqueueDeliveries, Pairs
    <3>2. UNCHANGED ingest /\ todo' = [todo EXCEPT ![n] = @ \ {t}] /\ FanOut(s, m)
      BY <2>4, <2>6 DEF EnqueueDeliveries
    <3>3. CASE m = n /\ s = t
      BY <3>1, <3>3 DEF FanOut
    <3>4. CASE ~ (m = n /\ s = t)
      BY <1>0, <2>2, <3>2, <3>4 DEF FanOut, TypeOK, QueueTypeOK
    <3> QED
      BY <3>3, <3>4
  <2>7. ASSUME NEW n \in Seqs, NEW t \in Subs, EnqueueFails(n, t)
        PROVE  FanOut(s, m)'
    BY <1>0, <2>2, <2>4, <2>7 DEF EnqueueFails, Fault, FanOut, TypeOK, QueueTypeOK
  <2>8. ASSUME NEW n \in Seqs, Answer(n)
        PROVE  FanOut(s, m)'
    BY <1>0, <2>2, <2>4, <2>8 DEF Answer, FanOut, TypeOK, QueueTypeOK
  <2>9. ASSUME NEW n \in Seqs, MatchingFails(n)
        PROVE  FanOut(s, m)'
    BY <1>0, <2>2, <2>4, <2>9 DEF MatchingFails, Fault, FanOut, TypeOK, QueueTypeOK
  <2>10. ASSUME NEW n \in Seqs, RetryIngest(n)
         PROVE  FanOut(s, m)'
    <3>1. n \in cutShort' /\ UNCHANGED todo /\ ingest' = [ingest EXCEPT ![n] = "answered"]
      BY <2>10 DEF RetryIngest, AcceptedInv
    <3> QED
      BY <2>2, <2>4, <2>10, <3>1 DEF RetryIngest, FanOut, TypeOK, QueueTypeOK
  <2> QED
    BY <1>2, <2>3, <2>5, <2>6, <2>7, <2>8, <2>9, <2>10 DEF Ingest
<1>3. ASSUME NEW t \in Subs, NEW new \in {"active", "paused"}, SetSubscriptionStatus(t, new)
      PROVE  FanOut(s, m)'
  <2>1. status[s] # "absent" /\ UNCHANGED <<events, since, ingest, todo, cutShort, row>>
    BY <1>3 DEF SetSubscriptionStatus, TypeOK, QueueTypeOK
  <2> QED
    BY <2>1 DEF AcceptedInv, FanOut, Place
<1>4. ASSUME NEW t \in Subs, CreateSubscription(t)
      PROVE  FanOut(s, m)'
  <2>1. UNCHANGED <<events, lastSeq, ingest, todo, cutShort, row>>
    BY <1>4 DEF CreateSubscription
  <2>2. CASE s = t
    <3>1. since'[s] = lastSeq
      BY <1>4, <2>2 DEF CreateSubscription, TypeOK, QueueTypeOK
    <3>2. ~ (m <= lastSeq)
      BY <1>0, <3>1, QueueAssumption DEF TypeOK, QueueTypeOK, Seqs
    <3>3. ingest[m] = "none"
      BY <1>0, <3>2 DEF AcceptedInv, KnownFanOut
    <3> QED
      BY <2>1, <3>3 DEF FanOut
  <2>3. CASE s # t
    <3>1. status[s] # "absent" /\ since[s] < m
      BY <1>4, <2>3 DEF CreateSubscription, TypeOK, QueueTypeOK
    <3> QED
      BY <2>1, <3>1 DEF AcceptedInv, FanOut, Place
  <2> QED
    BY <2>2, <2>3
<1>5. ASSUME NEW t \in Subs, DeleteSubscription(t)
      PROVE  FanOut(s, m)'
  <2>1. s # t /\ status[s] # "absent" /\ UNCHANGED <<events, since, ingest, todo, cutShort>>
    BY <1>5 DEF DeleteSubscription, TypeOK, QueueTypeOK
  <2>2. row'[p] = row[p]
    BY <1>0, <1>5, <2>1 DEF DeleteSubscription, Dropped
  <2> QED
    BY <2>1, <2>2 DEF AcceptedInv, FanOut, Place
<1>6. ASSUME NEW scope, NEW old \in {"pending", "inflight", "delivered", "dead"},
             RequeueDeliveries(scope, old)
      PROVE  FanOut(s, m)'
  <2>1. UNCHANGED <<events, since, status, ingest, todo, cutShort>>
        /\ \E R : row' = Requeued(R)
    BY <1>6 DEF RequeueDeliveries
  <2>2. Place(p) # "out" => Place(p)' # "out"
    BY <1>0, <2>1 DEF Requeued, Queued, Place
  <2> QED
    BY <1>1, <2>1, <2>2
<1>7. ASSUME NEW old \in SUBSET events, PurgeOlderThan(old)
      PROVE  FanOut(s, m)'
  <2>1. m \in events \ old /\ UNCHANGED <<since, status, ingest, todo, cutShort>>
        /\ row' = Dropped(Subs \X old)
    BY <1>7 DEF PurgeOlderThan
  <2>2. row'[p] = row[p]
    BY <1>0, <2>1 DEF Dropped
  <2> QED
    BY <2>1, <2>2 DEF AcceptedInv, FanOut, Place
<1>8. CASE Crash
  <2>1. /\ ingest' = [n \in Seqs |-> IF ingest[n] \in {"stored", "matched"} THEN "cut" ELSE ingest[n]]
        /\ cutShort' = cutShort \cup {n \in Seqs : ingest[n] \in {"stored", "matched"}}
        /\ UNCHANGED <<events, status, since, row>>
    BY <1>8 DEF Crash, CutIngest
  <2>2. ingest'[m] = ingest[m] /\ ingest[m] # "matched" /\ m \in events \ cutShort
    BY <1>0, <2>1
  <2> QED
    BY <2>1, <2>2 DEF AcceptedInv, FanOut, Place
<1>9. CASE ~ Ingest /\ ~ Admin /\ ~ Crash
  <2>1. UNCHANGED ingestVars /\ UNCHANGED <<status, since>> /\ (Place(p) # "out" => Place(p)' # "out")
    BY <1>0, <1>9, OthersLeaveRequests, OthersRemoveNothing
  <2>2. UNCHANGED events
    BY <1>9, OthersLeaveRequests
  <2> QED
    BY <1>1, <2>1, <2>2
<1> QED
  BY <1>2, <1>3, <1>4, <1>5, <1>6, <1>7, <1>8, <1>9 DEF Admin

LEMMA AcceptedKept ==
  ASSUME TypeOK, Exclusion, AcceptedInv, Next
  PROVE  AcceptedInv'
<1> USE DEF queueVars, tableVars, ingestVars, boundVars
<1>1. ASSUME NEW n \in Seqs, ingest'[n] = "cut"
      PROVE  n \in cutShort'
  <2>1. ingest[n] = "cut" => n \in cutShort
    BY DEF AcceptedInv
  <2>2. CASE Ingest
    BY <1>1, <2>1, <2>2 DEF Ingest, AppendEvent, MatchingSubscriptions, MatchingFails, Answer,
          RetryIngest, EnqueueDeliveries, EnqueueFails, TypeOK, QueueTypeOK
  <2>3. CASE Crash
    BY <1>1, <2>1, <2>3 DEF Crash, CutIngest
  <2> QED
    BY <1>1, <2>1, <2>2, <2>3, OthersLeaveRequests
<1> QED
  BY <1>1, FanOutKnown, FanOutKept DEF AcceptedInv

(* A retained event that was answered, and whose fan-out was not cut short and
   lost no call, is queued for every subscription older than it, whatever
   operators, crashes and failed calls did meanwhile to others.              *)
THEOREM AcceptedQueued == Spec => []AcceptedIsQueued
<1>1. Init => AcceptedInv
  BY DEF Init, QueueInit, AcceptedInv, KnownFanOut, FanOut
<1>2. Inductive /\ AcceptedInv /\ [Next]_vars => AcceptedInv'
  <2>1. CASE UNCHANGED vars
    BY <2>1 DEF vars, queueVars, tableVars, ingestVars, AcceptedInv, KnownFanOut, FanOut, Place
  <2>2. Inductive /\ AcceptedInv /\ Next => AcceptedInv'
    BY AcceptedKept DEF Inductive
  <2> QED
    BY <2>1, <2>2
<1>3. AcceptedInv => AcceptedIsQueued
  BY DEF AcceptedInv, AcceptedIsQueued, FanOut, Place
<1> QED
  BY <1>1, <1>2, <1>3, InductiveHolds, PTL DEF Spec
-----------------------------------------------------------------------------
(* What a step does to one row, and to the batch of one goroutine.         *)

Elapsed(r) == [r EXCEPT !.wait = IF @ > 0 THEN @ - 1 ELSE 0]

(* Time moves nothing of a row but the wait.                                *)
LEMMA ElapsedRow ==
  ASSUME NEW r \in Rows
  PROVE  /\ Elapsed(r).status = r.status /\ Elapsed(r).attempt = r.attempt
         /\ Elapsed(r).error = r.error
         /\ r.wait = 0 => Elapsed(r).wait = 0
<1> DEFINE left == IF r.wait > 0 THEN r.wait - 1 ELSE 0
<1>1. Elapsed(r) = [r EXCEPT !.wait = left]
  BY DEF Elapsed
<1>2. r.wait = 0 => left = 0
  OBVIOUS
<1> HIDE DEF left
<1> QED
  BY <1>1, <1>2 DEF Rows

\* The goroutine in place w writes row p.
Writes(w, p) ==
    /\ p \in MyRows(w) /\ HasBatch(w) /\ row[p].status # "absent"
    /\ \/ /\ Lease(w) /\ row[p].status = "pending"
          /\ row'[p] = [row[p] EXCEPT !.status = "inflight", !.attempt = @ + 1]
       \/ /\ ParkOrphans(w)
          /\ row'[p] = [row[p] EXCEPT !.status = "dead", !.wait = 0, !.error = "not retained"]
       \/ /\ MarkDelivered(w)
          /\ row'[p] = [row[p] EXCEPT !.status = "delivered", !.wait = 0, !.error = "none"]
       \/ /\ MarkFailed(w)
          /\ \E delay \in Backoff(worker[w].attempt) :
                row' = Failed(MyRows(w), worker[w].answer, delay,
                              worker[w].answer = "refused" \/ Exhausted(worker[w].attempt))

(* A row changes because time passes, a fan-out inserts it, an operator or the
   purge rewrites it, the start-up returns it, or its goroutine writes it.   *)
LEMMA RowMoves ==
  ASSUME TypeOK, Next, NEW s \in Subs, NEW n \in Seqs
  PROVE  LET p == <<s, n>> IN
         \/ row'[p] = row[p]
         \/ row'[p] = Elapsed(row[p])
         \/ row[p].status = "absent" /\ row'[p] = Queued /\ s \in todo[n]
         \/ Intervene /\ row'[p] = NoRow
         \/ Intervene /\ row'[p] = Queued /\ row[p].status # "absent"
         \/ /\ RecoverInflight /\ row[p].status = "inflight"
            /\ row'[p] = [row[p] EXCEPT !.status = "pending"]
         \/ \E w \in Slots : Writes(w, p)
<1> DEFINE p == <<s, n>>
           Goal == \/ row'[p] = row[p]
                   \/ row'[p] = Elapsed(row[p])
                   \/ row[p].status = "absent" /\ row'[p] = Queued /\ s \in todo[n]
                   \/ Intervene /\ row'[p] = NoRow
                   \/ Intervene /\ row'[p] = Queued /\ row[p].status # "absent"
                   \/ /\ RecoverInflight /\ row[p].status = "inflight"
                      /\ row'[p] = [row[p] EXCEPT !.status = "pending"]
                   \/ \E w \in Slots : Writes(w, p)
<1> SUFFICES Goal
  OBVIOUS
<1>0. p \in Pairs
  BY DEF Pairs
<1> USE DEF queueVars, tableVars, ingestVars, boundVars
<1>1. CASE UNCHANGED row
  BY <1>1
<1>2. ASSUME NEW m \in Seqs, NEW t \in Subs, EnqueueDeliveries(m, t)
      PROVE  Goal
  <2>1. row' = Enqueued({<<t, m>>}) /\ t \in todo[m]
    BY <1>2 DEF EnqueueDeliveries
  <2>2. CASE p = <<t, m>>
    BY <1>0, <2>1, <2>2 DEF Enqueued
  <2>3. CASE p # <<t, m>>
    BY <1>0, <2>1, <2>3 DEF Enqueued
  <2> QED
    BY <2>2, <2>3
<1>3. ASSUME Intervene, NEW R, row' = Dropped(R)
      PROVE  Goal
  BY <1>0, <1>3 DEF Dropped
<1>4. ASSUME NEW scope \in {Subs} \cup {{t} : t \in Subs},
             NEW old \in {"pending", "inflight", "delivered", "dead"}, RequeueDeliveries(scope, old)
      PROVE  Goal
  <2> DEFINE rows == {q \in scope \X Seqs : row[q].status = old}
  <2>1. PICK R \in SUBSET rows : row' = Requeued(R)
    BY <1>4 DEF RequeueDeliveries
  <2>2. Intervene
    BY <1>4 DEF RequeueDeliveries
  <2>3. p \in R => row[p].status # "absent"
    OBVIOUS
  <2> QED
    BY <1>0, <2>1, <2>2, <2>3 DEF Requeued
<1>5. CASE BackoffElapses
  BY <1>0, <1>5 DEF BackoffElapses, Elapsed
<1>6. CASE RecoverInflight
  BY <1>0, <1>6 DEF RecoverInflight, Recovered
<1>7. ASSUME NEW w \in Slots, Deliver(w) \/ StoreFails(w)
      PROVE  Goal
  <2>1. CASE StartWorker(w) \/ GetSubscription(w) \/ SelectDue(w) \/ LoadEvents(w) \/ Post(w)
             \/ StoreFails(w)
    BY <2>1 DEF StartWorker, GetSubscription, SelectDue, LoadEvents, Post, StoreFails
  <2>2. CASE Lease(w)
    <3>1. row' = Leased(MyRows(w)) /\ HasBatch(w)
      BY <2>2 DEF Lease, HasBatch
    <3>2. CASE p \in MyRows(w) /\ row[p].status = "pending"
      BY <1>0, <2>2, <3>1, <3>2 DEF Leased, Writes
    <3> QED
      BY <1>0, <3>1, <3>2 DEF Leased
  <2>3. CASE ParkOrphans(w)
    <3>1. row' = Failed(MyRows(w), "not retained", 0, TRUE) /\ HasBatch(w)
      BY <2>3 DEF ParkOrphans, HasBatch
    <3>2. CASE p \in MyRows(w) /\ row[p].status # "absent"
      BY <1>0, <2>3, <3>1, <3>2 DEF Failed, Writes
    <3> QED
      BY <1>0, <3>1, <3>2 DEF Failed
  <2>4. CASE MarkDelivered(w)
    <3>1. row' = Delivered(MyRows(w)) /\ HasBatch(w)
      BY <2>4 DEF MarkDelivered, HasBatch
    <3>2. CASE p \in MyRows(w) /\ row[p].status # "absent"
      BY <1>0, <2>4, <3>1, <3>2 DEF Delivered, Writes
    <3> QED
      BY <1>0, <3>1, <3>2 DEF Delivered
  <2>5. CASE MarkFailed(w)
    <3>1. HasBatch(w)
      BY <2>5 DEF MarkFailed, HasBatch
    <3>2. CASE p \in MyRows(w) /\ row[p].status # "absent"
      BY <2>5, <3>1, <3>2 DEF Writes, MarkFailed
    <3> QED
      BY <1>0, <2>5, <3>2 DEF MarkFailed, Failed
  <2> QED
    BY <1>7, <2>1, <2>2, <2>3, <2>4, <2>5 DEF Deliver
<1>8. CASE Ingest
  <2>1. UNCHANGED row \/ \E m \in Seqs, t \in Subs : EnqueueDeliveries(m, t)
    BY <1>8 DEF Ingest, AppendEvent, MatchingSubscriptions, MatchingFails, Answer, RetryIngest,
                EnqueueFails
  <2> QED
    BY <1>1, <1>2, <2>1
<1>9. CASE Admin
  <2>1. \/ UNCHANGED row
        \/ Intervene /\ \E R : row' = Dropped(R)
        \/ \E scope \in {Subs} \cup {{t} : t \in Subs},
              old \in {"pending", "inflight", "delivered", "dead"} : RequeueDeliveries(scope, old)
    BY <1>9 DEF Admin, SetSubscriptionStatus, CreateSubscription, DeleteSubscription, PurgeOlderThan
  <2> QED
    BY <1>1, <1>3, <1>4, <2>1
<1>10. CASE RecoverFails \/ StartPass \/ EndPass \/ Crash
  BY <1>10 DEF RecoverFails, StartPass, EndPass, Crash
<1> HIDE DEF Goal
<1> QED
  BY <1>5, <1>6, <1>7, <1>8, <1>9, <1>10 DEF Next, Outside

(* The first rows of a set are rows of it, and the very first is the least. *)
LEMMA LowestIsLeast ==
  ASSUME NEW S \in SUBSET Seqs, NEW f \in Lowest(S, 1)
  PROVE  f \in S /\ \A n \in S : f <= n
<1>1. f \in S /\ Cardinality({n \in S : n < f}) < 1
  BY DEF Lowest
<1>2. IsFiniteSet({n \in S : n < f})
  <2>1. IsFiniteSet(Seqs)
    BY FS_Interval, QueueAssumption DEF Seqs
  <2>2. {n \in S : n < f} \subseteq Seqs
    OBVIOUS
  <2> QED
    BY <2>1, <2>2, FS_Subset
<1>3. Cardinality({n \in S : n < f}) = 0
  BY <1>1, <1>2, FS_CardinalityType
<1>4. {n \in S : n < f} = {}
  BY <1>2, <1>3, FS_EmptySet
<1>5. \A n \in S : n \in Int
  BY QueueAssumption DEF Seqs
<1> QED
  BY <1>1, <1>4, <1>5

\* The goroutine takes a batch.
Selects(w) ==
    /\ worker[w].at = "ready" /\ worker'[w].at = "selected"
    /\ worker[w].sub \in Subs /\ worker'[w].sub = worker[w].sub
    /\ worker'[w].batch = DueSeqs(worker[w].sub, BatchSize) /\ worker'[w].batch \subseteq Seqs
    /\ \E first \in Lowest(worker'[w].batch, 1) :
           worker'[w].attempt = row[<<worker[w].sub, first>>].attempt + 1
    /\ UNCHANGED <<events, lastSeq, row, interventions>>

\* The goroutine goes on with the batch it has.
GoesOn(w) ==
    /\ HasBatch(w)
    /\ worker'[w].sub = worker[w].sub /\ worker'[w].batch = worker[w].batch
    /\ worker'[w].attempt = worker[w].attempt
    /\ \/ worker'[w] = worker[w]
       \/ Lease(w) /\ worker'[w].at = "leased"
       \/ LoadEvents(w) /\ worker'[w].at = IF worker[w].batch \subseteq events THEN "loaded" ELSE "orphaned"
       \/ Post(w) /\ worker'[w].at = "answered"

(* A goroutine that has a batch after a step has just taken it, or had it.  *)
LEMMA BatchMoves ==
  ASSUME TypeOK, Exclusion, Next, NEW w \in Slots, HasBatch(w)'
  PROVE  Selects(w) \/ GoesOn(w)
<1> worker \in [Slots -> Workers]
  BY DEF TypeOK
<1> USE DEF queueVars, tableVars, ingestVars, boundVars
<1>1. CASE worker'[w] = worker[w]
  BY <1>1 DEF GoesOn, HasBatch
<1>2. CASE SelectDue(w)
  <2> DEFINE s == worker[w].sub
             batch == DueSeqs(s, BatchSize)
  <2>1. batch # {}
    BY <1>2 DEF SelectDue, Return, HasBatch, Off
  <2>2. batch \subseteq Seqs
    BY DEF DueSeqs, Lowest
  <2>3. PICK first \in Lowest(batch, 1) :
          worker' = [worker EXCEPT ![w].at = "selected", ![w].batch = batch,
                                   ![w].attempt = row[<<s, first>>].attempt + 1]
    BY <1>2, <2>1 DEF SelectDue
  <2> HIDE DEF batch
  <2>4. worker'[w] = [worker[w] EXCEPT !.at = "selected", !.batch = batch,
                                       !.attempt = row[<<s, first>>].attempt + 1]
    BY <2>3
  <2>5. /\ worker'[w].at = "selected" /\ worker'[w].sub = s /\ worker'[w].batch = batch
        /\ worker'[w].attempt = row[<<s, first>>].attempt + 1
    BY <2>4 DEF Workers
  <2>6. worker[w].at = "ready" /\ UNCHANGED <<events, lastSeq, row, interventions>>
    BY <1>2 DEF SelectDue
  <2>7. s \in Subs
    BY <2>6 DEF Exclusion, Off
  <2> QED
    BY <2>2, <2>5, <2>6, <2>7 DEF Selects, batch
<1>3. CASE Lease(w)
  <2>1. worker'[w] = [worker[w] EXCEPT !.at = "leased"] /\ worker[w].at = "selected"
    BY <1>3 DEF Lease
  <2> QED
    BY <1>3, <2>1 DEF GoesOn, HasBatch, Workers
<1>4. CASE LoadEvents(w)
  <2> DEFINE at == IF worker[w].batch \subseteq events THEN "loaded" ELSE "orphaned"
  <2>1. worker'[w] = [worker[w] EXCEPT !.at = at] /\ worker[w].at = "leased"
    BY <1>4 DEF LoadEvents
  <2>2. /\ worker'[w].at = at /\ worker'[w].sub = worker[w].sub
        /\ worker'[w].batch = worker[w].batch /\ worker'[w].attempt = worker[w].attempt
    BY <2>1 DEF Workers
  <2> QED
    BY <1>4, <2>1, <2>2 DEF GoesOn, HasBatch
<1>5. CASE Post(w)
  <2>1. /\ worker[w].at = "loaded"
        /\ \E answer : worker'[w] = [worker[w] EXCEPT !.at = "answered", !.answer = answer]
    BY <1>5 DEF Post
  <2> QED
    BY <1>5, <2>1 DEF GoesOn, HasBatch, Workers
<1>6. ASSUME NEW v \in Slots, v # w, Deliver(v) \/ StoreFails(v)
      PROVE  worker'[w] = worker[w]
  BY <1>6 DEF Deliver, StartWorker, GetSubscription, SelectDue, Lease, LoadEvents, ParkOrphans,
              Post, MarkDelivered, MarkFailed, StoreFails, Again, Return
<1>7. CASE RecoverInflight \/ RecoverFails \/ StartPass \/ EndPass
           \/ (Outside /\ UNCHANGED <<loop, due, worker, acked>>)
  BY <1>1, <1>7 DEF RecoverInflight, RecoverFails, StartPass, EndPass
<1>8. CASE Crash
  BY <1>8 DEF Crash, HasBatch, Off
<1>9. CASE StartWorker(w)
  BY <1>9 DEF StartWorker, HasBatch, Off
<1>10. CASE GetSubscription(w) \/ ParkOrphans(w) \/ MarkDelivered(w) \/ MarkFailed(w) \/ StoreFails(w)
  <2> DEFINE again == [Off EXCEPT !.at = "ready", !.sub = worker[w].sub]
  <2>1. again.at = "ready"
    BY DEF Off
  <2>2. worker' = [worker EXCEPT ![w] = Off] \/ worker' = [worker EXCEPT ![w] = again]
    BY <1>10 DEF GetSubscription, ParkOrphans, MarkDelivered, MarkFailed, StoreFails, Again, Return
  <2> HIDE DEF again
  <2>3. worker'[w] = Off \/ worker'[w] = again
    BY <2>2
  <2> QED
    BY <2>1, <2>3 DEF HasBatch, Off
<1> QED
  BY <1>1, <1>2, <1>3, <1>4, <1>5, <1>6, <1>7, <1>8, <1>9, <1>10 DEF Next, Deliver

(* Nobody but its goroutine writes a row of a batch, operators apart.       *)
LEMMA BatchRowMoves ==
  ASSUME TypeOK, Exclusion, Next, NEW w \in Slots, HasBatch(w), worker'[w] = worker[w],
         NEW n \in worker[w].batch
  PROVE  LET p == <<worker[w].sub, n>> IN
         \/ row'[p] = row[p]
         \/ row'[p] = Elapsed(row[p])
         \/ row[p].status = "absent" /\ row'[p] = Queued /\ worker[w].sub \in todo[n]
         \/ Intervene /\ row'[p] = NoRow
         \/ Intervene /\ row'[p] = Queued /\ row[p].status # "absent"
<1> DEFINE p == <<worker[w].sub, n>>
<1>1. worker[w].sub \in Subs /\ n \in Seqs
  BY BatchRows
<1>2. ~ RecoverInflight
  BY DEF RecoverInflight, Exclusion, HasBatch, Off
<1>3. ASSUME NEW v \in Slots, Writes(v, p)
      PROVE  FALSE
  <2>1. HasBatch(v) /\ p \in MyRows(v)
    BY <1>3 DEF Writes
  <2>2. worker[v].sub = worker[w].sub
    BY <2>1 DEF MyRows
  <2>3. v = w
    BY <2>1, <2>2 DEF Exclusion, Running, HasBatch
  <2>4. Lease(w) \/ ParkOrphans(w) \/ MarkDelivered(w) \/ MarkFailed(w)
    BY <1>3, <2>3 DEF Writes
  <2>5. worker'[w].at # worker[w].at
    <3> worker \in [Slots -> Workers]
      BY DEF TypeOK
    <3>1. CASE Lease(w)
      BY <3>1 DEF Lease, Workers
    <3>2. CASE ParkOrphans(w) \/ MarkDelivered(w) \/ MarkFailed(w)
      <4> DEFINE again == [Off EXCEPT !.at = "ready", !.sub = worker[w].sub]
      <4>1. worker' = [worker EXCEPT ![w] = again]
        BY <3>2 DEF ParkOrphans, MarkDelivered, MarkFailed, Again
      <4>2. again.at = "ready"
        BY DEF Off
      <4> HIDE DEF again
      <4> QED
        BY <4>1, <4>2 DEF HasBatch
    <3> QED
      BY <2>4, <3>1, <3>2
  <2> QED
    BY <2>5
<1> QED
  BY <1>1, <1>2, <1>3, RowMoves

-----------------------------------------------------------------------------
(* No retry comes early.                                                   *)

\* What a goroutine has selected is still due when it comes to lease it.
SelectedIsDue ==
    \A w \in Slots : worker[w].at = "selected" =>
        \A n \in worker[w].batch : row[<<worker[w].sub, n>>].wait = 0

\* A selected row stays due: only its own goroutine gives it a backoff.
LEMMA SelectedIsDueKept ==
  ASSUME TypeOK, Exclusion, SelectedIsDue, Next
  PROVE  SelectedIsDue'
<1> SUFFICES ASSUME NEW w \in Slots, worker'[w].at = "selected", NEW n \in worker'[w].batch
             PROVE  row'[<<worker'[w].sub, n>>].wait = 0
  BY DEF SelectedIsDue
<1>1. Selects(w) \/ GoesOn(w)
  BY BatchMoves DEF HasBatch
<1>2. CASE Selects(w)
  BY <1>2 DEF Selects, DueSeqs, Lowest, Due
<1>3. CASE GoesOn(w)
  <2>1. worker'[w] = worker[w]
    BY <1>3 DEF GoesOn
  <2>2. HasBatch(w) /\ n \in worker[w].batch
    BY <2>1 DEF HasBatch
  <2> DEFINE p == <<worker[w].sub, n>>
  <2>3. row[p] \in Rows /\ row[p].wait = 0
    <3>1. p \in Pairs
      BY <2>2, BatchRows DEF Pairs
    <3>2. row[p].wait = 0
      BY <2>1, <2>2 DEF SelectedIsDue
    <3> QED
      BY <3>1, <3>2 DEF TypeOK, QueueTypeOK
  <2>4. Queued.wait = 0 /\ NoRow.wait = 0
    BY DEF Queued, NoRow
  <2>5. \/ row'[p] = row[p] \/ row'[p] = Elapsed(row[p]) \/ row'[p] = Queued \/ row'[p] = NoRow
    BY <2>1, <2>2, BatchRowMoves
  <2> HIDE DEF p
  <2>6. Elapsed(row[p]).wait = 0
    BY <2>3, ElapsedRow
  <2>7. row'[p].wait = 0
    BY <2>3, <2>4, <2>5, <2>6
  <2> QED
    BY <2>1, <2>7 DEF p
<1> QED
  BY <1>1, <1>2, <1>3

(* A row goes in-flight by the lease of a goroutine that has selected it.   *)
LEMMA OnlyALeaseLeases ==
  ASSUME TypeOK, Next, NEW s \in Subs, NEW n \in Seqs,
         row[<<s, n>>].status = "pending", row'[<<s, n>>].status = "inflight"
  PROVE  \E w \in Slots : <<s, n>> \in MyRows(w) /\ worker[w].at = "selected"
<1> DEFINE p == <<s, n>>
<1>1. p \in Pairs
  BY DEF Pairs
<1>2. row[p] \in Rows
  BY <1>1 DEF TypeOK, QueueTypeOK
<1>3. /\ Elapsed(row[p]).status = "pending" /\ Queued.status = "pending" /\ NoRow.status = "absent"
      /\ [row[p] EXCEPT !.status = "pending"].status = "pending"
  BY <1>2, ElapsedRow DEF Queued, NoRow, Rows
<1>4. PICK w \in Slots : Writes(w, p)
  BY <1>3, RowMoves
<1>5. ASSUME NEW delay,
             row' = Failed(MyRows(w), worker[w].answer, delay,
                           worker[w].answer = "refused" \/ Exhausted(worker[w].attempt))
      PROVE  FALSE
  <2> DEFINE why == worker[w].answer
             dead == worker[w].answer = "refused" \/ Exhausted(worker[w].attempt)
  <2>1. row \in Types
    BY DEF TypeOK, QueueTypeOK, Types
  <2>2. row' = Failed(MyRows(w), why, delay, dead)
    BY <1>5
  <2> HIDE DEF why, dead
  <2> QED
    BY <1>1, <2>1, <2>2, BatchMarked
<1>6. /\ [row[p] EXCEPT !.status = "dead", !.wait = 0, !.error = "not retained"].status = "dead"
      /\ [row[p] EXCEPT !.status = "delivered", !.wait = 0, !.error = "none"].status = "delivered"
  BY <1>2 DEF Rows
<1>7. Lease(w)
  BY <1>4, <1>5, <1>6 DEF Writes
<1> QED
  BY <1>4, <1>7 DEF Writes, Lease

(* No row is leased before its backoff has elapsed, although LeaseDeliveries
   asks for next_retry_at only in a SELECT outside writeMu.                  *)
THEOREM RetriesWait == Spec => NoEarlyRetry
<1>1. Init => SelectedIsDue
  BY DEF Init, SelectedIsDue, Off
<1>2. Inductive /\ SelectedIsDue /\ [Next]_vars => SelectedIsDue'
  <2>1. CASE UNCHANGED vars
    BY <2>1 DEF vars, queueVars, SelectedIsDue
  <2>2. Inductive /\ SelectedIsDue /\ Next => SelectedIsDue'
    BY SelectedIsDueKept DEF Inductive
  <2> QED
    BY <2>1, <2>2
<1>3. Inductive /\ SelectedIsDue /\ [Next]_vars =>
        [\A p \in Pairs :
            row[p].status = "pending" /\ row'[p].status = "inflight" => row[p].wait = 0]_vars
  <2> SUFFICES ASSUME Inductive, SelectedIsDue, Next, NEW s \in Subs, NEW n \in Seqs,
                      row[<<s, n>>].status = "pending", row'[<<s, n>>].status = "inflight"
               PROVE  row[<<s, n>>].wait = 0
    BY DEF Pairs
  <2>1. PICK w \in Slots : <<s, n>> \in MyRows(w) /\ worker[w].at = "selected"
    BY OnlyALeaseLeases DEF Inductive
  <2>2. worker[w].sub = s /\ n \in worker[w].batch
    BY <2>1 DEF MyRows
  <2> QED
    BY <2>1, <2>2 DEF SelectedIsDue
<1> QED
  BY <1>1, <1>2, <1>3, InductiveHolds, PTL DEF Spec, NoEarlyRetry
-----------------------------------------------------------------------------
(* Dead letters.                                                           *)

(* Of the rows MarkFailed finds, each says why and, if given up, is dead; the
   attempts it has had are counted as before.                                *)
LEMMA FailedRow ==
  ASSUME row \in Types, NEW R, NEW why, NEW retry, NEW dead \in BOOLEAN,
         row' = Failed(R, why, retry, dead), NEW p \in Pairs, p \in R, row[p].status # "absent"
  PROVE  /\ row'[p].status = IF dead THEN "dead" ELSE "pending"
         /\ row'[p].attempt = row[p].attempt /\ row'[p].error = why
<1>1. row[p] \in Rows
  BY DEF Types
<1> QED
  BY <1>1 DEF Failed, Rows

\* The batch of a goroutine carries the attempt number of its first row: the one
\* the row will have once it is leased.
Numbered(w) ==
    \E f \in worker[w].batch :
        /\ \A n \in worker[w].batch : f <= n
        /\ IF worker[w].at = "selected"
           THEN /\ row[<<worker[w].sub, f>>].status = "pending"
                /\ row[<<worker[w].sub, f>>].attempt + 1 = worker[w].attempt
           ELSE row[<<worker[w].sub, f>>].attempt = worker[w].attempt

BatchesNumbered == interventions = 0 => \A w \in Slots : HasBatch(w) => Numbered(w)

\* A lease numbers its batch by its first row; no other step touches the rows.
LEMMA BatchesNumberedKept ==
  ASSUME TypeOK, Exclusion, BatchOpen, BatchesNumbered, Next
  PROVE  BatchesNumbered'
<1> SUFFICES ASSUME interventions' = 0, NEW w \in Slots, HasBatch(w)'
             PROVE  Numbered(w)'
  BY DEF BatchesNumbered
<1> DEFINE s == worker[w].sub
<1>1. interventions = 0 /\ ~ Intervene
  BY QuietStep, QueueAssumption DEF Intervene, TypeOK, QueueTypeOK
<1>2. CASE Selects(w)
  <2>1. PICK f \in Lowest(worker'[w].batch, 1) : worker'[w].attempt = row[<<s, f>>].attempt + 1
    BY <1>2 DEF Selects
  <2>2. f \in worker'[w].batch /\ \A n \in worker'[w].batch : f <= n
    BY <1>2, LowestIsLeast DEF Selects
  <2>3. row[<<s, f>>].status = "pending"
    BY <1>2, <2>2 DEF Selects, DueSeqs, Lowest, Due
  <2> QED
    BY <1>2, <2>1, <2>2, <2>3 DEF Selects, Numbered
<1>3. CASE GoesOn(w)
  <2>1. HasBatch(w) /\ worker'[w].sub = s /\ worker'[w].batch = worker[w].batch
        /\ worker'[w].attempt = worker[w].attempt
    BY <1>3 DEF GoesOn
  <2>2. PICK f \in worker[w].batch :
          /\ \A n \in worker[w].batch : f <= n
          /\ IF worker[w].at = "selected"
             THEN row[<<s, f>>].status = "pending" /\ row[<<s, f>>].attempt + 1 = worker[w].attempt
             ELSE row[<<s, f>>].attempt = worker[w].attempt
    BY <1>1, <2>1 DEF BatchesNumbered, Numbered
  <2> DEFINE p == <<s, f>>
  <2>3. p \in Pairs /\ p \in MyRows(w)
    BY <2>1, BatchRows DEF MyRows
  <2>4. row[p] \in Rows
    BY <2>3 DEF TypeOK, QueueTypeOK
  <2>5. row[p].status # "absent"
    BY <1>1, <2>1, <2>3 DEF BatchOpen, Open, Place
  <2>6. CASE worker'[w] = worker[w]
    <3>1. row'[p] = row[p] \/ row'[p] = Elapsed(row[p])
      BY <1>1, <2>1, <2>5, <2>6, BatchRowMoves
    <3> HIDE DEF p
    <3>2. row'[p].status = row[p].status /\ row'[p].attempt = row[p].attempt
      BY <2>4, <3>1, ElapsedRow
    <3> QED
      BY <2>2, <2>6, <3>2 DEF Numbered, p
  <2>7. CASE Lease(w) /\ worker'[w].at = "leased"
    <3>1. worker[w].at = "selected" /\ row' = Leased(MyRows(w))
      BY <2>7 DEF Lease
    <3>2. row[p].status = "pending" /\ row[p].attempt + 1 = worker[w].attempt
      BY <2>2, <3>1
    <3>3. row'[p] = [row[p] EXCEPT !.status = "inflight", !.attempt = @ + 1]
      BY <2>3, <3>1, <3>2 DEF Leased
    <3>4. row'[p].attempt = worker[w].attempt
      BY <2>4, <3>2, <3>3 DEF Rows
    <3> QED
      BY <2>1, <2>2, <2>7, <3>4 DEF Numbered
  <2>8. CASE (LoadEvents(w) \/ Post(w)) /\ worker'[w].at # "selected"
    <3>1. UNCHANGED row /\ worker[w].at # "selected"
      BY <2>8 DEF LoadEvents, Post, queueVars
    <3> QED
      BY <2>1, <2>2, <2>8, <3>1 DEF Numbered
  <2> QED
    BY <1>3, <2>6, <2>7, <2>8 DEF GoesOn
<1> QED
  BY <1>2, <1>3, BatchMoves

GivenUp(s, n) == row[<<s, n>>].status = "dead" /\ row[<<s, n>>].error = "failed"
Spent(s, n) == row[<<s, n>>].status = "dead" /\ row[<<s, n>>].attempt >= MaxAttempts

(* A dead letter stays one until an operator requeues it.                   *)
LEMMA DeadStays ==
  ASSUME TypeOK, Exclusion, BatchOpen, Next, interventions' = 0,
         NEW s \in Subs, NEW n \in Seqs, row[<<s, n>>].status = "dead"
  PROVE  /\ row'[<<s, n>>].status = "dead"
         /\ row'[<<s, n>>].attempt = row[<<s, n>>].attempt
         /\ row'[<<s, n>>].error = row[<<s, n>>].error
<1> DEFINE p == <<s, n>>
<1>1. interventions = 0 /\ ~ Intervene
  BY QuietStep, QueueAssumption DEF Intervene, TypeOK, QueueTypeOK
<1>2. row[p] \in Rows
  BY DEF TypeOK, QueueTypeOK, Pairs
<1>3. ASSUME NEW w \in Slots, Writes(w, p)
      PROVE  FALSE
  <2>1. Place(p) = "queued"
    BY <1>1, <1>3 DEF Writes, BatchOpen, Open
  <2> QED
    BY <2>1 DEF Place
<1>4. row'[p] = row[p] \/ row'[p] = Elapsed(row[p])
  BY <1>1, <1>3, RowMoves
<1> HIDE DEF p
<1>5. /\ row'[p].status = row[p].status /\ row'[p].attempt = row[p].attempt
      /\ row'[p].error = row[p].error
  BY <1>2, <1>4, ElapsedRow
<1> QED
  BY <1>5 DEF p

(* A row is given up after a failure only by a MarkFailed over its batch.   *)
LEMMA GivenUpWithItsBatch ==
  ASSUME TypeOK, Next, interventions' = 0, NEW s \in Subs, NEW n \in Seqs,
         GivenUp(s, n)', ~ GivenUp(s, n)
  PROVE  \E w \in Slots :
           /\ MarkFailed(w) /\ worker[w].sub = s /\ n \in worker[w].batch
           /\ row[<<s, n>>].status # "absent"
<1> DEFINE p == <<s, n>>
<1>1. ~ Intervene
  BY QuietStep, QueueAssumption DEF Intervene, TypeOK, QueueTypeOK
<1>2. row[p] \in Rows
  BY DEF TypeOK, QueueTypeOK, Pairs
<1>3. row'[p].status = "dead" /\ row'[p].error = "failed"
      /\ ~ (row[p].status = "dead" /\ row[p].error = "failed")
  BY DEF GivenUp
<1>4. row'[p] # row[p] /\ row'[p] # Elapsed(row[p]) /\ row'[p] # Queued
  <2> HIDE DEF p
  <2> QED
    BY <1>2, <1>3, ElapsedRow DEF Queued, NoRow
<1>5. /\ row'[p] # [row[p] EXCEPT !.status = "pending"]
      /\ row'[p] # [row[p] EXCEPT !.status = "inflight", !.attempt = @ + 1]
      /\ row'[p] # [row[p] EXCEPT !.status = "dead", !.wait = 0, !.error = "not retained"]
      /\ row'[p] # [row[p] EXCEPT !.status = "delivered", !.wait = 0, !.error = "none"]
  BY <1>2, <1>3 DEF Rows
<1>6. PICK w \in Slots : Writes(w, p)
  BY <1>1, <1>4, <1>5, RowMoves
<1> QED
  BY <1>5, <1>6 DEF Writes, MyRows

\* The batch holds one row: what send computes for the batch is about that row.
OneByOne == \A w \in Slots : HasBatch(w) => \A m, n \in worker[w].batch : m = n

(* The row itself is the oldest of its batch when batches hold one row.     *)
LEMMA SpentWithTheOldest ==
  ASSUME TypeOK, Exclusion, BatchOpen, BatchesNumbered, Next, interventions' = 0,
         NEW s \in Subs, NEW n \in Seqs, GivenUp(s, n)', ~ GivenUp(s, n)
  PROVE  \E m \in Seqs : m <= n /\ Spent(s, m)' /\ (OneByOne => m = n)
<1> row \in Types
  BY DEF TypeOK, QueueTypeOK, Types
<1>1. interventions = 0
  BY QuietStep
<1>2. PICK w \in Slots : MarkFailed(w) /\ worker[w].sub = s /\ n \in worker[w].batch
                         /\ row[<<s, n>>].status # "absent"
  BY GivenUpWithItsBatch
<1> DEFINE dead == worker[w].answer = "refused" \/ Exhausted(worker[w].attempt)
           why == worker[w].answer
<1>3. /\ \E retry : row' = Failed(MyRows(w), why, retry, dead)
      /\ HasBatch(w) /\ worker[w].at = "answered"
  BY <1>2 DEF MarkFailed, HasBatch
<1>4. PICK f \in worker[w].batch : (\A k \in worker[w].batch : f <= k)
                                   /\ row[<<s, f>>].attempt = worker[w].attempt
  BY <1>1, <1>2, <1>3 DEF BatchesNumbered, Numbered
<1>5. /\ <<s, n>> \in Pairs /\ <<s, n>> \in MyRows(w) /\ n \in Seqs
      /\ <<s, f>> \in Pairs /\ <<s, f>> \in MyRows(w) /\ f \in Seqs
  BY <1>2, <1>3, <1>4, BatchRows DEF MyRows, Pairs
<1>6. row[<<s, f>>].status # "absent"
  BY <1>1, <1>3, <1>5 DEF BatchOpen, Open, Place
<1>7. dead \in BOOLEAN
  BY DEF Exhausted
<1>8. why = "failed" /\ dead
  <2> HIDE DEF dead, why
  <2>1. /\ row'[<<s, n>>].status = IF dead THEN "dead" ELSE "pending"
        /\ row'[<<s, n>>].error = why
    BY <1>2, <1>3, <1>5, <1>7, FailedRow
  <2> QED
    BY <1>7, <2>1 DEF GivenUp
<1>9. row[<<s, f>>].attempt >= MaxAttempts
  BY <1>4, <1>8 DEF Exhausted
<1>10. row'[<<s, f>>].status = "dead" /\ row'[<<s, f>>].attempt = row[<<s, f>>].attempt
  <2> HIDE DEF dead, why
  <2>1. /\ row'[<<s, f>>].status = IF dead THEN "dead" ELSE "pending"
        /\ row'[<<s, f>>].attempt = row[<<s, f>>].attempt
    BY <1>3, <1>5, <1>6, <1>7, FailedRow
  <2> QED
    BY <1>8, <2>1
<1> QED
  BY <1>2, <1>3, <1>4, <1>5, <1>9, <1>10 DEF Spent, OneByOne

BudgetInv ==
    interventions = 0 =>
        \A s \in Subs, n \in Seqs : GivenUp(s, n) => \E m \in Seqs : m <= n /\ Spent(s, m)

\* A row is given up with the first row of its batch, which is then spent.
LEMMA BudgetInvKept ==
  ASSUME TypeOK, Exclusion, BatchOpen, BatchesNumbered, BudgetInv, Next
  PROVE  BudgetInv'
<1> SUFFICES ASSUME interventions' = 0, NEW s \in Subs, NEW n \in Seqs, GivenUp(s, n)'
             PROVE  \E m \in Seqs : m <= n /\ Spent(s, m)'
  BY DEF BudgetInv
<1>1. CASE GivenUp(s, n)
  <2>1. PICK m \in Seqs : m <= n /\ Spent(s, m)
    BY <1>1, QuietStep DEF BudgetInv
  <2>2. Spent(s, m)'
    BY <2>1, DeadStays DEF Spent
  <2> QED
    BY <2>1, <2>2
<1>2. CASE ~ GivenUp(s, n)
  BY <1>2, SpentWithTheOldest
<1> QED
  BY <1>1, <1>2

LEMMA BatchesNumberedHolds == Spec => []BatchesNumbered
<1>1. Init => BatchesNumbered
  BY DEF Init, BatchesNumbered, HasBatch, Off
<1>2. Inductive /\ BatchOpen /\ BatchesNumbered /\ [Next]_vars => BatchesNumbered'
  <2>1. CASE UNCHANGED vars
    BY <2>1 DEF vars, queueVars, boundVars, BatchesNumbered, Numbered, HasBatch
  <2>2. Inductive /\ BatchOpen /\ BatchesNumbered /\ Next => BatchesNumbered'
    BY BatchesNumberedKept DEF Inductive
  <2> QED
    BY <2>1, <2>2
<1> QED
  BY <1>1, <1>2, BatchesStayOpen, InductiveHolds, PTL DEF Spec

(* A row given up after failures was given up with an older one that had used
   up its attempts, for every batch size and budget: send counts the attempts
   of the first row of a batch, whatever crashes and fails around it.        *)
THEOREM BudgetOfTheOldest == Spec => []OldestSpentItsBudget
<1>1. Init => BudgetInv
  BY DEF Init, QueueInit, BudgetInv, GivenUp, NoRow, Pairs
<1>2. Inductive /\ BatchOpen /\ BatchesNumbered /\ BudgetInv /\ [Next]_vars => BudgetInv'
  <2>1. CASE UNCHANGED vars
    BY <2>1 DEF vars, queueVars, boundVars, BudgetInv, GivenUp, Spent
  <2>2. Inductive /\ BatchOpen /\ BatchesNumbered /\ BudgetInv /\ Next => BudgetInv'
    BY BudgetInvKept DEF Inductive
  <2> QED
    BY <2>1, <2>2
<1>3. BudgetInv => OldestSpentItsBudget
  <2>1. \A n \in Seqs, m \in Seqs : m <= n => m \in 1..n
    BY QueueAssumption DEF Seqs
  <2> QED
    BY <2>1 DEF BudgetInv, OldestSpentItsBudget, GivenUp, Spent
<1> QED
  BY <1>1, <1>2, <1>3, BatchesNumberedHolds, BatchesStayOpen, InductiveHolds, PTL DEF Spec

-----------------------------------------------------------------------------
(* Batches of one row. What the code's comments say of a dead letter holds  *)
(* of the batch's first row and of its missing events only; with             *)
(* PushBatchSize = 1 that is the row itself.                                 *)

\* Only what has been stored has ever had a row.
KnownRows == \A s \in Subs, n \in Seqs : row[<<s, n>>] # NoRow => n <= lastSeq

LEMMA KnownRowsKept ==
  ASSUME TypeOK, Exclusion, KnownFanOut, KnownRows, Next
  PROVE  KnownRows'
<1> SUFFICES ASSUME NEW s \in Subs, NEW n \in Seqs, row'[<<s, n>>] # NoRow
             PROVE  n <= lastSeq'
  BY DEF KnownRows
<1> DEFINE p == <<s, n>>
<1>1. row[p] \in Rows
  BY DEF TypeOK, QueueTypeOK, Pairs
<1>2. lastSeq \in Int /\ lastSeq' \in Int /\ n \in Int /\ lastSeq <= lastSeq'
  <2>1. lastSeq' \in 0..MaxSeq
    BY StepInductive DEF Inductive, TypeOK, QueueTypeOK
  <2> QED
    BY <2>1, SeqsGrow, QueueAssumption DEF TypeOK, QueueTypeOK, Seqs
<1>3. row[p] # NoRow \/ todo[n] # {}
  <2>1. Elapsed(NoRow) = NoRow /\ NoRow.status = "absent"
    BY DEF Elapsed, NoRow
  <2> QED
    BY <2>1, RowMoves DEF Writes
<1> QED
  BY <1>2, <1>3 DEF KnownRows, KnownFanOut

\* Of a batch that is about to be parked some event is gone.
OrphansGone ==
    \A w \in Slots : HasBatch(w) =>
        /\ \A n \in worker[w].batch : n <= lastSeq
        /\ worker[w].at = "orphaned" => ~ worker[w].batch \subseteq events

\* A batch is made of stored events, and one that is gone does not come back.
LEMMA OrphansGoneKept ==
  ASSUME TypeOK, Exclusion, KnownRows, OrphansGone, Next
  PROVE  OrphansGone'
<1> SUFFICES ASSUME NEW w \in Slots, HasBatch(w)'
             PROVE  /\ \A n \in worker'[w].batch : n <= lastSeq'
                    /\ worker'[w].at = "orphaned" => ~ worker'[w].batch \subseteq events'
  BY DEF OrphansGone
<1>0. /\ lastSeq \in Int /\ lastSeq' \in Int /\ \A n \in Seqs : n \in Int
      /\ lastSeq <= lastSeq' /\ \A n \in Seqs : n <= lastSeq /\ n \in events' => n \in events
  <2>1. lastSeq \in Int /\ \A n \in Seqs : n \in Int
    BY QueueAssumption DEF TypeOK, QueueTypeOK, Seqs
  <2>2. lastSeq' \in Int
    BY StepInductive, QueueAssumption DEF Inductive, TypeOK, QueueTypeOK
  <2> QED
    BY <2>1, <2>2, SeqsGrow
<1>1. CASE Selects(w)
  <2>1. ASSUME NEW n \in worker'[w].batch
        PROVE  n <= lastSeq'
    <3>1. n \in Seqs /\ row[<<worker[w].sub, n>>].status = "pending"
      BY <1>1 DEF Selects, DueSeqs, Lowest, Due
    <3>2. row[<<worker[w].sub, n>>] # NoRow
      BY <3>1 DEF NoRow
    <3> QED
      BY <1>0, <1>1, <3>1, <3>2 DEF Selects, KnownRows
  <2> QED
    BY <1>1, <2>1 DEF Selects
<1>2. CASE GoesOn(w)
  <2>1. HasBatch(w) /\ worker'[w].batch = worker[w].batch /\ worker[w].batch \subseteq Seqs
    BY <1>2, BatchRows DEF GoesOn
  <2>2. \A n \in worker[w].batch : n <= lastSeq /\ n <= lastSeq'
    BY <1>0, <2>1 DEF OrphansGone
  <2>3. worker'[w].at = "orphaned" => ~ worker[w].batch \subseteq events
    BY <1>2, <2>1 DEF GoesOn, OrphansGone
  <2> QED
    BY <1>0, <2>1, <2>2, <2>3
<1> QED
  BY <1>1, <1>2, BatchMoves

\* With BatchSize = 1 a batch is one row.
LEMMA OneByOneKept ==
  ASSUME TypeOK, Exclusion, OneByOne, Next, BatchSize = 1
  PROVE  OneByOne'
<1> SUFFICES ASSUME NEW w \in Slots, HasBatch(w)', NEW m \in worker'[w].batch, NEW n \in worker'[w].batch
             PROVE  m = n
  BY DEF OneByOne
<1>1. CASE Selects(w)
  <2> DEFINE D == {k \in Seqs : Due(<<worker[w].sub, k>>)}
  <2>1. m \in Lowest(D, 1) /\ n \in Lowest(D, 1)
    BY <1>1 DEF Selects, DueSeqs
  <2>2. D \in SUBSET Seqs
    OBVIOUS
  <2> HIDE DEF D
  <2>3. m \in D /\ n \in D /\ m <= n /\ n <= m
    BY <2>1, <2>2, LowestIsLeast
  <2>4. m \in Int /\ n \in Int
    BY <2>2, <2>3, QueueAssumption DEF Seqs
  <2> QED
    BY <2>3, <2>4
<1>2. CASE GoesOn(w)
  BY <1>2 DEF GoesOn, OneByOne
<1> QED
  BY <1>1, <1>2, BatchMoves

EachSpent ==
    interventions = 0 => \A s \in Subs, n \in Seqs : GivenUp(s, n) => Spent(s, n)

(* MarkFailed never says of a row that its event is not retained.           *)
LEMMA FailureIsNamed ==
  ASSUME TypeOK, NEW w \in Slots, MarkFailed(w),
         NEW p \in Pairs, p \in MyRows(w), row[p].status # "absent"
  PROVE  row'[p].error # "not retained"
<1>1. row \in Types
  BY DEF TypeOK, QueueTypeOK, Types
<1>2. ASSUME NEW why, NEW retry, NEW dead \in BOOLEAN, row' = Failed(MyRows(w), why, retry, dead)
      PROVE  row'[p].error = why
  BY <1>1, <1>2, FailedRow
<1> DEFINE given == worker[w].answer = "refused" \/ Exhausted(worker[w].attempt)
<1>3. \E delay : row' = Failed(MyRows(w), worker[w].answer, delay, given)
  BY DEF MarkFailed
<1>4. given \in BOOLEAN
  BY DEF Exhausted
<1>5. worker[w].answer # "not retained"
  BY WorkerParts DEF TypeOK, LoopTypeOK
<1> HIDE DEF given
<1>6. row'[p].error = worker[w].answer
  BY <1>2, <1>3, <1>4
<1> QED
  BY <1>5, <1>6

\* ParkOrphans parks the single row of its batch, and that one's event is gone.
LEMMA ParkedIsGoneKept ==
  ASSUME TypeOK, Exclusion, KnownRows, OrphansGone, OneByOne, ParkedIsGone, Next
  PROVE  ParkedIsGone'
<1> SUFFICES ASSUME NEW s \in Subs, NEW n \in Seqs, row'[<<s, n>>].error = "not retained"
             PROVE  n \notin events'
  BY DEF ParkedIsGone
<1> DEFINE p == <<s, n>>
<1>1. p \in Pairs
  BY DEF Pairs
<1>2. row[p] \in Rows
  BY <1>1 DEF TypeOK, QueueTypeOK
<1>0. NoRow.error = "none" /\ NoRow.status = "absent"
  BY DEF NoRow
<1>3. row[p] # NoRow /\ n \notin events => n \notin events'
  <2>1. row[p] # NoRow => n <= lastSeq
    BY DEF KnownRows
  <2> HIDE DEF p
  <2> QED
    BY <2>1, SeqsGrow
<1>4. CASE row[p].error = "not retained"
  <2>1. row[p] # NoRow
    BY <1>0, <1>4
  <2> QED
    BY <1>3, <1>4, <2>1 DEF ParkedIsGone
<1>5. CASE row[p].error # "not retained"
  <2>1. row'[p] # row[p] /\ row'[p] # Elapsed(row[p]) /\ row'[p] # Queued /\ row'[p] # NoRow
    <3> HIDE DEF p
    <3>1. Queued.error # "not retained" /\ NoRow.error # "not retained"
      BY DEF Queued, NoRow
    <3>2. Elapsed(row[p]).error = row[p].error
      BY <1>2, ElapsedRow
    <3> QED
      BY <1>5, <3>1, <3>2 DEF p
  <2>2. /\ row'[p] # [row[p] EXCEPT !.status = "pending"]
        /\ row'[p] # [row[p] EXCEPT !.status = "inflight", !.attempt = @ + 1]
        /\ row'[p] # [row[p] EXCEPT !.status = "delivered", !.wait = 0, !.error = "none"]
    BY <1>2, <1>5 DEF Rows
  <2>3. PICK w \in Slots : Writes(w, p)
    BY <2>1, <2>2, RowMoves
  <2>4. CASE ParkOrphans(w)
    <3>1. worker[w].at = "orphaned" /\ HasBatch(w)
      BY <2>4 DEF ParkOrphans, HasBatch
    <3>2. PICK m \in worker[w].batch : m \notin events
      BY <3>1 DEF OrphansGone
    <3>3. n \in worker[w].batch /\ row[p].status # "absent"
      BY <2>3 DEF Writes, MyRows
    <3>4. m = n /\ row[p] # NoRow
      <4>1. m = n
        BY <3>1, <3>2, <3>3 DEF OneByOne
      <4> QED
        BY <1>0, <3>3, <4>1
    <3> QED
      BY <1>3, <3>2, <3>4
  <2>5. CASE MarkFailed(w)
    BY <1>1, <2>3, <2>5, FailureIsNamed DEF Writes
  <2> QED
    BY <2>2, <2>3, <2>4, <2>5 DEF Writes
<1> QED
  BY <1>4, <1>5

\* A given-up row is itself the first of its batch.
LEMMA EachSpentKept ==
  ASSUME TypeOK, Exclusion, BatchOpen, BatchesNumbered, OneByOne, EachSpent, Next
  PROVE  EachSpent'
<1> SUFFICES ASSUME interventions' = 0, NEW s \in Subs, NEW n \in Seqs, GivenUp(s, n)'
             PROVE  Spent(s, n)'
  BY DEF EachSpent
<1>1. CASE GivenUp(s, n)
  <2>1. Spent(s, n)
    BY <1>1, QuietStep DEF EachSpent
  <2> QED
    BY <2>1, DeadStays DEF Spent
<1>2. CASE ~ GivenUp(s, n)
  BY <1>2, SpentWithTheOldest
<1> QED
  BY <1>1, <1>2

(* With one row to a batch, what is parked as no longer retained is gone and
   stays gone, through purges under a fan-out or under a goroutine.          *)
THEOREM NoneParkedAlone == ASSUME BatchSize = 1 PROVE Spec => []ParkedIsGone
<1> DEFINE Inv == KnownFanOut /\ KnownRows /\ OrphansGone /\ OneByOne /\ ParkedIsGone
<1>1. Init => Inv
  <2>1. Init => KnownFanOut /\ OrphansGone /\ OneByOne
    BY DEF Init, QueueInit, KnownFanOut, OrphansGone, OneByOne, HasBatch, Off
  <2>2. Init => KnownRows /\ ParkedIsGone
    <3> SUFFICES ASSUME Init, NEW s \in Subs, NEW n \in Seqs
                 PROVE  row[<<s, n>>] = NoRow /\ row[<<s, n>>].error # "not retained"
      BY DEF KnownRows, ParkedIsGone
    <3>1. row[<<s, n>>] = NoRow
      BY DEF Init, QueueInit, Pairs
    <3> QED
      BY <3>1 DEF NoRow
  <2> QED
    BY <2>1, <2>2
<1>2. Inductive /\ Inv /\ [Next]_vars => Inv'
  <2>1. CASE UNCHANGED vars
    BY <2>1 DEF vars, queueVars, tableVars, ingestVars, KnownFanOut, KnownRows, OrphansGone, OneByOne,
                ParkedIsGone, HasBatch
  <2>2. Inductive /\ Inv /\ Next => Inv'
    BY FanOutKnown, KnownRowsKept, OrphansGoneKept, OneByOneKept, ParkedIsGoneKept DEF Inductive
  <2> QED
    BY <2>1, <2>2
<1> HIDE DEF Inv
<1>3. Inv => ParkedIsGone
  BY DEF Inv
<1> QED
  BY <1>1, <1>2, <1>3, InductiveHolds, PTL DEF Spec

(* With one row to a batch a row is given up for failures only when its own
   attempts are used up, through crashes, recoveries and failed calls.       *)
THEOREM OwnBudgetAlone == ASSUME BatchSize = 1 PROVE Spec => []DeadSpentItsBudget
<1>1. Init => OneByOne /\ EachSpent
  <2>1. Init => OneByOne
    BY DEF Init, OneByOne, HasBatch, Off
  <2>2. Init => EachSpent
    BY DEF Init, QueueInit, EachSpent, GivenUp, NoRow, Pairs
  <2> QED
    BY <2>1, <2>2
<1>2. Inductive /\ BatchOpen /\ BatchesNumbered /\ OneByOne /\ EachSpent /\ [Next]_vars
        => (OneByOne /\ EachSpent)'
  <2>1. CASE UNCHANGED vars
    BY <2>1 DEF vars, queueVars, boundVars, OneByOne, EachSpent, GivenUp, Spent, HasBatch
  <2>2. Inductive /\ BatchOpen /\ BatchesNumbered /\ OneByOne /\ EachSpent /\ Next
          => (OneByOne /\ EachSpent)'
    BY OneByOneKept, EachSpentKept DEF Inductive
  <2> QED
    BY <2>1, <2>2
<1>3. OneByOne /\ EachSpent => DeadSpentItsBudget
  BY DEF EachSpent, GivenUp, Spent, DeadSpentItsBudget, Pairs
<1> QED
  BY <1>1, <1>2, <1>3, BatchesNumberedHolds, BatchesStayOpen, InductiveHolds, PTL DEF Spec

\* How often a row may be sent: its budget, and once more for each crash, after
\* which the lease of whoever had it is taken back.
Level == MaxAttempts + crashes

\* What waits, or is about to be recovered, can be leased once more.
WithinLevel ==
    \A s \in Subs, n \in Seqs :
        /\ row[<<s, n>>].attempt <= Level
        /\ row[<<s, n>>].status = "pending" => row[<<s, n>>].attempt < Level
        /\ row[<<s, n>>].status = "inflight" /\ loop = "recover" => row[<<s, n>>].attempt < Level

\* The attempt number of a goroutine is at least that of its rows.
Counted ==
    \A w \in Slots : HasBatch(w) =>
        \A n \in worker[w].batch :
            IF worker[w].at = "selected"
            THEN row[<<worker[w].sub, n>>].attempt < worker[w].attempt
            ELSE row[<<worker[w].sub, n>>].attempt <= worker[w].attempt

\* A single row has at most the attempt number its goroutine counts with.
LEMMA CountedKept ==
  ASSUME TypeOK, Exclusion, OneByOne', Counted, Next
  PROVE  Counted'
<1> SUFFICES ASSUME NEW w \in Slots, HasBatch(w)', NEW n \in worker'[w].batch
             PROVE  IF worker'[w].at = "selected"
                    THEN row'[<<worker'[w].sub, n>>].attempt < worker'[w].attempt
                    ELSE row'[<<worker'[w].sub, n>>].attempt <= worker'[w].attempt
  BY DEF Counted
<1> DEFINE s == worker[w].sub
           p == <<s, n>>
<1>1. CASE Selects(w)
  <2>1. PICK f \in Lowest(worker'[w].batch, 1) : worker'[w].attempt = row[<<s, f>>].attempt + 1
    BY <1>1 DEF Selects
  <2>2. f = n
    BY <1>1, <2>1, LowestIsLeast DEF Selects, OneByOne
  <2>3. s \in Subs /\ n \in Seqs /\ row' = row /\ worker'[w].sub = s /\ worker'[w].at = "selected"
    BY <1>1 DEF Selects
  <2>4. row[p] \in Rows
    BY <2>3 DEF TypeOK, QueueTypeOK, Pairs
  <2>5. row[p].attempt \in Nat
    BY <2>4 DEF Rows
  <2> QED
    BY <2>1, <2>2, <2>3, <2>5
<1>2. CASE GoesOn(w)
  <2>1. /\ HasBatch(w) /\ worker'[w].sub = s /\ worker'[w].batch = worker[w].batch
        /\ worker'[w].attempt = worker[w].attempt
    BY <1>2 DEF GoesOn
  <2>2. IF worker[w].at = "selected" THEN row[p].attempt < worker[w].attempt
                                     ELSE row[p].attempt <= worker[w].attempt
    BY <2>1 DEF Counted
  <2>3. p \in Pairs /\ p \in MyRows(w)
    BY <2>1, BatchRows DEF MyRows
  <2>4. row[p] \in Rows /\ worker[w].attempt \in Nat
    BY <2>3, WorkerParts DEF TypeOK, QueueTypeOK, LoopTypeOK
  <2>5. row[p].attempt \in Nat
    BY <2>4 DEF Rows
  <2>6. CASE worker'[w] = worker[w]
    <3>1. \/ row'[p] = row[p] \/ row'[p] = Elapsed(row[p]) \/ row'[p] = Queued \/ row'[p] = NoRow
      BY <2>1, <2>6, BatchRowMoves
    <3>2. Queued.attempt = 0 /\ NoRow.attempt = 0
      BY DEF Queued, NoRow
    <3> HIDE DEF p
    <3>3. row'[p].attempt = row[p].attempt \/ row'[p].attempt = 0
      BY <2>4, <3>1, <3>2, ElapsedRow
    <3>4. IF worker[w].at = "selected" THEN row'[p].attempt < worker[w].attempt
                                       ELSE row'[p].attempt <= worker[w].attempt
      BY <2>2, <2>4, <2>5, <3>3
    <3> QED
      BY <2>1, <2>6, <3>4 DEF p
  <2>7. CASE Lease(w) /\ worker'[w].at = "leased"
    <3>1. worker[w].at = "selected" /\ row' = Leased(MyRows(w))
      BY <2>7 DEF Lease
    <3>2. row'[p] = row[p] \/ row'[p] = [row[p] EXCEPT !.status = "inflight", !.attempt = @ + 1]
      BY <2>3, <3>1 DEF Leased
    <3>3. row'[p].attempt = row[p].attempt \/ row'[p].attempt = row[p].attempt + 1
      BY <2>4, <3>2 DEF Rows
    <3>4. row'[p].attempt <= worker[w].attempt
      BY <2>2, <2>4, <2>5, <3>1, <3>3
    <3> QED
      BY <2>1, <2>7, <3>4
  <2>8. CASE (LoadEvents(w) \/ Post(w)) /\ worker'[w].at # "selected"
    <3>1. UNCHANGED row /\ worker[w].at # "selected"
      BY <2>8 DEF LoadEvents, Post, queueVars
    <3> QED
      BY <2>1, <2>2, <2>8, <3>1
  <2> QED
    BY <1>2, <2>6, <2>7, <2>8 DEF GoesOn
<1> QED
  BY <1>1, <1>2, BatchMoves

(* The loop recovers again after a crash only, and each crash is counted.   *)
LEMMA LevelGrows ==
  ASSUME TypeOK, Next
  PROVE  /\ Level \in Nat /\ Level' \in Nat /\ Level <= Level'
         /\ loop' = "recover" => loop = "recover" \/ Level < Level'
<1> USE DEF queueVars, tableVars, ingestVars, boundVars
<1>1. crashes \in Nat /\ MaxAttempts \in Nat
  BY QueueAssumption DEF TypeOK, QueueTypeOK
<1>2. \/ UNCHANGED crashes /\ (loop' = "recover" => loop = "recover")
      \/ crashes' = crashes + 1
  <2>1. CASE Outside /\ UNCHANGED <<loop, due, worker, acked>>
    BY <2>1 DEF Outside, Ingest, Admin, AppendEvent, MatchingSubscriptions, MatchingFails, Answer,
          RetryIngest, EnqueueDeliveries, EnqueueFails, SetSubscriptionStatus, CreateSubscription,
          DeleteSubscription, RequeueDeliveries, PurgeOlderThan, BackoffElapses, Fault, Intervene
  <2>2. CASE RecoverInflight \/ RecoverFails \/ StartPass \/ EndPass \/ Crash
    BY <2>2 DEF RecoverInflight, RecoverFails, StartPass, EndPass, Crash, Fault
  <2>3. ASSUME NEW w \in Slots, Deliver(w) \/ StoreFails(w)
        PROVE  UNCHANGED <<crashes, loop>>
    BY <2>3 DEF Deliver, StartWorker, GetSubscription, SelectDue, Lease, LoadEvents, ParkOrphans,
                Post, MarkDelivered, MarkFailed, StoreFails, Fault
  <2> QED
    BY <2>1, <2>2, <2>3 DEF Next
<1> QED
  BY <1>1, <1>2 DEF Level

(* A row MarkFailed sends back has attempts left.                           *)
LEMMA FailureLeavesAttempts ==
  ASSUME TypeOK, Exclusion, Counted, NEW w \in Slots, MarkFailed(w), NEW n \in worker[w].batch,
         row[<<worker[w].sub, n>>].status # "absent"
  PROVE  LET p == <<worker[w].sub, n>> IN
         /\ row'[p].attempt = row[p].attempt
         /\ row'[p].status = "dead" \/ (row'[p].status = "pending" /\ row[p].attempt < MaxAttempts)
<1> DEFINE p == <<worker[w].sub, n>>
           given == worker[w].answer = "refused" \/ Exhausted(worker[w].attempt)
<1>1. HasBatch(w) /\ worker[w].at = "answered"
  BY DEF MarkFailed, HasBatch
<1>2. p \in Pairs /\ p \in MyRows(w)
  BY <1>1, BatchRows DEF MyRows
<1>3. row \in Types /\ row[p] \in Rows /\ worker[w].attempt \in Nat /\ MaxAttempts \in Nat
  BY <1>2, WorkerParts, QueueAssumption DEF TypeOK, QueueTypeOK, Types, LoopTypeOK
<1>4. row[p].attempt \in Nat /\ row[p].attempt <= worker[w].attempt
  BY <1>1, <1>3 DEF Counted, Rows
<1>5. ASSUME NEW why, NEW retry, NEW dead \in BOOLEAN, row' = Failed(MyRows(w), why, retry, dead)
      PROVE  /\ row'[p].attempt = row[p].attempt
             /\ row'[p].status = IF dead THEN "dead" ELSE "pending"
  BY <1>2, <1>3, <1>5, FailedRow
<1>6. \E delay : row' = Failed(MyRows(w), worker[w].answer, delay, given)
  BY DEF MarkFailed
<1>7. given \in BOOLEAN
  BY DEF Exhausted
<1>8. ~ given => worker[w].attempt < MaxAttempts
  BY <1>3 DEF Exhausted
<1> HIDE DEF given, p
<1>9. row'[p].attempt = row[p].attempt /\ row'[p].status = IF given THEN "dead" ELSE "pending"
  BY <1>5, <1>6, <1>7
<1>10. row[p].attempt < MaxAttempts \/ given
  BY <1>3, <1>4, <1>8
<1> QED
  BY <1>7, <1>9, <1>10 DEF p

\* Only a crash lets a row be leased once more at the same level.
LEMMA WithinLevelKept ==
  ASSUME TypeOK, Exclusion, Counted, WithinLevel, Next
  PROVE  WithinLevel'
<1> SUFFICES ASSUME NEW s \in Subs, NEW n \in Seqs
             PROVE  /\ row'[<<s, n>>].attempt <= Level'
                    /\ row'[<<s, n>>].status = "pending" => row'[<<s, n>>].attempt < Level'
                    /\ row'[<<s, n>>].status = "inflight" /\ loop' = "recover"
                          => row'[<<s, n>>].attempt < Level'
  BY DEF WithinLevel
<1> DEFINE p == <<s, n>>
           Goal == /\ row'[p].attempt <= Level'
                   /\ row'[p].status = "pending" => row'[p].attempt < Level'
                   /\ row'[p].status = "inflight" /\ loop' = "recover" => row'[p].attempt < Level'
<1>1. p \in Pairs /\ row[p] \in Rows
  BY DEF TypeOK, QueueTypeOK, Pairs
<1>2. row[p].attempt \in Nat
  BY <1>1 DEF Rows
<1>3. Level \in Nat /\ Level' \in Nat /\ Level <= Level' /\ 1 <= Level /\ MaxAttempts <= Level
  BY LevelGrows, QueueAssumption DEF Level, TypeOK, QueueTypeOK
<1>4. /\ row[p].attempt <= Level
      /\ row[p].status = "pending" => row[p].attempt < Level
      /\ row[p].status = "inflight" /\ loop = "recover" => row[p].attempt < Level
  BY DEF WithinLevel
<1>5. ASSUME row'[p].attempt = row[p].attempt, row'[p].status = row[p].status
      PROVE  Goal
  <2>1. loop' = "recover" => loop = "recover" \/ Level < Level'
    BY LevelGrows
  <2> QED
    BY <1>2, <1>3, <1>4, <1>5, <2>1
<1>6. ASSUME row'[p] = Queued \/ row'[p] = NoRow
      PROVE  Goal
  BY <1>3, <1>6 DEF Queued, NoRow
<1>7. ASSUME RecoverInflight, row[p].status = "inflight", row'[p] = [row[p] EXCEPT !.status = "pending"]
      PROVE  Goal
  <2>1. loop = "recover"
    BY <1>7 DEF RecoverInflight
  <2>2. row'[p].status = "pending" /\ row'[p].attempt = row[p].attempt
    BY <1>1, <1>7 DEF Rows
  <2> QED
    BY <1>2, <1>3, <1>4, <1>7, <2>1, <2>2
<1>8. ASSUME NEW w \in Slots, Writes(w, p)
      PROVE  Goal
  <2>1. worker[w].sub = s /\ n \in worker[w].batch /\ row[p].status # "absent"
    BY <1>8 DEF Writes, MyRows
  <2>2. CASE /\ Lease(w) /\ row[p].status = "pending"
             /\ row'[p] = [row[p] EXCEPT !.status = "inflight", !.attempt = @ + 1]
    <3>1. row'[p].status = "inflight" /\ row'[p].attempt = row[p].attempt + 1
      BY <1>1, <2>2 DEF Rows
    <3>2. loop' # "recover"
      BY <1>8, <2>2 DEF Lease, Writes, HasBatch, Exclusion, Off
    <3> QED
      BY <1>2, <1>3, <1>4, <2>2, <3>1, <3>2
  <2>3. CASE \/ row'[p] = [row[p] EXCEPT !.status = "dead", !.wait = 0, !.error = "not retained"]
             \/ row'[p] = [row[p] EXCEPT !.status = "delivered", !.wait = 0, !.error = "none"]
    <3>1. row'[p].status \in {"dead", "delivered"} /\ row'[p].attempt = row[p].attempt
      BY <1>1, <2>3 DEF Rows
    <3> QED
      BY <1>2, <1>3, <1>4, <3>1
  <2>4. CASE MarkFailed(w)
    <3>1. /\ row'[p].attempt = row[p].attempt
          /\ row'[p].status = "dead" \/ (row'[p].status = "pending" /\ row[p].attempt < MaxAttempts)
      BY <2>1, <2>4, FailureLeavesAttempts
    <3>2. MaxAttempts \in Nat
      BY QueueAssumption
    <3> QED
      BY <1>2, <1>3, <1>4, <3>1, <3>2
  <2> QED
    BY <1>8, <2>2, <2>3, <2>4 DEF Writes
<1>9. row'[p] = Elapsed(row[p]) => row'[p].attempt = row[p].attempt /\ row'[p].status = row[p].status
  <2> HIDE DEF p
  <2> QED
    BY <1>1, ElapsedRow
<1>10. row'[p] = row[p] \/ row'[p] = Elapsed(row[p]) => Goal
  BY <1>5, <1>9
<1> HIDE DEF Goal
<1> QED
  <2>1. Goal
    BY <1>6, <1>7, <1>8, <1>10, RowMoves
  <2> QED
    BY <2>1 DEF Goal

\* No row has been leased more often than its budget allows, but for one time per
\* crash.
AttemptsBounded == \A p \in Pairs : row[p].attempt <= MaxAttempts + crashes

(* With one row to a batch PushMaxAttempts bounds how often an event is sent to
   a subscriber since it was queued or requeued, once more for each crash: the
   start-up takes leases back and counts no attempt off. Failed calls add none. *)
THEOREM AttemptsAreBounded == ASSUME BatchSize = 1 PROVE Spec => []AttemptsBounded
<1> DEFINE Inv == OneByOne /\ Counted /\ WithinLevel
<1>1. Init => Inv
  <2> SUFFICES ASSUME Init PROVE Inv
    OBVIOUS
  <2>1. OneByOne /\ Counted
    BY DEF Init, OneByOne, Counted, HasBatch, Off
  <2>2. \A s \in Subs, n \in Seqs : row[<<s, n>>] = NoRow
    BY DEF Init, QueueInit, Pairs
  <2>3. Level = MaxAttempts /\ MaxAttempts \in Nat
    BY QueueAssumption DEF Init, QueueInit, Level
  <2>4. WithinLevel
    <3>1. NoRow.attempt = 0 /\ NoRow.status = "absent"
      BY DEF NoRow
    <3>2. 0 <= Level
      BY <2>3
    <3> QED
      BY <2>2, <3>1, <3>2 DEF WithinLevel
  <2> QED
    BY <2>1, <2>4
<1>2. Inductive /\ Inv /\ [Next]_vars => Inv'
  <2>1. CASE UNCHANGED vars
    BY <2>1 DEF vars, queueVars, boundVars, OneByOne, Counted, WithinLevel, HasBatch, Level
  <2>2. Inductive /\ Inv /\ Next => Inv'
    BY OneByOneKept, CountedKept, WithinLevelKept DEF Inductive
  <2> QED
    BY <2>1, <2>2
<1>3. Inv => AttemptsBounded
  BY DEF WithinLevel, AttemptsBounded, Level, Pairs
<1> HIDE DEF Inv
<1> QED
  BY <1>1, <1>2, <1>3, InductiveHolds, PTL DEF Spec

=============================================================================
