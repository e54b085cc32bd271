----------------------------- MODULE Dispatcher -----------------------------
(***************************************************************************)
(* The push dispatcher of internal/dispatch over the tables of PushQueue:  *)
(* the polling loop, at most Cardinality(Slots) deliverSubscription        *)
(* goroutines at a time, the subscriber endpoints, store calls that fail   *)
(* and process crashes.                                                    *)
(***************************************************************************)
EXTENDS PushQueue

CONSTANTS
    Slots,     \* the places of the semaphore: one per running goroutine
    BatchSize  \* PushBatchSize

ASSUME DispatchAssumption ==
    /\ IsFiniteSet(Slots) /\ Slots # {}
    /\ BatchSize \in Nat \ {0}

VARIABLES
    loop,    \* Run: "recover", then "idle" and "pass" in turn
    due,     \* DrainOnce: the subscriptions no goroutine has been started for
    worker,  \* the goroutine in each place of the semaphore
    acked    \* history: the seqs each subscriber answered with 2xx

vars == <<queueVars, loop, due, worker, acked>>

\* A goroutine: where it is, its subscription, the seqs of its batch, the
\* attempt number of the batch and what the endpoint answered.
Workers == [at : {"off", "started", "ready", "selected", "leased", "orphaned",
                  "loaded", "answered"},
            sub : 0..NSubs, batch : SUBSET Seqs, attempt : Nat,
            answer : {"none", "ok", "failed", "refused"}]
Off == [at |-> "off", sub |-> 0, batch |-> {}, attempt |-> 0, answer |-> "none"]

Init ==
    /\ QueueInit
    /\ loop = "recover"
    /\ due = {}
    /\ worker = [w \in Slots |-> Off]
    /\ acked = [s \in Subs |-> {}]

Running == {w \in Slots : worker[w].at # "off"}
MyRows(w) == {worker[w].sub} \X worker[w].batch

\* What backoff(attempt) may return, in units of the base: the jitter is at most
\* a tenth of the delay, a unit that has begun counts as one, and the cap is put
\* on before it.
Doubling == <<1, 2, 4, 8, 16, 32, 64, 128, 256, 512, 1024>>
WithJitter(delay) == delay + (delay + 9) \div 10
Backoff(attempt) ==
    LET d == Doubling[IF attempt < 1 THEN 1 ELSE IF attempt > 10 THEN 11 ELSE attempt]
        capped == IF d > MaxBackoff THEN MaxBackoff ELSE d
    IN  capped..WithJitter(capped)

-----------------------------------------------------------------------------
(* Run and DrainOnce                                                       *)

RecoverNothing ==
    /\ loop = "recover"
    /\ loop' = "idle"
    /\ UNCHANGED <<queueVars, due, worker, acked>>
RecoverInflight ==
    /\ loop = "recover"
    /\ loop' = "idle"
    /\ row' = Recovered
    /\ UNCHANGED <<tableVars, ingestVars, boundVars, due, worker, acked>>

\* A failed recovery is logged, and the loop starts all the same.
RecoverFails ==
    /\ loop = "recover"
    /\ Fault
    /\ loop' = "idle"
    /\ UNCHANGED <<tableVars, ingestVars, row, due, worker, acked>>

StartPass ==
    /\ loop = "idle"
    /\ due' = DueSubscriptionIDs(4 * Cardinality(Slots))
    /\ due' # {}
    /\ loop' = "pass"
    /\ UNCHANGED <<queueVars, worker, acked>>

\* The ids are taken in order, one for each place of the semaphore that is free.
StartWorker(w) ==
    /\ loop = "pass"
    /\ worker[w].at = "off"
    /\ \E s \in Lowest(due, 1) :
           /\ due' = due \ {s}
           /\ worker' = [worker EXCEPT ![w] = [Off EXCEPT !.at = "started", !.sub = s]]
    /\ UNCHANGED <<queueVars, loop, acked>>

EndPassEarly ==
    /\ loop = "pass"
    /\ due = {}
    /\ loop' = "idle"
    /\ UNCHANGED <<queueVars, due, worker, acked>>
EndPass ==
    /\ loop = "pass"
    /\ due = {} /\ Running = {}
    /\ loop' = "idle"
    /\ UNCHANGED <<queueVars, due, worker, acked>>

-----------------------------------------------------------------------------
(* deliverSubscription and send                                            *)

ReturnHoldingSlot(w) == UNCHANGED worker
Return(w) == worker' = [worker EXCEPT ![w] = Off]
Again(w) == worker' = [worker EXCEPT ![w] = [Off EXCEPT !.at = "ready", !.sub = worker[w].sub]]

\* The one read of the subscription: the batches that follow rely on it.
GetSubscription(w) ==
    /\ worker[w].at = "started"
    /\ IF status[worker[w].sub] = "active" THEN Again(w) ELSE Return(w)
    /\ UNCHANGED <<queueVars, loop, due, acked>>

\* The SELECT of LeaseDeliveries runs outside writeMu. attempt is the number
\* send computes from the first row, as the SELECT saw it.
SelectDue(w) ==
    LET s == worker[w].sub
        batch == DueSeqs(s, BatchSize) IN
    /\ worker[w].at = "ready"
    /\ IF batch = {}
       THEN Return(w)
       ELSE \E first \in Lowest(batch, 1) :
                worker' = [worker EXCEPT ![w].at = "selected", ![w].batch = batch,
                                         ![w].attempt = row[<<s, first>>].attempt + 1]
    /\ UNCHANGED <<queueVars, loop, due, acked>>

Lease(w) ==
    /\ worker[w].at = "selected"
    /\ row' = Leased(MyRows(w))
    /\ worker' = [worker EXCEPT ![w].at = "leased"]
    /\ UNCHANGED <<tableVars, ingestVars, boundVars, loop, due, acked>>

\* eventsBySeq finds every event of the batch, or fewer.
LoadEvents(w) ==
    /\ worker[w].at = "leased"
    /\ worker' = [worker EXCEPT ![w].at =
                      IF worker[w].batch \subseteq events THEN "loaded" ELSE "orphaned"]
    /\ UNCHANGED <<queueVars, loop, due, acked>>

ParkOrphans(w) ==
    /\ worker[w].at = "orphaned"
    /\ row' = Failed(MyRows(w), "not retained", 0, TRUE)
    /\ Again(w)
    /\ UNCHANGED <<tableVars, ingestVars, boundVars, loop, due, acked>>

\* 2xx; 5xx, 429, 408, a timeout or a broken connection; any other status.
Post(w) ==
    /\ worker[w].at = "loaded"
    /\ \E answer \in {"ok", "failed", "refused"} :
           /\ worker' = [worker EXCEPT ![w].at = "answered", ![w].answer = answer]
           /\ acked' = IF answer = "ok"
                       THEN [acked EXCEPT ![worker[w].sub] = @ \cup worker[w].batch]
                       ELSE acked
    /\ UNCHANGED <<queueVars, loop, due>>

AdvancedBackwards(s, seq) == [cursor EXCEPT ![s] = IF status[s] = "absent" THEN @ ELSE seq]
Advanced(s, seq) ==
    IF status[s] # "absent" /\ cursor[s] < seq THEN [cursor EXCEPT ![s] = seq] ELSE cursor

MarkDelivered(w) ==
    LET s == worker[w].sub IN
    /\ worker[w].at = "answered" /\ worker[w].answer = "ok"
    /\ row' = Delivered(MyRows(w))
    /\ \E last \in worker[w].batch :
           /\ \A n \in worker[w].batch : n <= last
           /\ cursor' = Advanced(s, last)
    /\ Again(w)
    /\ UNCHANGED <<events, lastSeq, status, since, ingestVars, boundVars, loop, due, acked>>

ExhaustedEarly(attempt) == attempt + 1 >= MaxAttempts
Exhausted(attempt) == attempt >= MaxAttempts

MarkFailed(w) ==
    LET dead == worker[w].answer = "refused" \/ Exhausted(worker[w].attempt) IN
    /\ worker[w].at = "answered" /\ worker[w].answer # "ok"
    /\ \E delay \in Backoff(worker[w].attempt) :
           row' = Failed(MyRows(w), worker[w].answer, delay, dead)
    /\ Again(w)
    /\ UNCHANGED <<tableVars, ingestVars, boundVars, loop, due, acked>>

\* A store call of the goroutine fails. In deliverSubscription it returns; send
\* only logs, and the loop goes on. What was leased stays in-flight.
StoreFails(w) ==
    /\ worker[w].at \notin {"off", "loaded"}
    /\ Fault
    /\ IF worker[w].at = "answered" THEN Again(w) ELSE Return(w)
    /\ UNCHANGED <<tableVars, ingestVars, row, loop, due, acked>>

Deliver(w) ==
    \/ StartWorker(w)
    \/ GetSubscription(w)
    \/ SelectDue(w)
    \/ Lease(w)
    \/ LoadEvents(w)
    \/ ParkOrphans(w)
    \/ Post(w)
    \/ MarkDelivered(w)
    \/ MarkFailed(w)

-----------------------------------------------------------------------------
\* The process dies, or is told to stop and does not wait for its goroutines.
Crash ==
    /\ crashes < MaxCrashes
    /\ crashes' = crashes + 1
    /\ CutIngest
    /\ loop' = "recover"
    /\ due' = {}
    /\ worker' = [w \in Slots |-> Off]
    /\ UNCHANGED <<tableVars, row, interventions, faults, acked>>

Outside == Ingest \/ Admin \/ BackoffElapses

Next ==
    \/ Outside /\ UNCHANGED <<loop, due, worker, acked>>
    \/ RecoverInflight
    \/ RecoverFails
    \/ StartPass
    \/ EndPass
    \/ \E w \in Slots : Deliver(w) \/ StoreFails(w)
    \/ Crash

Spec == Init /\ [][Next]_vars

\* The loop and its goroutines run on: the endpoint answers or the client times
\* out. Time passes. Nothing is assumed of producers and operators.
FairSpec ==
    /\ Spec
    /\ WF_vars(RecoverInflight) /\ WF_vars(StartPass) /\ WF_vars(EndPass)
    /\ \A w \in Slots : WF_vars(Deliver(w))
    /\ WF_vars(BackoffElapses /\ UNCHANGED <<loop, due, worker, acked>>)

-----------------------------------------------------------------------------
(* Properties.                                                             *)

\* The tables and the goroutines hold what the code lets them hold.
TypeOK ==
    /\ QueueTypeOK
    /\ loop \in {"recover", "idle", "pass"}
    /\ due \subseteq Subs
    /\ worker \in [Slots -> Workers]
    /\ acked \in [Subs -> SUBSET Seqs]

\* Two goroutines never work on the same row, although LeaseDeliveries selects
\* its rows before it takes writeMu and does not look at how many it updated:
\* a pass starts only after every goroutine of the previous one has ended.
ExclusiveBatch ==
    \A v, w \in Slots : v # w => MyRows(v) \cap MyRows(w) = {}

\* As long as no store call fails, a row is in-flight only while a goroutine
\* holds it, or until the recovery at start-up returns it: the work leased by a
\* process that died is not lost (RecoverInflight), nor is that of an operator's
\* requeue, purge or deletion under the goroutine's feet.
InflightIsHeld ==
    faults = 0 /\ loop # "recover" =>
        \A p \in Pairs : row[p].status = "inflight" =>
            \E w \in Slots : p \in MyRows(w) /\ worker[w].at \in {"leased", "orphaned", "loaded", "answered"}

\* No row is leased before its backoff has elapsed, although LeaseDeliveries asks
\* for next_retry_at in a SELECT outside writeMu and no more in its UPDATE.
NoEarlyRetry ==
    [][\A p \in Pairs :
        row[p].status = "pending" /\ row'[p].status = "inflight" => row[p].wait = 0]_vars

\* A row given up after failures was given up together with an older one, or is
\* itself one, that had used up its attempts, through crashes and failed calls:
\* the budget of a batch is that of its first row (send, push.go).
OldestSpentItsBudget ==
    interventions = 0 =>
        \A s \in Subs, n \in Seqs :
            row[<<s, n>>].status = "dead" /\ row[<<s, n>>].error = "failed" =>
                \E m \in 1..n : row[<<s, m>>].status = "dead" /\ row[<<s, m>>].attempt >= MaxAttempts

\* The cursor of a push subscription is the newest event marked delivered to it:
\* a batch that arrives late does not rewind it, and no crash or failed call
\* parts it from the rows (MarkDelivered is one transaction).
CursorIsNewestDelivered ==
    interventions = 0 =>
        \A s \in Subs :
            LET done == {n \in Seqs : row[<<s, n>>].status = "delivered"} IN
            /\ cursor[s] \in done \cup {0}
            /\ \A n \in done : n <= cursor[s]

\* A retained event whose producer has its answer, and whose fan-out was neither
\* cut short nor lost a call, is queued for every subscription that was there
\* before it: whatever other fan-outs lose, and whoever pauses, resumes or
\* requeues between the match and the enqueues or after them (service.Ingest;
\* a paused subscription goes on queueing, DESIGN.md:101).
AcceptedIsQueued ==
    \A s \in Subs, n \in events \ cutShort :
        ingest[n] = "answered" /\ status[s] # "absent" /\ since[s] < n =>
            row[<<s, n>>].status # "absent"

\* Push delivery is at-least-once: a queued event stays queued through retries,
\* crashes, races and failed calls until the subscriber confirmed it or it is
\* given up, and only an operator moves it otherwise.
Place(p) == CASE row[p].status = "absent" -> "out"
              [] row[p].status \in {"pending", "inflight"} -> "queued"
              [] OTHER -> row[p].status
Promise == INSTANCE AtLeastOnce WITH place <- [p \in Pairs |-> Place(p)],
                                     operator <- interventions
ImplementsAtLeastOnce == Promise!Spec

\* What is queued for an active subscription is in the end delivered, given up
\* or removed, unless the subscription is paused or deleted first ("Dispatcher
\* drains the delivery queue of every push subscription", dispatcher.go:42).
QueueDrains ==
    \A s \in Subs, n \in Seqs :
        (status[s] = "active" /\ row[<<s, n>>].status \in {"pending", "inflight"})
            ~> (status[s] # "active" \/ row[<<s, n>>].status \notin {"pending", "inflight"})

\* Every pass ends, once no more rows come due: a goroutine leaves, and gives
\* back its place, on whichever path it leaves. A subscription that keeps getting
\* rows keeps its goroutine, and the pass, for as long (deliverSubscription
\* loops until LeaseDeliveries finds none, dispatcher.go:150).
PassEnds ==
    (<>[][\A p \in Pairs : Due(p)' => Due(p)]_vars) => (loop = "pass" ~> loop # "pass")

\* Without an operator, the cursor does not pass an event whose delivery failed
\* and was not made good (dispatch_test.go:249: it "must not move for undelivered
\* events").
CursorOverDelivered ==
    interventions = 0 =>
        \A s \in Subs, n \in Seqs :
            row[<<s, n>>].error \in {"failed", "refused"} => cursor[s] < n

\* Without an operator, a row goes to the dead letters for failed attempts only
\* when its attempts are used up (MarkFailed: "once the attempt budget is
\* exhausted").
DeadSpentItsBudget ==
    interventions = 0 =>
        \A p \in Pairs :
            row[p].status = "dead" /\ row[p].error = "failed" => row[p].attempt >= MaxAttempts

\* What is parked as "event no longer retained" is no longer retained.
ParkedIsGone ==
    \A s \in Subs, n \in Seqs : row[<<s, n>>].error = "not retained" => n \notin events

\* An event whose producer has its answer is queued for every subscription
\* (DESIGN.md:100: a crash loses no task and misses no delivery).
AnsweredIsQueued ==
    interventions = 0 =>
        \A s \in Subs, n \in Seqs : ingest[n] = "answered" => row[<<s, n>>].status # "absent"
=============================================================================
