----------------------------- MODULE PushQueue ------------------------------
(***************************************************************************)
(* The tables behind push delivery and everything that writes them except  *)
(* the dispatcher: the fan-out of service.Ingest, the admin API and the    *)
(* retention purge. Every operation is one transaction under writeMu, so   *)
(* each is one action; the dispatcher is in module Dispatcher.             *)
(***************************************************************************)
EXTENDS Integers, FiniteSets

CONSTANTS
    NSubs,             \* subscription ids, in the order SQL sorts them: 1..NSubs
    MaxSeq,            \* bound: the events that are ingested are 1..MaxSeq
    MaxAttempts,       \* PushMaxAttempts
    MaxBackoff,        \* the cap of the backoff, in units of PushBaseBackoff
    RequeueLimit,      \* the "limit" of a requeue request
    MaxInterventions,  \* bound: calls of the admin API and purges
    MaxFaults,         \* bound: store calls that fail
    MaxCrashes         \* bound: process crashes

ASSUME QueueAssumption ==
    /\ NSubs \in Nat \ {0} /\ MaxSeq \in Nat \ {0}
    /\ MaxAttempts \in Nat \ {0} /\ MaxBackoff \in Nat \ {0}
    /\ RequeueLimit \in Nat \ {0}
    /\ MaxInterventions \in Nat /\ MaxFaults \in Nat /\ MaxCrashes \in Nat

VARIABLES
    events,        \* table events: the retained seqs
    lastSeq,       \* the newest seq
    ingest,        \* where the request that carries each event is
    todo,          \* the subscriptions an Ingest has matched and not yet enqueued for
    status,        \* table subscriptions: status, "absent" when there is no row
    cursor,        \* table subscriptions: cursor
    row,           \* table deliveries
    since,         \* history: the newest seq when each subscription was last created
    cutShort,      \* history: the events whose fan-out was cut short, or lost a call
    interventions, faults, crashes  \* how often each happened

Subs == 1..NSubs
Seqs == 1..MaxSeq
Pairs == Subs \X Seqs

\* A row of table deliveries. wait is the time left until next_retry_at, and
\* error what last_error says.
Rows == [status : {"absent", "pending", "inflight", "delivered", "dead"},
         attempt : Nat, wait : Nat,
         error : {"none", "failed", "refused", "not retained"}]
NoRow == [status |-> "absent", attempt |-> 0, wait |-> 0, error |-> "none"]
Queued == [NoRow EXCEPT !.status = "pending"]

tableVars  == <<events, lastSeq, status, cursor, since>>
ingestVars == <<ingest, todo, cutShort>>
boundVars  == <<interventions, faults, crashes>>
queueVars  == <<tableVars, ingestVars, row, boundVars>>

QueueTypeOK ==
    /\ events \subseteq Seqs
    /\ lastSeq \in 0..MaxSeq
    /\ ingest \in [Seqs -> {"none", "stored", "matched", "answered", "cut"}]
    /\ todo \in [Seqs -> SUBSET Subs]
    /\ status \in [Subs -> {"absent", "active", "paused"}]
    /\ cursor \in [Subs -> 0..MaxSeq]
    /\ row \in [Pairs -> Rows]
    /\ since \in [Subs -> 0..MaxSeq]
    /\ cutShort \subseteq Seqs
    /\ interventions \in 0..MaxInterventions
    /\ faults \in 0..MaxFaults
    /\ crashes \in 0..MaxCrashes

QueueInit ==
    /\ events = {}
    /\ lastSeq = 0
    /\ ingest = [n \in Seqs |-> "none"]
    /\ todo = [n \in Seqs |-> {}]
    /\ status \in [Subs -> {"active", "paused"}]
    /\ cursor = [s \in Subs |-> 0]
    /\ row = [p \in Pairs |-> NoRow]
    /\ since = [s \in Subs |-> 0]
    /\ cutShort = {}
    /\ interventions = 0
    /\ faults = 0
    /\ crashes = 0

\* The first k of a set of numbers: ORDER BY ... LIMIT k.
Lowest(S, k) == {x \in S : Cardinality({y \in S : y < x}) < k}

Intervene == /\ interventions < MaxInterventions
             /\ interventions' = interventions + 1
             /\ UNCHANGED <<faults, crashes>>
Fault == /\ faults < MaxFaults
         /\ faults' = faults + 1
         /\ UNCHANGED <<interventions, crashes>>

-----------------------------------------------------------------------------
(* deliveries.go: what each statement leaves in the table.                 *)

Enqueued(R) == [p \in Pairs |-> IF p \in R /\ row[p].status = "absent" THEN Queued ELSE row[p]]

\* Variants of a definition, as a plausible slip would write it, stand right
\* before it: each property is shown to reject one of them.

RecoveredAll == [p \in Pairs |->
    IF row[p].status # "absent" THEN [row[p] EXCEPT !.status = "pending"] ELSE row[p]]
Recovered == [p \in Pairs |->
    IF row[p].status = "inflight" THEN [row[p] EXCEPT !.status = "pending"] ELSE row[p]]

Due(p) == row[p].status = "pending" /\ row[p].wait = 0

DueSubscriptionIDs(limit) == Lowest({s \in Subs : \E n \in Seqs : Due(<<s, n>>)}, limit)
DueSeqs(s, limit) == Lowest({n \in Seqs : Due(<<s, n>>)}, limit)

\* The UPDATE of LeaseDeliveries: only rows that are still pending.
Leased(R) == [p \in Pairs |->
    IF p \in R /\ row[p].status = "pending"
    THEN [row[p] EXCEPT !.status = "inflight", !.attempt = @ + 1] ELSE row[p]]

\* MarkDelivered and MarkFailed look at no status: they rewrite what is there.
Delivered(R) == [p \in Pairs |->
    IF p \in R /\ row[p].status # "absent"
    THEN [row[p] EXCEPT !.status = "delivered", !.wait = 0, !.error = "none"] ELSE row[p]]

FailedSwapped(R, why, retry, dead) == [p \in Pairs |->
    IF p \in R /\ row[p].status # "absent"
    THEN [row[p] EXCEPT !.status = IF dead THEN "dead" ELSE why, !.wait = 0]
    ELSE row[p]]
FailedKeepsLease(R, why, retry, dead) == [p \in Pairs |->
    IF p \in R /\ row[p].status # "absent"
    THEN [row[p] EXCEPT !.status = IF dead THEN "dead" ELSE @, !.wait = retry, !.error = why]
    ELSE row[p]]
Failed(R, why, retry, dead) == [p \in Pairs |->
    IF p \in R /\ row[p].status # "absent"
    THEN [row[p] EXCEPT !.status = IF dead THEN "dead" ELSE "pending",
                        !.wait = IF dead THEN 0 ELSE retry,
                        !.error = why]
    ELSE row[p]]

Requeued(R) == [p \in Pairs |-> IF p \in R THEN Queued ELSE row[p]]
Dropped(R) == [p \in Pairs |-> IF p \in R THEN NoRow ELSE row[p]]

-----------------------------------------------------------------------------
(* service.Ingest                                                          *)

AppendEvent ==
    /\ lastSeq < MaxSeq
    /\ lastSeq' = lastSeq + 1
    /\ events' = events \cup {lastSeq'}
    /\ ingest' = [ingest EXCEPT ![lastSeq'] = "stored"]
    /\ UNCHANGED <<todo, cutShort, status, cursor, since, row, boundVars>>

MatchingActive(n) ==
    /\ ingest[n] = "stored"
    /\ ingest' = [ingest EXCEPT ![n] = "matched"]
    /\ todo' = [todo EXCEPT ![n] = {s \in Subs : status[s] = "active"}]
    /\ UNCHANGED <<tableVars, cutShort, row, boundVars>>

\* Paused subscriptions are matched like active ones.
MatchingSubscriptions(n) ==
    /\ ingest[n] = "stored"
    /\ ingest' = [ingest EXCEPT ![n] = "matched"]
    /\ todo' = [todo EXCEPT ![n] = {s \in Subs : status[s] # "absent"}]
    /\ UNCHANGED <<tableVars, cutShort, row, boundVars>>

\* Nothing is asked of the subscription or of the event again: a row is added
\* even if either is gone by now (table deliveries has no foreign keys).
EnqueueDeliveries(n, s) ==
    /\ s \in todo[n]
    /\ todo' = [todo EXCEPT ![n] = @ \ {s}]
    /\ row' = Enqueued({<<s, n>>})
    /\ UNCHANGED <<tableVars, ingest, cutShort, boundVars>>

\* A failed enqueue is logged, and the loop goes on with the next one.
EnqueueFails(n, s) ==
    /\ s \in todo[n]
    /\ Fault
    /\ todo' = [todo EXCEPT ![n] = @ \ {s}]
    /\ cutShort' = cutShort \cup {n}
    /\ UNCHANGED <<tableVars, ingest, row>>

Answer(n) ==
    /\ ingest[n] = "matched" /\ todo[n] = {}
    /\ ingest' = [ingest EXCEPT ![n] = "answered"]
    /\ UNCHANGED <<tableVars, todo, cutShort, row, boundVars>>

\* MatchingSubscriptions fails: the producer gets a 500 for a stored event.
MatchingFails(n) ==
    /\ ingest[n] = "stored"
    /\ Fault
    /\ ingest' = [ingest EXCEPT ![n] = "cut"]
    /\ cutShort' = cutShort \cup {n}
    /\ UNCHANGED <<tableVars, todo, row>>

\* The producer sends the event again: its dedupe key is found, it is answered
\* as a duplicate, and nothing is published.
RetryIngest(n) ==
    /\ ingest[n] = "cut" /\ n \in events
    /\ ingest' = [ingest EXCEPT ![n] = "answered"]
    /\ UNCHANGED <<tableVars, todo, cutShort, row, boundVars>>

Ingest ==
    \/ AppendEvent
    \/ \E n \in Seqs : MatchingSubscriptions(n) \/ MatchingFails(n) \/ Answer(n) \/ RetryIngest(n)
    \/ \E n \in Seqs, s \in Subs : EnqueueDeliveries(n, s) \/ EnqueueFails(n, s)

-----------------------------------------------------------------------------
(* The admin API and the janitor.                                          *)

SetSubscriptionStatus(s, new) ==
    /\ status[s] \notin {"absent", new}
    /\ Intervene
    /\ status' = [status EXCEPT ![s] = new]
    /\ UNCHANGED <<events, lastSeq, cursor, since, ingestVars, row>>

CreateSubscription(s) ==
    /\ status[s] = "absent"
    /\ Intervene
    /\ status' = [status EXCEPT ![s] = "active"]
    /\ cursor' = [cursor EXCEPT ![s] = 0]
    /\ since' = [since EXCEPT ![s] = lastSeq]
    /\ UNCHANGED <<events, lastSeq, ingestVars, row>>

DeleteSubscription(s) ==
    /\ status[s] # "absent"
    /\ Intervene
    /\ status' = [status EXCEPT ![s] = "absent"]
    /\ cursor' = [cursor EXCEPT ![s] = 0]
    /\ row' = Dropped({s} \X Seqs)
    /\ UNCHANGED <<events, lastSeq, since, ingestVars>>

\* Any status may be asked for, of one subscription or of all; the rows of the
\* lowest seqs go first.
RequeueDeliveries(scope, old) ==
    LET rows == {p \in scope \X Seqs : row[p].status = old} IN
    /\ rows # {}
    /\ Intervene
    /\ \E R \in SUBSET rows :
           /\ \A p \in R, q \in rows : q[2] < p[2] => q \in R
           /\ Cardinality(R) = IF Cardinality(rows) < RequeueLimit
                               THEN Cardinality(rows) ELSE RequeueLimit
           /\ row' = Requeued(R)
    /\ UNCHANGED <<tableVars, ingestVars>>

\* Of the requests that carried the events nothing is asked: one may not have
\* ended its fan-out.
PurgeOlderThan(old) ==
    /\ old # {} /\ old \subseteq events
    /\ Intervene
    /\ events' = events \ old
    /\ row' = Dropped(Subs \X old)
    /\ UNCHANGED <<lastSeq, status, cursor, since, ingestVars>>

Admin ==
    \/ \E s \in Subs, new \in {"active", "paused"} : SetSubscriptionStatus(s, new)
    \/ \E s \in Subs : CreateSubscription(s) \/ DeleteSubscription(s)
    \/ \E scope \in {Subs} \cup {{s} : s \in Subs},
          old \in {"pending", "inflight", "delivered", "dead"} : RequeueDeliveries(scope, old)
    \/ \E old \in SUBSET events : PurgeOlderThan(old)

\* The process dies: the requests under way are cut short.
CutIngest ==
    /\ ingest' = [n \in Seqs |-> IF ingest[n] \in {"stored", "matched"} THEN "cut" ELSE ingest[n]]
    /\ todo' = [n \in Seqs |-> {}]
    /\ cutShort' = cutShort \cup {n \in Seqs : ingest[n] \in {"stored", "matched"}}

\* One unit of the backoff passes.
BackoffElapses ==
    /\ \E p \in Pairs : row[p].wait > 0
    /\ row' = [p \in Pairs |-> [row[p] EXCEPT !.wait = IF @ > 0 THEN @ - 1 ELSE 0]]
    /\ UNCHANGED <<tableVars, ingestVars, boundVars>>
=============================================================================
