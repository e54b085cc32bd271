# A TLA+ verification of the event centre (`eventd`)

`eventd` takes events from producers over HTTP, keeps them in an ordered log in
SQLite, and hands them to consumers that pull with a cursor and to subscribers it
pushes to. This directory models its core in TLA+, checks the models with TLC on
small instances, and proves the most important results with TLAPS for every value
of the constants. `PROJECT.json` maps every definition to the lines it models.

## 1. The system

| Component | Code | State | Operations | Modelled in |
|---|---|---|---|---|
| Event log | `internal/store/events.go`, `store.go` | tables `events`, `streams`, `sqlite_sequence`; `writeMu` | AppendEvent, PurgeOlderThan, ListEvents | `EventLog` |
| Delivery queue | `internal/store/deliveries.go` | table `deliveries` (status, attempt, next_retry_at) | enqueue, recover, due, lease, mark delivered/failed, requeue | `PushQueue` |
| Ingest fan-out | `internal/service/service.go` | none of its own | Ingest: append, match, enqueue per subscription | `PushQueue` |
| Subscriptions | `internal/store/subscriptions.go`, `admin.go` | table `subscriptions` (status, secret, delivery, filter, cursor) | create, delete, pause, resume, match, advance the cursor | `Subscriptions`, `PushQueue` |
| Push dispatcher | `internal/dispatch` | the loop, a semaphore, one goroutine per subscription of a pass | Run, DrainOnce, deliverSubscription, send, post | `Dispatcher` |
| Retention janitor | `cmd/eventd/main.go` | none | purge once a day | `EventLog`, `PushQueue`, `Subscriptions` |
| Start-up and shutdown | `cmd/eventd/main.go` | none | seed the sources, recover in-flight rows, stop | `Ingress`, `Dispatcher`; a crash in every module |
| Ingest endpoints | `internal/api/ingest.go`, `github.go`, `verify` | one request each | look the source up, read the body, verify, ingest, answer | `Ingress` |
| Source registry | `internal/store/sources.go`, `admin.go`, `main.go` | table `sources` | upsert, delete, seed at start-up | `Ingress` |
| Audit log | `internal/api/ingress_log.go` | a file of lines | one line per request | `Ingress` |
| Pull API, acknowledgements | `internal/api/consume.go`, `api.go` | a waiting request each; `subscriptions.cursor` | long poll, ack, authorisation of a consumer | `Subscriptions`; a pull against open transactions in `EventLog` |
| Filters | `internal/filter` | none | match | `Filter`, used by `Subscriptions` |
| Identifiers, HTTP layer, metrics, configuration, dashboard, scripts | the rest | counters | | not modelled (section 8) |

How they interact: an ingest endpoint reads the source registry, verifies, and calls
`service.Ingest`, which appends to the log and then, in separate transactions,
enqueues one delivery row per matching push subscription. The dispatcher polls the
queue; in each pass it starts a goroutine per due subscription, which leases a batch,
loads its events from the log, posts them and marks the rows. Operators edit
subscriptions, sources and delivery rows through the admin API while all this runs;
the janitor deletes old events with their rows. A pull consumer shows its subscription's
secret, polls the log from its own position and writes its progress back to the
subscription's row, from which it starts again after a crash. Every write takes `Store.writeMu`;
reads do not, and see the last commit.

### What is hard here

- *Reads outside the lock that a later write relies on*: the SELECT of
  `LeaseDeliveries` (deliveries.go:94), the subscription read once per goroutine
  (dispatcher.go:140), the source row read before the body (ingest.go:38) and before
  an upsert (admin.go:86).
- *Two transactions for one promise*: an event is committed and then fanned out
  (service.go:33-60); rows are leased and then their events are loaded
  (dispatcher.go:151-160); a subscriber confirms and then the rows are marked.
- *Crashes and restarts* between any two of these, with rows left in-flight.
- *Lost responses*: of a pull, of a push, of an ingest whose producer tries again.
- *Order*: seqs against commits, cursors against pages, batches against backoff,
  acknowledgements against one another and against a deletion and a re-creation.
- *Timeouts*: a long poll ends by its deadline, by a row or by an error, in any order.
- *Progress*: one mutex for all writers, a pass that waits for all its goroutines, a
  list of due subscriptions with a limit.

### What makes each component correct

- Event log: seqs are the commit order and gapless per stream; a consumer's cursor
  never passes a retained event it did not get; a dedupe key is stored once; what was
  answered is stored until it is older than the retention; every append ends, every
  event arrives.
- Queue and dispatcher: no row is worked on by two goroutines; no lease is lost; the
  cursor agrees with the rows; a queued event stays queued until confirmed or given
  up; what was accepted is queued for all it was meant for, whatever happens to other
  fan-outs; the queue of an active subscription drains; a pass without new work ends.
- Subscriptions and pulls: no position and no stored cursor passes an unprocessed event;
  an acknowledgement stays in force; the queue holds exactly what the filter addresses
  (and what a fan-out added that a deletion or a purge overtook);
  every pull is answered and every retained event processed.
- Endpoints, registry, audit: whoever was let in was admissible under one version of
  the source; the audit line tells what happened; an operator's edit survives.

`PROJECT.json` lists the hazards line by line with the properties that cover them.

## 2. Modules

| Module | What it is |
|---|---|
| `OrderedLog` | abstract: a log that is appended atomically, trimmed, and read by cursors |
| `EventLog` | detailed: `AppendEvent` step by step under `writeMu`, purge, pull, crash; implements `OrderedLog` |
| `EventLogProofs` | theorems about `EventLog` |
| `EventLogRefinement` | proof that `EventLog` implements `OrderedLog`, and that no page repeats what was got |
| `AtLeastOnce` | abstract: what push delivery promises for one subscription and one event |
| `PushQueue` | the tables of push delivery and all that writes them but the dispatcher |
| `Dispatcher` | extends `PushQueue` with the dispatcher; implements `AtLeastOnce` |
| `DispatcherProofs` | the inductive invariant of `Dispatcher`; types, exclusion, leases |
| `DispatcherRefinement` | proof that `Dispatcher` implements `AtLeastOnce` |
| `DispatcherInvariants` | proofs about the cursor, accepted events, backoff, dead letters and attempts |
| `Ingress` | both ingest endpoints, the source registry, the audit log |
| `IngressProofs` | theorems about `Ingress` |
| `Filter` | `internal/filter` as operators, and the reference definition it is compared with |
| `FilterProofs` | proof that the two agree, lone wildcards aside |
| `Subscriptions` | extends `Filter`: one subscription id over its lives, its fan-out, `handlePull`, `handleAck`, a consumer |
| `SubscriptionsProofs` | theorems about `Subscriptions` |
| `MCEventLog`, `MCDispatcher`, `MCIngress`, `MCSubscriptions` | instances for TLC |

A definition that ends a little differently from its neighbour (`NextSeqByRowid`
before `NextSeq`) is a *variant*: the code with a plausible slip in it. It is used by
nothing; `PROJECT.json` pairs each property with a variant that breaks it, which
shows that the property can fail.

### EventLog

A handler goes `idle -> waiting -> locked -> fresh -> sequenced -> inserted -> idle`,
one action per place where another goroutine may run or the process may die:
`Normalize` stamps `received_at` *before* the mutex (events.go:56), `Lock` opens the
transaction, `Duplicate`/`Fresh` are the dedupe lookup, `AssignStreamSeq` the upsert of
`streams`, `InsertEvent` the AUTOINCREMENT, `Commit` the rest. Tentative values live in
`tx[h]` and reach the tables in `Commit`, which is what SQLite shows to other
connections. `Rollback` is any error or cancelled context. A consumer asks
(`ListEvents`), and the page is either received, which moves its cursor, or lost.
`Crash` keeps the tables and drops everything else. `log`, `answered`, `received` and
`purged` are history.

### PushQueue and Dispatcher

A row is `[status, attempt, wait, error]`, where `wait` is the time left until
`next_retry_at` in units of the base backoff. Each SQL statement is an operator that
maps the table to the table it leaves (`Leased`, `Delivered`, `Failed`, ...); each
transaction of another component is one action, because it holds `writeMu`. `Ingest`
is split where the code commits: `AppendEvent`, `MatchingSubscriptions`, one
`EnqueueDeliveries` per subscription, `Answer`; `MatchingFails`, `EnqueueFails` and
`CutIngest` (crash) are its failures, `RetryIngest` the producer's second attempt,
which is a duplicate. `PurgeOlderThan` asks nothing of the requests that carried the
events: one may be between its match and its enqueue, and leaves a row without its event,
which the dispatcher's orphan branch parks. `cutShort` (the events whose fan-out lost a
call or its process) and `since` (how far the log was when a subscription was created)
are history. `NSubs` subscriptions are numbered in the order of their ids, because
`DueSubscriptionIDs` sorts and cuts.

`Backoff` is the *set* of the delays the code may choose: the exponential one, cut at its
maximum, plus a jitter of at most a tenth, rounded up to the unit of the model. As in the
code the jitter comes after the cut, so a delay may exceed the maximum.

A goroutine goes `started -> ready -> selected -> leased -> loaded -> answered` and
back to `ready`, or is `off`: `GetSubscription`, the SELECT and the UPDATE of
`LeaseDeliveries` as two actions (only the second holds `writeMu`), `LoadEvents`,
`ParkOrphans`, `Post` with any of the three classes of answers, `MarkDelivered` /
`MarkFailed` with the batch's single attempt number. `StoreFails` is a failing store
call at any of these points and does what the code does there: it gives up the
subscription or only logs. `Crash` is also the graceful shutdown, which does not wait
for the goroutines (main.go:149-159).

Left out of the data: filters (every subscription matches every event), payloads,
endpoints, and the ids of the deliveries.

### Ingress

A request goes `arrived -> open -> verified -> stored -> answered -> done`. `open`
holds the row that `LookupSource` read; `Verify` uses that row, whatever the table says
by then. A signature or token is the secret it was made with: the check succeeds when
that is the row's. Verify modes are `none`, `keyed` (HMAC and bearer) and `other` (any
unknown string, which the admin API stores). `Append` is the dedupe decision of the
log, which `EventLog` models in detail; `StoreFails` covers the lookup, the append and
the matching, so a request can be recorded as rejected with its event stored. An upsert
is two actions, `GetSource` and `UpsertSource`, because the handler holds nothing in
between; a failed read continues as a new source. `Restart` runs `seedSources`; a start
whose seeding fails is no start. `seen` and `written` are history. Retention is not
part of this module.

### Filter

A dotted type or pattern is the sequence of its segments. `MatchTypeSegments` is the
recursion of the code as a recursive function over pairs of positions, one branch per
`if`. What `path.Match` and `strings.HasPrefix` say of a pattern and a value is a
constant (`Globs`, `Malformed`, `Prefixed`), filled in for the patterns of the instance.
`Documented` is the reference: the type can be cut into blocks, one per segment of the
pattern, "*" taking exactly one and "**" one or more, as filter.go:6-8 and DESIGN.md:68
say. It has no recursion. In one point the code departs from it: a list that holds a lone
wildcard counts as omitted (`matchAny`). `Loosened` is the filter that the code thus
reads, and `Documented(Loosened(f), ev)` what the runs and the proofs compare with
(section 5).

### Subscriptions

One subscription id, created, paused, deleted and created again up to `MaxLives` times,
with a fresh secret or the one of an earlier life (the caller of the admin API may give
it). `Ingest` is split as in `PushQueue`: `AppendEvent`, `MatchingSubscriptions`, which
selects the id when the SQL condition on the stream and `Matches` both say so, and
`EnqueueDeliveries`, which adds the row whatever became of the subscription and of the
event meanwhile; `IngestFails` and a server crash end a fan-out early. `fanout` tells for
each event how far its request is. `owed` is history: the events the documented filters
addressed. A deletion and a purge settle what has its row; a fan-out on its way to the
enqueue they do not see, and it is still owed (`Settled`).

A pull goes `listing -> sleeping -> listing -> ... -> answered`. Each SELECT may find
rows (`ListsRows`), nothing (`ListsNothing`: answered, or asleep for 200 ms when there
is time left), or fail (`ListFails`: an empty 200 after the deadline, else a 500).
The limit is checked twice, in the handler and, for what is not positive, in
`ListEvents` (`ListLimit`).
`Deadline` is the context's timeout, at any point; a sleeping pull whose timer and
deadline are both due takes either branch of the `select` (`Wake`, `Done`). An
acknowledgement is three store calls, `LookUp`, `Advance` and `Reload`, and several run
together in any order; `AckFails` is any error before, between or after them. `life` in
an acknowledgement is history: it tells for which life it was let in.

The consumer starts from the stored cursor (`Start`), asks (`Ask`, which
`AuthConsume` refuses for a paused or re-created subscription), takes the page and its
`next_cursor`, processes the events in order, and acknowledges its position when the
page is done (`SendAck`), without waiting for the answer. It may crash at any time
(`ClientCrash`), answers get lost (`LoseResponse`), and the server dies with all its
requests (`ServerCrash`); neither is bounded. How a consumer behaves is not this
repository's code: the model follows the README's pull and ack.

## 3. Runs

| Run | Shows | Size |
|---|---|---|
| `log_safety` | seven invariants of the log and the refinement of `OrderedLog` | 2 handlers, 2 streams, 1 key, 1 consumer of all and 1 of a stream, 3 commits, clock 0..2 |
| `log_live` | `AppendEnds`, `EventArrives` | 2 handlers, 1 consumer, 2 commits |
| `dispatch_safety` | exclusion, leases, retries, dead letters, cursor, fan-out, refinement of `AtLeastOnce` | 1 subscription, 2 events, 2 places, 2 attempts; 2 interventions and 1 fault or 1 crash, or a fault and a crash |
| `dispatch_live` | `QueueDrains`, `PassEnds` | 2 subscriptions, 1 event, 1 place, 1 crash, 1 intervention |
| `ingress_safety` | admission, audit, edits | 2 sources, 2 requests, 2 operators, 2 edits, 1 fault, 1 restart |
| `consume` | nothing skipped, acknowledgements in force, fan-out as documented, every pull answered, every event processed | 1 id with 2 lives, 2 events, 2 acknowledgements at a time, limits -1, 1, 5 with a maximum of 2, 31 filters, 21 events |
| `cursor_gap`, `early_dead`, `parked_retained`, `lost_fanout`, `starvation`, `lost_update` | each a disagreement between the code and what the repository says of it; TLC prints the behaviour | as above; `cursor_gap` and `early_dead` without operator, fault and crash; `starvation` has 5 subscriptions and one place |

What the passing properties say, beyond their comments:

- `NoHole` is the reason for the ordering contract of `store.go`: were a seq visible
  before a lower one, the cursor would pass the lower one. The refinement adds that a
  page leaves nothing out and invents nothing.
- `NothingTwice` is the other half: a consumer that resumes at its cursor is sent nothing
  that it got, although purges and commits shift the rows under its pages.
- `ExclusiveBatch` is not guaranteed by the queue: the UPDATE of a lease does not say
  how many rows it changed, so two goroutines with the same rows would both send them.
  It holds because a pass ends only when all its goroutines have, and because
  recovery runs before the first pass.
- `NoEarlyRetry` rests on the same order of passes: `next_retry_at` is in the SELECT of a
  lease and not in its UPDATE, so a second goroutine that had selected the row before the
  first one's failure would send it at once.
- `OldestSpentItsBudget` is what holds of the attempt budget: a row given up after failures
  went with an older one, or is itself one, that had used up its attempts. `early_dead`
  shows that it need not be the row itself.
- `InflightIsHeld` is stated for runs without failing store calls: a failing mark is
  logged and its rows stay in-flight until the next start (push.go:44, 59).
- `CursorIsNewestDelivered` is what holds of the push cursor; `CursorOverDelivered`,
  which the test's comment claims, does not.
- `AcceptedIsQueued` holds across operators, crashes and failing calls: a pause, a resume, a
  requeue or a purge of other events between the match and the enqueues, or the loss of
  another event's fan-out, takes nothing from a retained event whose own fan-out ended
  without loss, and each subscription that is older than the event has its row.
  `AnsweredIsQueued` says it of the fan-outs that were cut short as well and is violated.
- `AdmittedByTheRegistry` says that the row read before the body is used consistently:
  re-reading it at verification would let in a request that no version admits.
- `AuditTellsTheTruth` leaves the *rejected* lines of runs with a failed store call
  out: there the event may be stored and the line says rejected (section 5).
- `NothingSkipped` speaks of both cursors of a consumer, its own and the stored one. It
  would fail if a long poll answered with a cursor beyond what it lists, or
  if an acknowledgement of an earlier session or life could reach beyond what that session
  had done. It counts what was processed in any life: that a late acknowledgement moves
  the cursor of a re-created subscription is modelled and not excluded (section 5).
- `AckedIsKept` is about what was answered 200 in this life: an acknowledgement that
  raced a deletion has no such promise.
- `FanOutAsDocumented` compares, for every filter and event of the instance, the queue
  with the reference definition, and after every purge, deletion and re-creation; the rows
  of fan-outs that these overtook are in both sides, as the code leaves them in the table.
- `RetainedIsProcessed` assumes that in the end the subscription stays active and its
  consumer up; the server may go on crashing.

### Bounds, and why they are enough

- Two handlers are all it takes for a race on the mutex, three commits in two streams
  to tell a global from a stream position and to purge in the middle of the log, a
  page of two to cut a backlog off. `Retention = 1` with a clock to 2 lets an event
  be purged that is younger in seq but older in `received_at`.
- Two events and batches of up to two give batches of rows with different attempt
  counts; two attempts give a retry and a dead letter; a backoff of up to two units
  lets a later row overtake; two interventions put an operator on both sides of a
  goroutine's step. One crash and one failing call are put at every point; a
  second adds no new kind of state, because both leave rows that the first also leaves.
  `FewDisturbances` cuts the behaviours in which an intervention, the crash and the failing
  call come all together, and no other: two interventions meet the crash or the failing
  call, and these two each other. The theorems (section 4) have no such limit.
- `cursor_gap` and `early_dead` run without operators, failing calls and crashes, and
  their properties are about runs without operators, so that the counterexample is the
  dispatcher's own: an event in backoff that a later one overtakes, and a new row that
  shares the batch and the attempt number of an old one.
- `Doubling` is capped at its eleventh entry, as `backoff` caps the exponent at 10.
- `starvation` needs `4 * Concurrency` paused subscriptions and an active one after
  them: 5 in all with one place, 17 with the default of four.
- Two edits of one source whose bodies differ in fields are the smallest lost
  update; two requests with one key the smallest duplicate. With no fault and no
  restart `lost_update` shows that two operators suffice.
- Two events give a page that the limit cuts, two acknowledgements one that overtakes,
  two lives one that comes from before a deletion. The delivery mode and the filter of
  the id are chosen by `Init` and kept by each re-creation: a queue of an earlier life
  would be seen under the same filter as well. The patterns are all sequences of one or
  two of "a", "*", "**", four of three segments that put "**" at either end, in the middle
  and twice, with globs, an empty and a malformed one; the types the sequences of one or
  two of "a", "b" and some of three: every branch of the recursion. Multi-valued lists
  are covered by one list of each kind. What this sample leaves out the proof of the
  filters covers, which is about all of them.
- `MaxSeq`, `MaxClock`, `MaxInterventions`, `MaxFaults`, `MaxCrashes`, `MaxEdits`, `MaxLives`
  and `MaxAcks` appear in guards and types only, so the theorems hold for each of their values.

Deadlock is checked in the two runs of the log, where `Crash` and `Rollback` always
offer a way on. The dispatcher, the endpoints and the subscription may stop when
the bounded events, requests and lives are used up, so their runs switch the check off.

### Fairness

- `Progress(h)`: weak. A handler that holds the mutex executes Go code and SQLite
  statements and is scheduled. No fairness of `Rollback` or `Crash`.
- `Lock(h)`: strong. `sync.Mutex` goes into starvation mode after one millisecond and
  hands itself to the waiter.
- `ListEvents(r)` weak, `Receive(r)` strong: the consumer keeps pulling and not every
  response is lost.
- `RecoverInflight`, `StartPass`, `EndPass` and `Deliver(w)`: weak. The loop polls, the
  HTTP client has a timeout, so an endpoint answers or fails. `StoreFails` is not fair.
- `BackoffElapses`: weak. Time passes.
- In `consume`: `ListsRows \/ ListsNothing` strong (the server does not die or fail
  during every SELECT), `Wake \/ Done` and `Deadline` weak (timers fire), `Consumes`
  weak (a consumer that is up is one thread that asks, receives or is refused, and
  processes), `Receive` of an answer with a page strong (not every page is lost). No fairness of operators, of crashes, of
  acknowledgements or of a consumer's start.

`QueueDrains` holds in `dispatch_live` because two subscriptions stay below the limit
of the list of due ones; `starvation` is the same formula above the limit.
`PassEnds` says that a pass ends *if from some point on no further row becomes due*. The
premise is the code's: `deliverSubscription` loops until `LeaseDeliveries` finds nothing
(dispatcher.go:150), so a subscription that gets new events for ever keeps its goroutine
and the pass. What the property covers is that each goroutine ends and gives its place
back on every path; that a busy subscription holds up the others is not excluded, and
no document says it is.

## 4. Proofs

`EventLogProofs` proves, for any sets of handlers, readers and streams, any page limit
and retention, from `NamesAssumption` and `NumbersAssumption`:

- `TypeCorrect`: `Spec => []TypeOK`;
- `CommitOrder`, `StreamGapless`, `NoHoles`, `Deduplicated`, `Durable`: five properties of
  `log_safety`; the sixth, `NothingTwice`, and the refinement are in `EventLogRefinement`.

None of them is inductive. The invariant `Inductive` adds what the code relies on
without saying it: `Mutex` (a handler is in its transaction exactly when it holds
`writeMu`), `LogHoldsEvents` (the retained rows are entries of the log),
`StreamHead` (the counter of a stream is the number of its commits), `Tentative` (while
a handler holds the mutex, the sequences it took are still the next ones, and its key
is still free), `ResponseCovers` (a page on its way covers everything retained up to
its cursor, and no later commit can land below it), `PurgeBehind` (a cutoff that was
applied is older than anything to be stamped). `StreamSeqAtMostHead` and `ReaderBounds`
bound the positions that readers compare.

The three proof modules of the dispatcher prove from `QueueAssumption` and
`DispatchAssumption`, for any numbers of subscriptions, events, goroutines, attempts,
faults, crashes and interventions and for any batch size, everything `dispatch_safety`
checks:

- `DispatcherProofs`: `TypeCorrect`, `Exclusive` (`ExclusiveBatch`), `NoLeaseLost`
  (`InflightIsHeld`), and `BackoffGrows` of the operator `Backoff`: every delay the jitter
  allows lies between one unit and the maximum with a tenth on top, and a later attempt
  waits no less than an earlier one as long as the exponential delay is not beyond the
  maximum. There the jitter may let it shrink, and the theorem says nothing;
- `DispatcherRefinement`: `DeliveryIsAtLeastOnce` (`ImplementsAtLeastOnce`);
- `DispatcherInvariants`: `CursorCorrect` (`CursorIsNewestDelivered`), `AcceptedQueued`
  (`AcceptedIsQueued`), `RetriesWait` (`NoEarlyRetry`) and `BudgetOfTheOldest`
  (`OldestSpentItsBudget`).

The argument, from the bottom up:

1. `TypeOK` is not inductive by itself: a goroutine that is off has subscription 0, and
   `SelectDue` needs one of the table. `Exclusion` adds that a goroutine is off or serves
   a subscription that exists and no longer waits in `due`, that none runs outside a
   pass, and that two running ones serve different subscriptions. `GoroutineMoves` is
   the step all of a goroutine's actions share; `RowStatements` and `FailedRows` say that
   each SQL statement keeps the table's type.
2. `Held` is `InflightIsHeld` unfolded, and is inductive given the types: a lease takes
   only rows of the goroutine that executes it, and whatever ends a batch (`Delivered`,
   `Failed`) leaves none of its rows in-flight. A failed call is the one exception, which
   is why the property excludes it.
3. `PlaceMoves` says for each SQL statement where it takes a row in the eyes of
   `AtLeastOnce`. `BatchOpen` is the fact the mapping needs and no line of the code
   states: the rows of a batch are still queued when the goroutine marks them, unless an
   operator or the purge took them out of the table, and a batch that was answered with
   2xx is in `acked`. It needs `Exclusion`, since another goroutine's mark could
   otherwise close them. With it every step maps to a step of `AtLeastOnce` or a stutter.
4. `CursorInv` states the cursor's property over places; of all steps only
   `MarkDelivered` touches either side (`OthersDeliverNothing`), by `BatchOpen` once more.
5. `AcceptedInv` follows each retained event whose fan-out lost nothing, for each
   subscription that is older: matched, it is queued or has that subscription still to
   do. `IngestRemovesNothing` and `OthersRemoveNothing` say which steps take a row out of
   the table at all: a deletion, after which the subscription is none of those any more,
   and a purge, which takes the event as well.
6. `RowMoves` and `BatchMoves` list, once for all later proofs, which steps move a row and
   which give a goroutine its batch. From them `SelectedIsDue` (what a goroutine has selected
   is still due when it leases it) gives `RetriesWait`.
7. `BatchesNumbered` says where the attempt number of a batch comes from: it is that of its
   first row, before the lease one more than the row has, after it exactly as many. Then
   a row that `MarkFailed` gives up shares its batch with a first row that is spent, and
   dead letters stay (`DeadStays`), which is `BudgetInv`.

Where the code does not keep what a comment says (section 5), theorems state when it does.
`PushBatchSize` is a setting with 1 as its least value, and with `BatchSize = 1`

- `NoneParkedAlone`: `ParkedIsGone` holds, since a batch of one that finds no event is of
  an event that was stored (`KnownRows`) and is gone for good (`OrphansGone`);
- `OwnBudgetAlone`: `DeadSpentItsBudget` holds until an operator intervenes;
- `AttemptsAreBounded`: a row is leased at most `MaxAttempts` times since it was queued or
  requeued, and once more for each crash. `WithinLevel` is the invariant, `Counted` what
  ties a row to the number its goroutine counts with. The bound is tight: TLC finds a
  counterexample without the term for crashes, and one with `BatchSize = 2`.

These hold for every number of subscriptions, events, goroutines, faults and crashes, with
operators and purges at work in the first and the third. So both disagreements come from rows that
share a batch and from nothing else. `OmittedKeptAlone` does the same for `lost_update`:
with one operator and no failed store call, `OmittedFieldsKept` holds, because the row an
upsert read is the row it writes over or has been deleted (`OldIsCurrent`). For
`lost_fanout` the condition is `AcceptedIsQueued` itself.

`EventLogRefinement` proves `OrderedLogIsImplemented`: each step of `EventLog` is a step
of `OrderedLog` or leaves its variables alone. `Commit` is `Extend` (its sequences are
right by `Tentative` and `StreamHead`, its key is free by `Tentative`), `PurgeOlderThan`
is `Trim`, and `Receive` is `Consume`: that nothing retained is left out is
`ResponseCovers`; that the page moves the consumer forward and holds nothing from
elsewhere is `PageAhead`, proved first (`PagesAhead`). The same fact with `ReceivedBehind`
(what a consumer got lies at or before its cursor) gives `NothingIsSentTwice`.

`FilterProofs` proves that the filters do what their documents say, for all patterns and
types, with `path.Match` and `HasPrefix` as arbitrary constants. `SegmentsAsDocumented` is
about the recursion on "**". `MatchTypeSegments` is defined as any function that solves its
equation; `LayoutFills` shows that the table of layouts `Documented` asks about is one, and
`OneSolution` that there is no other: take the lowest row in which two solutions differ
(`Least`, from the well-foundedness of the naturals); the row below it is the same, so
this one is (`SameRowBelow`). That is an induction over the pattern carried out as a least
counterexample, which needs no induction theorem with an operator parameter.
`MatchesAsDocumented` adds the stream, providers, subjects and empty lists, and says both
what the code does with a lone wildcard and that it is the only departure: a filter
without one selects exactly what the documents say, and any other what they say of the
filter `Loosened`.

`SubscriptionsProofs`, from `SizesAssumption` and `SegmentsAssumption` (types and patterns
are sequences of segments; `PatternsAssumption` is not used), for any filters, limits, page
sizes, numbers of events, lives and acknowledgements:

- `TypeCorrect`; `NothingIsSkipped` (`NothingSkipped`) from `Covered`: *every* cursor in
  the system, stored, on its way in an acknowledgement of any life, in a page, or with
  the consumer, lies behind all that is retained and unprocessed, except what its own
  page or batch holds. The property alone is not inductive, since an acknowledgement
  under way becomes the stored cursor later;
- `AckStaysInForce` (`AckedIsKept`) from `InForce`: an acknowledgement that has advanced
  the cursor of the present life is at most that cursor, and none knows a later life;
- `FanOutIsAsDocumented` (`FanOutAsDocumented`) from `Owing`: with `MatchesAsDocumented` the
  match of each event is the documented one (`SelectedIfAddressed`), a fan-out at its
  enqueue is owed its row, one that has not matched is owed none, and purges, deletions
  and re-creations between any two of its steps keep both sides equal.

`IngressProofs`, from `RegistryAssumption`, for any sources, secrets, bodies, requests,
operators, faults and restarts:

- `StagesExplained`: the invariant `IInv` behind the rest, which says per request what it
  saw of the registry (`Watched`: while under way, the row as it is now; once open, the
  row it holds; once verified, a version that lets it in) and what it left (`Left`: what
  is stored at each stage, and what its outcome says of that). `Logged` ties the lines
  of the audit log to requests that are done. `KeyStaysTaken` is why a duplicate stays
  one; `Elsewhere` carries the requests that a step does not touch;
- `TypeCorrect` (which needs that an answered request has an outcome), then
  `AdmissionIsConsistent` (`AdmittedByTheRegistry`), `AuditIsTrue`
  (`AuditTellsTheTruth`), and `EditsSurviveRestarts` (`EditSurvives`), which is inductive
  with the types.

Every invariant, action property and refinement that a passing run checks is thus proved.
Only model-checked are the liveness properties `AppendEnds`, `EventArrives`, `QueueDrains`,
`PassEnds`, `PullIsAnswered` and `RetainedIsProcessed`: fairness speaks of `ENABLED`, which
this prover does not handle.

## 5. Where the code and its documents disagree

Each is a run that TLC ends with a counterexample; `PROJECT.json` quotes the text. For
four of them a theorem says under which condition the text is right (section 4).

- `cursor_gap`: the push cursor passes events that wait for a retry or are dead.
- `early_dead`: a batch has one attempt number, so a new row dies with an old one.
- `parked_retained`: when a purge meets a leased batch, the orphan branch parks the rows
  whose events exist; the purge has removed those of the others with their events. A
  true orphan, left by a fan-out that a purge overtook, takes its batch with it.
- `lost_fanout`: an event whose fan-out was cut short is answered and never pushed.
- `starvation`: paused subscriptions with a backlog can fill the list of due ones.
- `lost_update`: concurrent upserts of a source lose one another's fields.

Others the models follow the code in, and no run is about, since one look at the line
settles them:

- The webhook never asks whether its source is enabled (github.go:63); DESIGN.md:124, in
  the row that names GitHub's signature, has the admin API switch sources on and off.
  `Open` lets the webhook through, and `AdmittedByTheRegistry` asks `enabled` of the
  generic endpoint only: it says that a request is held to *one* version of its row, by
  the rule of its endpoint, and not that a switched-off source is silent. The time
  window of signatures that the same row names is not in the code either
  (verify.go:25-44): in the model a signature has no age.
- The comment at github.go:83-84 lets the webhook fall back to a global secret when the
  row has none; the code has none to fall back to, and `verify.HMACSHA256` refuses an
  empty secret. `Admits` lets nobody in through such a row.
- A lone "*" among the types or the providers of a filter matches everything
  (`matchAny`), against "exactly one segment" in filter.go:6-8 and DESIGN.md:68;
  filter_test.go:35-36 asks for what the code does. A "*" beside other segments is as
  documented. `Documented` follows the texts, `Loosened` is the difference, and
  `MatchesAsDocumented` proves that there is no other.
- The audit record of a request whose ingest failed after the commit says rejected
  (ingest.go:115), and of a rejected request ingress_log.go:29-31 says that nothing was
  persisted. The event is stored and consumers read it.

What the code does in a race, and no text speaks of:

- A subscription deleted, or an event purged, between the match and the enqueue of a
  fan-out (service.go:48-53) leaves a row in the queue that neither the deletion
  (subscriptions.go:121, "and its delivery queue") nor the purge has seen. When the id is
  created again, the row is delivered in its new life; when the event is gone, the row is
  parked by the orphan branch. `FanOutAsDocumented` counts these rows on both sides.
- An acknowledgement let in under an earlier life of an id may advance the cursor of a
  later one (consume.go:185), and the new consumer then starts there. `AckedIsKept` holds
  all the same, and `NothingSkipped` because it counts what any life has processed.
- A subscription with a steady stream of new events keeps its goroutine, and with it the
  pass (dispatcher.go:150; `PassEnds` has the premise that it stops).

## 6. Running it

    tlc -workers 2 -config MCEventLog.cfg MCEventLog
    tlc -workers 2 -config MCDispatcher.cfg MCDispatcher
    tlc -workers 2 -config MCIngress.cfg MCIngress
    tlc -workers 2 -config MCSubscriptions.cfg MCSubscriptions
    tlapm EventLogProofs.tla
    tlapm EventLogRefinement.tla
    tlapm DispatcherProofs.tla
    tlapm DispatcherRefinement.tla
    tlapm DispatcherInvariants.tla
    tlapm FilterProofs.tla
    tlapm SubscriptionsProofs.tla
    tlapm IngressProofs.tla

Each of these ends within a few minutes on two cores.

## 7. Plan

Done, in this order: `OrderedLog`/`EventLog` and its proofs (everything else relies on
the log), `PushQueue`/`Dispatcher`/`AtLeastOnce` (the most concurrent part), `Ingress`,
`Filter`/`Subscriptions` with their proofs, the proofs about `Ingress`, the proof that
`EventLog` implements `OrderedLog`, the proof of the filters, and the theorems that say when
the violated claims hold.

Next, if the code grows towards it:

1. One module of the fan-out with several filters and the dispatcher behind it, to
   compose `Subscriptions` with `Dispatcher`: today they share the tables' operations
   but are checked apart, the first with one id and the second without filters.
2. An `EventLog` with a synced prefix and a power loss, once the repository says what it
   promises then (section 8).
3. The order in which a subscriber gets a backlog after a resume, likewise.
4. Lemmas that the liveness properties rest on and that need no fairness: that a goroutine's
   step always leads on, and that a pass has a measure which each of its steps lowers
   while nothing new comes in.

## 8. Not modelled

- HTTP routing, the admin token, response shapes: stateless per request and decided by
  comparisons a unit test reaches. Of the authorisation of pulls, the part that depends
  on the subscription's row is in `Subscriptions`; the shared keys of the configuration
  are not.
- Identifiers: an id is a timestamp and random bytes, written once and compared for
  equality. Its counter for ids of one millisecond is bumped and then not used
  (idgen.go:37), which no step of the program notices, since events are ordered by seq.
- Metrics: counters nobody in the program reads.
- Configuration: its numbers are the constants of the modules.
- Health endpoints, dashboard, scripts: they only read, or are not part of the program.
- A power loss: `synchronous(NORMAL)` in WAL mode may drop the last commits, after which
  their seqs are given out again (store.go:66). `Crash` is the end of the process, which
  loses no commit. What the log promises after a power loss is written nowhere, so there
  is nothing to check the code against.
- Clients of the pull API other than the one described: one that acknowledges what it
  never got moves its own cursor, and nobody else's.
- SQLite and Go's runtime are taken at their documented word: transactions are atomic
  and isolated, AUTOINCREMENT never reuses a committed value, a mutex excludes.
