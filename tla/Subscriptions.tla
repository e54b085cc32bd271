--------------------------- MODULE Subscriptions ----------------------------
(***************************************************************************)
(* One subscription id over its whole life: what the admin API does to it, *)
(* which events Ingest queues for it, the long poll of its consumer        *)
(* (handlePull) and the acknowledgements (handleAck) that move its cursor. *)
(*                                                                         *)
(* The admin token is configured, so the consumer shows its subscription's *)
(* secret. It pulls the stream "all", processes what it got, acknowledges  *)
(* how far it came and resumes there after a restart.                      *)
(***************************************************************************)
EXTENDS Filter, FiniteSets

CONSTANTS
    Filters,          \* the filters a push subscription may be created with
    Events,           \* what an event may say of its stream, type, ...
    Limits,           \* the "limit" a consumer may ask for
    PullDefaultSize,  \* config PullDefaultSize
    PullMaxSize,      \* config PullMaxSize
    MaxSeq,           \* bound: the events are 1..MaxSeq
    MaxLives,         \* bound: how often the subscription is created
    MaxAcks           \* bound: acknowledgements under way at a time

ASSUME SizesAssumption ==
    /\ Filters # {}
    /\ Limits \subseteq Int
    /\ PullDefaultSize \in Nat \ {0} /\ PullMaxSize \in Nat \ {0}
    /\ MaxSeq \in Nat /\ MaxLives \in Nat /\ MaxAcks \in Nat

\* Types and patterns of types come as strings.Split leaves them.
ASSUME SegmentsAssumption ==
    /\ \A f \in Filters : f.types \subseteq Seq(STRING)
    /\ \A ev \in Events : ev.type \in Seq(STRING)

VARIABLES
    head,       \* the newest seq
    retained,   \* table events
    sub,        \* table subscriptions: the row of this id, or absent
    queue,      \* table deliveries: the seqs queued for this id
    fanout,     \* the requests in Ingest: where the one that carries each event is
    pull,       \* the request in handlePull
    acks,       \* the requests in handleAck
    client,     \* the consumer
    lives,      \* history: how often the subscription was created
    owed,       \* history: the events its documented filters addressed, see Settled
    processed,  \* history: the retained events the consumer processed
    confirmed   \* history: the highest cursor acknowledged with 200 in this life

tables  == <<head, retained, sub, queue>>
history == <<lives, owed, processed, confirmed>>
vars == <<tables, fanout, pull, acks, client, history>>

Seqs == 1..MaxSeq

\* What the admin creates the id with, delivery and filter, it keeps creating it
\* with.
Subscription ==
    [status : {"absent", "active", "paused"}, delivery : {"push", "pull"}, filter : Filters,
     key : 0..MaxLives, cursor : 0..MaxSeq]
Pull == [at : {"none", "listing", "sleeping", "answered"}, wait : BOOLEAN, expired : BOOLEAN,
         limit : Nat, page : SUBSET Seqs, next : 0..MaxSeq]
\* The key counts until the subscription is looked up, life (history) from then on.
Ack == [at : {"sent", "authorized", "advanced"}, cursor : Seqs,
        key : 0..MaxLives, life : 0..MaxLives]
Client == [up : BOOLEAN, key : 0..MaxLives, after : 0..MaxSeq, batch : SUBSET Seqs]

\* handlePull looks at no filter.
Everything == CHOOSE f \in Filters : TRUE

Absent(delivery, filter) ==
    [status |-> "absent", delivery |-> delivery, filter |-> filter, key |-> 0, cursor |-> 0]
NoPull == [at |-> "none", wait |-> FALSE, expired |-> FALSE, limit |-> 0,
           page |-> {}, next |-> 0]
Down == [up |-> FALSE, key |-> 0, after |-> 0, batch |-> {}]

TypeOK ==
    /\ head \in 0..MaxSeq
    /\ retained \subseteq 1..head
    /\ sub \in Subscription
    /\ queue \subseteq 1..head
    /\ fanout \in [Seqs -> {"none", "stored", "matched"}]
    /\ pull \in Pull
    /\ acks \subseteq Ack
    /\ client \in Client
    /\ lives \in 0..MaxLives
    /\ owed \subseteq Seqs
    /\ processed \subseteq Seqs
    /\ confirmed \in 0..MaxSeq

Init ==
    /\ head = 0 /\ retained = {}
    /\ sub \in {Absent("push", f) : f \in Filters} \cup {Absent("pull", Everything)}
    /\ queue = {} /\ fanout = [n \in Seqs |-> "none"]
    /\ pull = NoPull /\ acks = {} /\ client = Down
    /\ lives = 0
    /\ owed = {} /\ processed = {} /\ confirmed = 0

\* Variants of a definition, as a plausible slip would write it, stand right
\* before it: each property is shown to reject one of them.

-----------------------------------------------------------------------------
(* Ingest, the janitor and the admin API.                                  *)

Present == sub.status # "absent"
Push == Present /\ sub.delivery = "push"

\* No fan-out finds an id that is created with pull: those are not followed.
AppendEvent ==
    /\ head < MaxSeq
    /\ head' = head + 1
    /\ retained' = retained \cup {head'}
    /\ fanout' = IF sub.delivery = "push" THEN [fanout EXCEPT ![head'] = "stored"] ELSE fanout
    /\ UNCHANGED <<sub, queue, pull, acks, client, history>>

\* Paused subscriptions are included; the WHERE clause asks for the stream too.
Selected(ev) ==
    /\ Push
    /\ sub.filter.stream \in {ev.stream, All}
    /\ Matches(sub.filter, ev)

\* What the event says is asked here and nowhere else, so it is chosen here.
MatchingSubscriptions(n, ev) ==
    /\ fanout[n] = "stored"
    /\ fanout' = [fanout EXCEPT ![n] = IF Selected(ev) THEN "matched" ELSE "none"]
    /\ owed' = IF Push /\ Documented(Loosened(sub.filter), ev) THEN owed \cup {n} ELSE owed
    /\ UNCHANGED <<tables, pull, acks, client, lives, processed, confirmed>>

\* The row is added, whatever became of the subscription and the event meanwhile.
EnqueueDeliveries(n) ==
    /\ fanout[n] = "matched"
    /\ fanout' = [fanout EXCEPT ![n] = "none"]
    /\ queue' = queue \cup {n}
    /\ UNCHANGED <<head, retained, sub, pull, acks, client, history>>

\* The match or the enqueue fails: a 500, or a line in the log.
IngestFails(n) ==
    /\ fanout[n] \in {"stored", "matched"}
    /\ fanout' = [fanout EXCEPT ![n] = "none"]
    /\ owed' = owed \ {n}
    /\ UNCHANGED <<tables, pull, acks, client, lives, processed, confirmed>>

Ingest ==
    \/ AppendEvent
    \/ \E n \in 1..head :
           \/ \E ev \in Events : MatchingSubscriptions(n, ev)
           \/ EnqueueDeliveries(n)
           \/ IngestFails(n)

\* What is owed and has its row. A deletion and a purge settle it; a row that is on
\* its way they do not see, so that it is still owed when it comes.
Settled == {n \in owed : fanout[n] # "matched"}

PurgeOlderThan(old) ==
    /\ old # {} /\ old \subseteq retained
    /\ retained' = retained \ old
    /\ queue' = queue \ old
    /\ owed' = owed \ (Settled \cap old)
    /\ processed' = processed \ old
    /\ UNCHANGED <<head, sub, fanout, pull, acks, client, lives, confirmed>>

\* The secret is a fresh one, or one the caller gives: that of an earlier life.
CreateSubscription(key) ==
    /\ ~ Present
    /\ lives < MaxLives
    /\ lives' = lives + 1
    /\ key \in 1..lives'
    /\ sub' = [sub EXCEPT !.status = "active", !.key = key]
    /\ UNCHANGED <<head, retained, queue, fanout, pull, acks, client,
                   owed, processed, confirmed>>

DeleteSubscription ==
    /\ Present
    /\ sub' = Absent(sub.delivery, sub.filter)
    /\ queue' = {} /\ owed' = owed \ Settled /\ confirmed' = 0
    /\ UNCHANGED <<head, retained, fanout, pull, acks, client, lives, processed>>

SetSubscriptionStatus(status) ==
    /\ Present /\ sub.status # status
    /\ sub' = [sub EXCEPT !.status = status]
    /\ UNCHANGED <<head, retained, queue, fanout, pull, acks, client, history>>

Admin ==
    \/ \E key \in 1..MaxLives : CreateSubscription(key)
    \/ DeleteSubscription
    \/ \E status \in {"active", "paused"} : SetSubscriptionStatus(status)

-----------------------------------------------------------------------------
(* handlePull.                                                             *)

AuthConsume(key) == sub.status = "active" /\ sub.key = key

PageSizeUnchecked(limit) == IF limit > PullMaxSize THEN PullMaxSize ELSE limit
PageSize(limit) ==
    LET capped == IF limit > PullMaxSize THEN PullMaxSize ELSE limit IN
    IF capped <= 0 THEN PullDefaultSize ELSE capped

Ready == client.up /\ client.batch = {} /\ pull = NoPull

Ask(limit, wait) ==
    /\ Ready
    /\ AuthConsume(client.key)
    /\ pull' = [at |-> "listing", wait |-> wait, expired |-> FALSE, limit |-> PageSize(limit),
                page |-> {}, next |-> client.after]
    /\ UNCHANGED <<tables, fanout, acks, client, history>>

Answered(page, next) == [NoPull EXCEPT !.at = "answered", !.page = page, !.next = next]

Beyond == {n \in retained : n > pull.next}

\* ListEvents has a default of its own.
ListLimit(limit) == IF limit <= 0 THEN 100 ELSE limit

PageOneShort ==
    {n \in Beyond : Cardinality({m \in Beyond : m < n}) + 1 < ListLimit(pull.limit)}
Page == {n \in Beyond : Cardinality({m \in Beyond : m < n}) < ListLimit(pull.limit)}

ListsRows ==
    /\ pull.at = "listing"
    /\ \E newest \in Page :
           /\ \A n \in Page : n <= newest
           /\ pull' = Answered(Page, newest)
    /\ UNCHANGED <<tables, fanout, acks, client, history>>

\* Nothing there: answer at once, or, when there is time left, look again later.
ListsNothing ==
    /\ pull.at = "listing"
    /\ Page = {}
    /\ pull' = IF ~ pull.wait \/ pull.expired THEN Answered({}, pull.next)
               ELSE [pull EXCEPT !.at = "sleeping"]
    /\ UNCHANGED <<tables, fanout, acks, client, history>>

\* A SELECT cut off by the deadline is an empty page, any other error a 500.
ListFails ==
    /\ pull.at = "listing"
    /\ pull' = IF pull.expired THEN Answered({}, pull.next) ELSE NoPull
    /\ UNCHANGED <<tables, fanout, acks, client, history>>

WakeRenewed ==
    /\ pull.at = "sleeping"
    /\ pull' = [pull EXCEPT !.at = "listing", !.expired = FALSE]
    /\ UNCHANGED <<tables, fanout, acks, client, history>>
\* time.After(200ms). When ctx.Done is ready as well, select takes either.
Wake ==
    /\ pull.at = "sleeping"
    /\ pull' = [pull EXCEPT !.at = "listing"]
    /\ UNCHANGED <<tables, fanout, acks, client, history>>

DoneAtHead ==
    /\ pull.at = "sleeping" /\ pull.expired
    /\ pull' = Answered({}, head)
    /\ UNCHANGED <<tables, fanout, acks, client, history>>
Done ==
    /\ pull.at = "sleeping" /\ pull.expired
    /\ pull' = Answered({}, pull.next)
    /\ UNCHANGED <<tables, fanout, acks, client, history>>

Deadline ==
    /\ pull.at \in {"listing", "sleeping"} /\ pull.wait /\ ~ pull.expired
    /\ pull' = [pull EXCEPT !.expired = TRUE]
    /\ UNCHANGED <<tables, fanout, acks, client, history>>

HandlePull == ListsRows \/ ListsNothing \/ ListFails \/ Wake \/ Done \/ Deadline

-----------------------------------------------------------------------------
(* handleAck: three store calls, and other requests between them.          *)

Becomes(a, at, life) ==
    acks' = (acks \ {a}) \cup {[a EXCEPT !.at = at, !.key = 0, !.life = life]}
Ends(a) == acks' = acks \ {a}

LookUp(a) ==
    /\ a.at = "sent"
    /\ Present /\ sub.key = a.key
    /\ Becomes(a, "authorized", lives)
    /\ UNCHANGED <<tables, fanout, pull, client, history>>

AdvanceToAck(cursor) == sub' = IF Present THEN [sub EXCEPT !.cursor = cursor] ELSE sub
\* No row is updated, and no error returned, when the row is gone or ahead.
AdvanceCursor(cursor) ==
    sub' = IF Present /\ sub.cursor < cursor
           THEN [sub EXCEPT !.cursor = cursor] ELSE sub

Advance(a) ==
    /\ a.at = "authorized"
    /\ AdvanceCursor(a.cursor)
    /\ Becomes(a, "advanced", a.life)
    /\ UNCHANGED <<head, retained, queue, fanout, pull, client, history>>

\* The answer shows the row; when the row is gone it is a 404.
Reload(a) ==
    /\ a.at = "advanced"
    /\ Ends(a)
    /\ confirmed' = IF Present /\ a.life = lives /\ confirmed < a.cursor
                    THEN a.cursor ELSE confirmed
    /\ UNCHANGED <<tables, fanout, pull, client, lives, owed, processed>>

\* 401 and 404, a store call that fails, or a request that does not arrive: what
\* was written before stays.
AckFails(a) ==
    /\ Ends(a)
    /\ UNCHANGED <<tables, fanout, pull, client, history>>

HandleAck(a) == LookUp(a) \/ Advance(a) \/ Reload(a) \/ AckFails(a)

-----------------------------------------------------------------------------
(* The consumer, and the connections between it and the server.            *)

\* A consumer starts with the secret and the stored cursor of its subscription.
Start ==
    /\ ~ client.up
    /\ sub.delivery = "pull" /\ sub.status = "active"
    /\ client' = [up |-> TRUE, key |-> sub.key, after |-> sub.cursor, batch |-> {}]
    /\ UNCHANGED <<tables, fanout, pull, acks, history>>

\* Its requests lose their listener; an acknowledgement runs on in the server.
Stops ==
    /\ client' = Down
    /\ pull' = NoPull
    /\ UNCHANGED <<tables, fanout, acks, history>>

Refused == Ready /\ ~ AuthConsume(client.key) /\ Stops
ClientCrash == client.up /\ Stops

Receive ==
    /\ pull.at = "answered"
    /\ client' = [client EXCEPT !.after = pull.next, !.batch = pull.page]
    /\ pull' = NoPull
    /\ UNCHANGED <<tables, fanout, acks, history>>

LoseResponse ==
    /\ pull.at = "answered"
    /\ pull' = NoPull
    /\ UNCHANGED <<tables, fanout, acks, client, history>>

Process ==
    /\ client.batch # {}
    /\ \E n \in client.batch :
           /\ \A m \in client.batch : n <= m
           /\ processed' = processed \cup ({n} \cap retained)
           /\ client' = [client EXCEPT !.batch = @ \ {n}]
    /\ UNCHANGED <<tables, fanout, pull, acks, lives, owed, confirmed>>

\* Everything up to client.after is processed. An answer that does not come is
\* no reason to wait: the next acknowledgement may overtake it.
SendAck ==
    /\ client.up /\ client.batch = {} /\ client.after > 0
    /\ Cardinality(acks) < MaxAcks
    /\ acks' = acks \cup {[at |-> "sent", cursor |-> client.after, key |-> client.key,
                           life |-> 0]}
    /\ UNCHANGED <<tables, fanout, pull, client, history>>

\* The server dies: the requests under way are gone, the tables stay.
ServerCrash ==
    /\ pull' = NoPull /\ acks' = {}
    /\ fanout' = [n \in Seqs |-> "none"] /\ owed' = Settled
    /\ UNCHANGED <<tables, client, lives, processed, confirmed>>

Consumer ==
    \/ Start \/ Refused \/ ClientCrash
    \/ \E limit \in Limits, wait \in BOOLEAN : Ask(limit, wait)
    \/ Receive \/ LoseResponse \/ Process \/ SendAck

Next ==
    \/ Ingest
    \/ \E old \in SUBSET retained : PurgeOlderThan(old)
    \/ Admin
    \/ HandlePull
    \/ \E a \in acks : HandleAck(a)
    \/ Consumer
    \/ ServerCrash

Spec == Init /\ [][Next]_vars

\* Goroutines run on and timers fire. The server does not fail during every
\* SELECT, not every answer with a page is lost, and a consumer that is up, one
\* thread, keeps pulling and processing.
Consumes ==
    \/ Refused \/ Receive \/ Process
    \/ \E limit \in Limits, wait \in BOOLEAN : Ask(limit, wait)

Fairness ==
    /\ SF_vars(ListsRows \/ ListsNothing) /\ WF_vars(Wake \/ Done) /\ WF_vars(Deadline)
    /\ WF_vars(Consumes) /\ SF_vars(pull.page # {} /\ Receive)

FairSpec == Spec /\ Fairness

-----------------------------------------------------------------------------
(* Properties.                                                             *)

\* A consumer's position and the stored cursor never pass an event it did not
\* process and that is still there: neither an empty answer of the long poll,
\* nor a lost response, a crash of either side or an acknowledgement that lands
\* late, in a later session or for a re-created subscription, skips one.
NothingSkipped ==
    \A n \in retained \ processed :
        /\ n <= client.after => n \in client.batch
        /\ sub.cursor < n

\* An acknowledgement answered 200 stays in force for as long as the subscription
\* lives, whatever others arrive afterwards and in whatever order ("a late ack cannot
\* rewind a consumer", AdvanceCursor).
AckedIsKept == Present => confirmed <= sub.cursor

\* The queue of a push subscription holds exactly the events that its filters
\* address as documented (but for a lone wildcard), paused or not, and nothing of an
\* earlier life or older than retention; except that a fan-out which a deletion or
\* a purge overtook between the match and the enqueue leaves its row after it.
FanOutAsDocumented == queue = Settled

\* A pull is answered or its connection ends: the deadline stops a long poll
\* that finds nothing.
PullIsAnswered == (pull.at = "listing") ~> (pull.at \in {"none", "answered"})

Served == sub.status = "active" /\ client.up

\* While the subscription stays active and its consumer up, every event is
\* processed, unless retention removes it first, however often the server
\* restarts meanwhile.
RetainedIsProcessed ==
    <>[]Served => \A n \in Seqs : (n \in retained) ~> (n \in processed \/ n \notin retained)
=============================================================================
