------------------------------ MODULE EventLog ------------------------------
(***************************************************************************)
(* The durable event log of internal/store: AppendEvent, PurgeOlderThan    *)
(* and ListEvents, with the write mutex, the transaction and the process   *)
(* crash between any two steps of an append.                               *)
(*                                                                         *)
(* A write transaction keeps its tentative values in the handler's own     *)
(* record tx[h] and makes them visible in one step, Commit: this is what a *)
(* SQLite transaction shows to the other connections of the pool.          *)
(***************************************************************************)
EXTENDS Integers, Sequences, FiniteSets

CONSTANTS
    Handlers,    \* request goroutines that ingest
    Readers,     \* consumers that tail the log with a cursor
    Streams,     \* names of concrete streams
    All,         \* model.StreamAll, the pseudo stream
    Subscribed,  \* Subscribed[r]: the stream reader r pulls, or All
    Keys,        \* (provider, dedupe_key) pairs with a non-empty key
    NoKey,       \* the empty dedupe key
    None,        \* nobody holds writeMu / no response is on its way
    PageLimit,   \* the "limit" of a pull
    Retention,   \* the retention window, in clock units
    MaxClock,    \* bound: the clock stops here
    MaxSeq       \* bound: at most this many events are committed

ASSUME NamesAssumption ==
    /\ Streams # {}
    /\ All \notin Streams
    /\ NoKey \notin Keys
    /\ None \notin Handlers
    /\ Subscribed \in [Readers -> Streams \cup {All}]

ASSUME NumbersAssumption ==
    /\ PageLimit \in Nat \ {0}
    /\ Retention \in Nat \ {0}
    /\ MaxClock \in Nat
    /\ MaxSeq \in Nat

VARIABLES
    events,    \* table events: the retained rows
    streams,   \* table streams: last_seq of every stream
    autoSeq,   \* sqlite_sequence: the highest seq ever committed
    writeMu,   \* the holder of Store.writeMu, or None
    pc,        \* where each handler is in AppendEvent
    tx,        \* the event each handler carries, with its tentative sequences
    clock,     \* time.Now
    cursor,    \* the "after" each reader will ask for next
    response,  \* the page on its way to each reader, or None
    log,       \* history: every committed row, in commit order
    answered,  \* history: what the handlers answered 2xx
    purged,    \* history: the latest retention cutoff applied
    received   \* history: the seqs each reader got

dbVars     == <<events, streams, autoSeq>>
lockVars   == <<writeMu, pc, tx>>
readerVars == <<cursor, response, received>>
vars == <<events, streams, autoSeq, writeMu, pc, tx, clock, cursor, response,
          log, answered, purged, received>>

Row == [seq : Nat, streamSeq : Nat, stream : Streams,
        key : Keys \cup {NoKey}, at : Nat]
Page == [seqs : SUBSET Nat, next : Nat]

InTx == {"locked", "fresh", "sequenced", "inserted"}
Locations == {"idle", "waiting"} \cup InTx

NoEvent == [seq |-> 0, streamSeq |-> 0, stream |-> CHOOSE s \in Streams : TRUE,
            key |-> NoKey, at |-> 0]

Init ==
    /\ events = {}
    /\ streams = [s \in Streams |-> 0]
    /\ autoSeq = 0
    /\ writeMu = None
    /\ pc = [h \in Handlers |-> "idle"]
    /\ tx = [h \in Handlers |-> NoEvent]
    /\ clock = 0
    /\ cursor = [r \in Readers |-> 0]
    /\ response = [r \in Readers |-> None]
    /\ log = <<>>
    /\ answered = {}
    /\ purged = 0
    /\ received = [r \in Readers |-> {}]

-----------------------------------------------------------------------------
(* AppendEvent, one action per point where another goroutine may run.      *)

Moves(h, from, to) ==
    /\ pc[h] = from
    /\ pc' = [pc EXCEPT ![h] = to]

\* Variants of a definition, as a plausible slip would write it, stand right
\* before it: each property is shown to reject one of them.

UnlockForgotten(h) == UNCHANGED writeMu /\ tx' = [tx EXCEPT ![h] = NoEvent]
Unlock(h) == /\ writeMu' = None
             /\ tx' = [tx EXCEPT ![h] = NoEvent]

UnlockedAlways == TRUE
Unlocked == writeMu = None

\* Normalize stamps ReceivedAt before the mutex is taken.
Normalize(h, stream, key) ==
    /\ autoSeq + Cardinality({g \in Handlers : pc[g] # "idle"}) < MaxSeq
    /\ Moves(h, "idle", "waiting")
    /\ tx' = [tx EXCEPT ![h] = [seq |-> 0, streamSeq |-> 0, stream |-> stream,
                                key |-> key, at |-> clock]]
    /\ UNCHANGED <<dbVars, writeMu, clock, readerVars, log, answered, purged>>

Lock(h) ==
    /\ Moves(h, "waiting", "locked")
    /\ Unlocked
    /\ writeMu' = h
    /\ UNCHANGED <<dbVars, tx, clock, readerVars, log, answered, purged>>

SameKey(key) == {e \in events : key # NoKey /\ e.key = key}

\* The dedupe lookup finds a row: it is answered, and nothing is written.
Duplicate(h) ==
    /\ Moves(h, "locked", "idle")
    /\ \E e \in SameKey(tx[h].key) :
           answered' = answered \cup {[seq |-> e.seq, key |-> tx[h].key]}
    /\ Unlock(h)
    /\ UNCHANGED <<dbVars, clock, readerVars, log, purged>>

Fresh(h) ==
    /\ Moves(h, "locked", "fresh")
    /\ SameKey(tx[h].key) = {}
    /\ UNCHANGED <<dbVars, writeMu, tx, clock, readerVars, log, answered, purged>>

NextStreamSeqByCount(s) == Cardinality({e \in events : e.stream = s}) + 1
NextStreamSeq(s) == streams[s] + 1

AssignStreamSeq(h) ==
    /\ Moves(h, "fresh", "sequenced")
    /\ tx' = [tx EXCEPT ![h].streamSeq = NextStreamSeq(tx[h].stream)]
    /\ UNCHANGED <<dbVars, writeMu, clock, readerVars, log, answered, purged>>

\* AUTOINCREMENT counts from the highest seq ever committed, not from the
\* highest one retained.
NextSeqByRowid == 1 + Cardinality({n \in 1..autoSeq : \E e \in events : e.seq >= n})
NextSeq == autoSeq + 1

InsertEventAnswered(h) ==
    /\ Moves(h, "sequenced", "inserted")
    /\ tx' = [tx EXCEPT ![h].seq = NextSeq]
    /\ answered' = answered \cup {[seq |-> NextSeq, key |-> tx[h].key]}
    /\ UNCHANGED <<dbVars, writeMu, clock, readerVars, log, purged>>
InsertEvent(h) ==
    /\ Moves(h, "sequenced", "inserted")
    /\ tx' = [tx EXCEPT ![h].seq = NextSeq]
    /\ UNCHANGED <<dbVars, writeMu, clock, readerVars, log, answered, purged>>

Commit(h) ==
    /\ Moves(h, "inserted", "idle")
    /\ events' = events \cup {tx[h]}
    /\ streams' = [streams EXCEPT ![tx[h].stream] = tx[h].streamSeq]
    /\ autoSeq' = tx[h].seq
    /\ log' = Append(log, tx[h])
    /\ answered' = answered \cup {[seq |-> tx[h].seq, key |-> tx[h].key]}
    /\ Unlock(h)
    /\ UNCHANGED <<clock, readerVars, purged>>

\* A statement fails or the request context is cancelled: the deferred
\* Rollback and Unlock run.
Rollback(h) ==
    /\ pc[h] \in InTx
    /\ pc' = [pc EXCEPT ![h] = "idle"]
    /\ Unlock(h)
    /\ UNCHANGED <<dbVars, clock, readerVars, log, answered, purged>>

AppendEvent(h) ==
    \/ \E s \in Streams, k \in Keys \cup {NoKey} : Normalize(h, s, k)
    \/ Lock(h)
    \/ Duplicate(h)
    \/ Fresh(h)
    \/ AssignStreamSeq(h)
    \/ InsertEvent(h)
    \/ Commit(h)
    \/ Rollback(h)

CutoffGivenAlways(cutoff) == TRUE
CutoffGiven(cutoff) == cutoff > 0

Expired(e, cutoff) == e.at < cutoff

\* PurgeOlderThan holds writeMu for its whole body and shows only its commit.
PurgeOlderThan ==
    LET cutoff == clock - Retention IN
    /\ Unlocked
    /\ CutoffGiven(cutoff)
    /\ events' = {e \in events : ~ Expired(e, cutoff)}
    /\ purged' = cutoff
    /\ UNCHANGED <<streams, autoSeq, lockVars, clock, readerVars, log, answered>>

-----------------------------------------------------------------------------
(* ListEvents and the consumer that feeds NextCursor back as "after".      *)

Addressed(stream, e) == stream = All \/ stream = e.stream
Position(stream, e)  == IF stream = All THEN e.seq ELSE e.streamSeq

BeyondNext(stream, after) ==
    {e \in events : Addressed(stream, e) /\ Position(stream, e) > after + 1}
BeyondOrAt(stream, after) ==
    {e \in events : Addressed(stream, e) /\ Position(stream, e) >= after}
Beyond(stream, after) ==
    {e \in events : Addressed(stream, e) /\ Position(stream, e) > after}

IsPageUnordered(p, rows, stream, limit) ==
    Cardinality(p) = IF Cardinality(rows) < limit THEN Cardinality(rows) ELSE limit

\* p is what ORDER BY position LIMIT limit keeps of rows.
IsPage(p, rows, stream, limit) ==
    /\ \A e \in p, d \in rows : Position(stream, d) <= Position(stream, e) => d \in p
    /\ Cardinality(p) = IF Cardinality(rows) < limit THEN Cardinality(rows) ELSE limit

\* One SELECT, hence one snapshot. An empty page changes nothing and is left out.
ListEvents(r) ==
    LET stream == Subscribed[r]
        rows   == Beyond(stream, cursor[r]) IN
    /\ response[r] = None
    /\ rows # {}
    /\ \E p \in SUBSET rows, last \in rows :
           /\ IsPage(p, rows, stream, PageLimit)
           /\ last \in p
           /\ \A e \in p : Position(stream, e) <= Position(stream, last)
           /\ response' = [response EXCEPT ![r] =
                  [seqs |-> {e.seq : e \in p}, next |-> Position(stream, last)]]
    /\ UNCHANGED <<dbVars, lockVars, clock, cursor, received, log, answered, purged>>

Receive(r) ==
    /\ response[r] # None
    /\ received' = [received EXCEPT ![r] = @ \cup response[r].seqs]
    /\ cursor' = [cursor EXCEPT ![r] = response[r].next]
    /\ response' = [response EXCEPT ![r] = None]
    /\ UNCHANGED <<dbVars, lockVars, clock, log, answered, purged>>

LoseResponseAcknowledged(r) ==
    /\ response[r] # None
    /\ response' = [response EXCEPT ![r] = None]
    /\ cursor' = [cursor EXCEPT ![r] = response[r].next]
    /\ UNCHANGED <<dbVars, lockVars, clock, received, log, answered, purged>>

\* The connection breaks: the consumer asks again from its old cursor.
LoseResponse(r) ==
    /\ response[r] # None
    /\ response' = [response EXCEPT ![r] = None]
    /\ UNCHANGED <<dbVars, lockVars, clock, cursor, received, log, answered, purged>>

-----------------------------------------------------------------------------
Tick ==
    /\ clock < MaxClock
    /\ clock' = clock + 1
    /\ UNCHANGED <<dbVars, lockVars, readerVars, log, answered, purged>>

\* The process dies and restarts: open transactions and responses are gone.
Crash ==
    /\ writeMu' = None
    /\ pc' = [h \in Handlers |-> "idle"]
    /\ tx' = [h \in Handlers |-> NoEvent]
    /\ response' = [r \in Readers |-> None]
    /\ UNCHANGED <<dbVars, clock, cursor, received, log, answered, purged>>

Next ==
    \/ \E h \in Handlers : AppendEvent(h)
    \/ \E r \in Readers : ListEvents(r) \/ Receive(r) \/ LoseResponse(r)
    \/ PurgeOlderThan
    \/ Tick
    \/ Crash

Spec == Init /\ [][Next]_vars

\* A request that holds the mutex runs on, sync.Mutex hands itself to a
\* waiter in the end (starvation mode), and a consumer keeps pulling and is
\* not cut off for ever.
Progress(h) == Duplicate(h) \/ Fresh(h) \/ AssignStreamSeq(h) \/ InsertEvent(h) \/ Commit(h)
Fairness ==
    /\ \A h \in Handlers : WF_vars(Progress(h)) /\ SF_vars(Lock(h))
    /\ \A r \in Readers : WF_vars(ListEvents(r)) /\ SF_vars(Receive(r))

FairSpec == Spec /\ Fairness

-----------------------------------------------------------------------------
(* Properties.                                                             *)

\* The variables have the types the tables and the handlers give them.
TypeOK ==
    /\ events \subseteq Row
    /\ streams \in [Streams -> Nat]
    /\ autoSeq \in Nat
    /\ writeMu \in Handlers \cup {None}
    /\ pc \in [Handlers -> Locations]
    /\ tx \in [Handlers -> Row]
    /\ clock \in Nat
    /\ cursor \in [Readers -> Nat]
    /\ response \in [Readers -> Page \cup {None}]
    /\ log \in Seq(Row)
    /\ answered \subseteq [seq : Nat, key : Keys \cup {NoKey}]
    /\ purged \in Nat
    /\ received \in [Readers -> SUBSET Nat]

\* Events get their global seq in the order in which they commit, without a
\* gap, whatever rolled back or was purged meanwhile (the ordering contract at
\* the head of store.go).
CommitOrderIsSeqOrder == \A i \in 1..Len(log) : log[i].seq = i

Committed(s) == {i \in 1..Len(log) : log[i].stream = s}

\* The stream sequences of one stream count its committed events 1, 2, 3, ...
\* in commit order (AppendEvent: "keeps stream sequencing gapless").
StreamSeqGapless ==
    \A s \in Streams : \A i \in Committed(s) :
        log[i].streamSeq = Cardinality({j \in Committed(s) : j <= i})

\* Whatever is retained at or before a consumer's cursor has reached that
\* consumer: a cursor never jumps over an event that commits later, or that a
\* page limit cut off (store.go: a consumer "can never observe a hole").
NoHole ==
    \A r \in Readers : \A e \in events :
        Addressed(Subscribed[r], e) /\ Position(Subscribed[r], e) <= cursor[r]
            => e.seq \in received[r]

\* A consumer that resumes at its cursor is sent nothing that it has already got,
\* whatever is purged or committed in between (listEvents: position > after).
NothingTwice ==
    \A r \in Readers : response[r] # None => response[r].seqs \cap received[r] = {}

\* Two retained events never share a (provider, dedupe_key).
DedupeUnique ==
    \A d, e \in events : d.key = e.key /\ d.key # NoKey => d = e

\* What a producer was told is stored, with the key it sent, until the
\* retention window passes over it: neither a rollback nor a crash undoes it.
AnsweredIsStored ==
    \A a \in answered :
        /\ a.seq \in 1..Len(log)
        /\ log[a.seq].key = a.key
        /\ log[a.seq] \in events \/ log[a.seq].at < purged

\* Every append comes to an answer: the mutex is always given back.
AppendEnds == \A h \in Handlers : pc[h] = "waiting" ~> pc[h] = "idle"

\* A committed event reaches every consumer of its stream that keeps pulling,
\* unless retention removes it first.
EventArrives ==
    \A r \in Readers, n \in 1..MaxSeq :
        (\E e \in events : e.seq = n /\ Addressed(Subscribed[r], e))
            ~> (n \in received[r] \/ ~ \E e \in events : e.seq = n)

\* The atomic log this component promises: an append is one step, a consumer
\* moves over everything that is retained up to its new position.
Promise == INSTANCE OrderedLog WITH retained <- {e.seq : e \in events}
ImplementsOrderedLog == Promise!Spec
=============================================================================
