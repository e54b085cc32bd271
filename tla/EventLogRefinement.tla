------------------------- MODULE EventLogRefinement -------------------------
(***************************************************************************)
(* Proof that the event log implements OrderedLog, for every set of        *)
(* handlers, readers, streams and keys: an append is one step at its       *)
(* commit, a page moves its consumer at its receipt, and all the rest, the *)
(* crash included, changes nothing that producers and consumers can see.   *)
(***************************************************************************)
EXTENDS EventLogProofs

\* A page on its way moves its consumer forward, over its own events only.
PageAhead ==
    \A r \in Readers : response[r] # None =>
        /\ response[r].next > cursor[r]
        /\ \A n \in response[r].seqs :
              /\ n \in 1..Len(log)
              /\ Addressed(Subscribed[r], log[n])
              /\ Position(Subscribed[r], log[n]) \in cursor[r] + 1 .. response[r].next

LEMMA PageAheadInit == Init => PageAhead
BY DEF Init, PageAhead

\* The log only grows, and what is in it stays.
LEMMA LogGrows ==
  ASSUME TypeOK, NEW new \in Row, log' = Append(log, new)
  PROVE  Len(log') = Len(log) + 1 /\ \A n \in 1..Len(log) : log'[n] = log[n]
BY DEF TypeOK

(* A page stays ahead of its consumer until it arrives or is lost.          *)
LEMMA PageAheadStep ==
  ASSUME TypeOK, Inductive, PageAhead, [Next]_vars
  PROVE  PageAhead'
<1> USE DEF dbVars, lockVars, readerVars
<1>1. CASE UNCHANGED <<log, cursor, response>>
  BY <1>1 DEF PageAhead
<1>2. ASSUME NEW h \in Handlers, Commit(h) PROVE PageAhead'
  <2>1. log' = Append(log, tx[h]) /\ tx[h] \in Row /\ UNCHANGED <<cursor, response>>
    BY <1>2 DEF Commit, TypeOK
  <2>2. Len(log') = Len(log) + 1 /\ \A n \in 1..Len(log) : log'[n] = log[n]
    BY <2>1, LogGrows
  <2>3. Len(log) \in Nat
    BY DEF TypeOK
  <2> QED
    BY <2>1, <2>2, <2>3 DEF PageAhead
<1>3. ASSUME NEW r \in Readers, ListEvents(r) PROVE PageAhead'
  <2> DEFINE stream == Subscribed[r]
  <2>1. PICK p \in SUBSET Beyond(stream, cursor[r]), last \in Beyond(stream, cursor[r]) :
            /\ \A e \in p : Position(stream, e) <= Position(stream, last)
            /\ response' = [response EXCEPT ![r] =
                   [seqs |-> {e.seq : e \in p}, next |-> Position(stream, last)]]
    BY <1>3 DEF ListEvents
  <2> DEFINE page == [seqs |-> {e.seq : e \in p}, next |-> Position(stream, last)]
  <2>2. \A e \in Beyond(stream, cursor[r]) :
            /\ e \in events /\ Addressed(stream, e) /\ Position(stream, e) > cursor[r]
            /\ Position(stream, e) \in Nat
    BY DEF Beyond, Position, TypeOK, Row
  <2>3. \A e \in events : e.seq \in 1..Len(log) /\ log[e.seq] = e
    BY DEF Inductive, LogHoldsEvents
  <2>4. cursor[r] \in Nat
    BY DEF TypeOK
  <2>5. page.next > cursor[r] /\ page.next \in Nat
    BY <2>2
  <2>6. ASSUME NEW n \in page.seqs
        PROVE  /\ n \in 1..Len(log) /\ Addressed(stream, log[n])
               /\ Position(stream, log[n]) \in cursor[r] + 1 .. page.next
    <3>1. PICK e \in p : n = e.seq
      OBVIOUS
    <3>2. n \in 1..Len(log) /\ log[n] = e /\ Addressed(stream, e)
      BY <2>2, <2>3, <3>1
    <3>3. Position(stream, e) \in Nat /\ Position(stream, e) > cursor[r]
          /\ Position(stream, e) <= page.next
      BY <2>1, <2>2
    <3> QED
      BY <2>4, <2>5, <3>2, <3>3
  <2>7. response'[r] = page /\ \A q \in Readers : q # r => response'[q] = response[q]
    BY <2>1 DEF TypeOK
  <2> HIDE DEF page
  <2> QED
    BY <1>3, <2>5, <2>6, <2>7 DEF ListEvents, PageAhead
<1>4. ASSUME NEW r \in Readers, Receive(r) \/ LoseResponse(r) PROVE PageAhead'
  <2>1. /\ response'[r] = None /\ log' = log
        /\ \A q \in Readers : q # r => response'[q] = response[q] /\ cursor'[q] = cursor[q]
    BY <1>4 DEF Receive, LoseResponse, TypeOK
  <2> QED
    BY <2>1 DEF PageAhead
<1>5. CASE Crash
  BY <1>5 DEF Crash, PageAhead
<1>6. \/ UNCHANGED <<log, cursor, response>>
      \/ \E h \in Handlers : Commit(h)
      \/ \E r \in Readers : ListEvents(r) \/ Receive(r) \/ LoseResponse(r)
      \/ Crash
  BY DEF Next, AppendEvent, Normalize, Lock, Duplicate, Fresh, AssignStreamSeq, InsertEvent,
         Rollback, PurgeOlderThan, Tick, vars
<1> QED
  BY <1>1, <1>2, <1>3, <1>4, <1>5, <1>6

Retained == {e.seq : e \in events}

\* Names of the promise, in the terms of the log.
LEMMA PromiseNames ==
  ASSUME TypeOK, NEW r \in Readers, NEW n \in 1..Len(log)
  PROVE  /\ n \in Promise!Entries(Subscribed[r]) <=> Addressed(Subscribed[r], log[n])
         /\ CommitOrderIsSeqOrder =>
                Promise!Place(Subscribed[r], n) = Position(Subscribed[r], log[n])
<1>1. DOMAIN log = 1..Len(log)
  BY DEF TypeOK
<1> QED
  BY <1>1 DEF Promise!Entries, Promise!Place, Addressed, Position, CommitOrderIsSeqOrder

\* The promise counts as FiniteSets does.
LEMMA PromiseCounts == \A S : Promise!Cardinality(S) = Cardinality(S)
BY DEF Promise!Cardinality, Cardinality

(* A commit is the append of the promise.                                   *)
LEMMA CommitExtends ==
  ASSUME TypeOK, Inductive, NEW h \in Handlers, Commit(h)
  PROVE  Promise!Extend
<1> DEFINE new == tx[h]
<1>1. /\ log' = Append(log, new) /\ new \in Row /\ events' = events \cup {new}
      /\ UNCHANGED <<cursor, received>> /\ pc[h] = "inserted"
  BY DEF Commit, Moves, TypeOK, readerVars
<1>2. Len(log) \in Nat /\ Len(log') = Len(log) + 1 /\ log'[Len(log')] = new
  BY <1>1 DEF TypeOK
<1>3. /\ SameKey(new.key) = {} /\ new.seq = autoSeq + 1
      /\ new.streamSeq = streams[new.stream] + 1
  BY <1>1 DEF Inductive, Tentative, NextSeq, NextStreamSeq
<1>4. new.seq = Len(log')
  BY <1>2, <1>3 DEF Inductive, LogHoldsEvents
<1>5. new.stream \in Streams /\ All # new.stream
  BY <1>1, NamesAssumption DEF Row
<1>6. new.streamSeq = Cardinality(Promise!Entries(new.stream)) + 1
  <2>1. DOMAIN log = 1..Len(log)
    BY DEF TypeOK
  <2>2. Promise!Entries(new.stream) = Committed(new.stream)
    BY <1>5, <2>1 DEF Promise!Entries, Committed
  <2> QED
    BY <1>3, <1>5, <2>2 DEF Inductive, StreamHead
<1>7. \A n \in Retained : new.key = NoKey \/ log[n].key # new.key
  <2>1. \A e \in events : new.key = NoKey \/ e.key # new.key
    BY <1>3 DEF SameKey
  <2>2. \A e \in events : log[e.seq] = e
    BY DEF Inductive, LogHoldsEvents
  <2> QED
    BY <2>1, <2>2 DEF Retained
<1>8. Retained' = Retained \cup {Len(log')}
  BY <1>1, <1>4 DEF Retained
<1> DEFINE top == log'[Len(log')]
<1>9. /\ log' = Append(log, top) /\ top.seq = Len(log') /\ top.stream \in Streams
      /\ top.streamSeq = Cardinality(Promise!Entries(top.stream)) + 1
      /\ \A n \in Retained : top.key = NoKey \/ log[n].key # top.key
  BY <1>1, <1>2, <1>4, <1>5, <1>6, <1>7
<1> HIDE DEF new, top
<1>10. Len(log') = Len(log) + 1 /\ UNCHANGED <<cursor, received>>
  BY <1>1, <1>2
<1> USE DEF top
<1> QED
  BY <1>8, <1>9, <1>10, PromiseCounts DEF Promise!Extend, Retained

(* The receipt of a page is the consumption of the promise.                 *)
LEMMA ReceiptConsumes ==
  ASSUME TypeOK, Inductive, PageAhead, NEW r \in Readers, Receive(r)
  PROVE  Promise!Consume(r)
<1> DEFINE stream == Subscribed[r]
           passed(n) == /\ n \in Promise!Entries(stream)
                        /\ Promise!Place(stream, n) \in cursor[r] + 1 .. cursor'[r]
<1>1. /\ response[r] # None /\ cursor' = [cursor EXCEPT ![r] = response[r].next]
      /\ received' = [received EXCEPT ![r] = received[r] \cup response[r].seqs]
      /\ UNCHANGED <<log, events>>
  BY DEF Receive, dbVars
<1>2. /\ cursor'[r] = response[r].next /\ received'[r] = received[r] \cup response[r].seqs
      /\ cursor' = [cursor EXCEPT ![r] = cursor'[r]]
      /\ received' = [received EXCEPT ![r] = received'[r]]
  BY <1>1 DEF TypeOK
<1>3. cursor[r] \in Nat /\ cursor'[r] \in Nat /\ cursor'[r] > cursor[r]
  BY <1>1, <1>2, ReaderBounds DEF PageAhead
<1>4. \A n \in 1..Len(log) :
          /\ n \in Promise!Entries(stream) <=> Addressed(stream, log[n])
          /\ Promise!Place(stream, n) = Position(stream, log[n])
  BY PromiseNames DEF Inductive
<1>5. \A n \in received'[r] \ received[r] : passed(n)
  BY <1>1, <1>2, <1>4 DEF PageAhead
<1>6. ASSUME NEW n \in Retained, passed(n) PROVE n \in received'[r]
  <2>1. PICK e \in events : n = e.seq
    BY DEF Retained
  <2>2. n \in 1..Len(log) /\ log[n] = e
    BY <2>1 DEF Inductive, LogHoldsEvents
  <2>3. Addressed(stream, e) /\ Position(stream, e) <= response[r].next
    BY <1>2, <1>3, <1>4, <1>6, <2>2
  <2> QED
    BY <1>1, <1>2, <2>1, <2>3 DEF Inductive, ResponseCovers
<1>7. received[r] \subseteq received'[r] /\ Retained' = Retained
  BY <1>1, <1>2 DEF Retained
<1> QED
  BY <1>1, <1>2, <1>3, <1>5, <1>6, <1>7 DEF Promise!Consume, Retained

LEMMA StepSimulates ==
  ASSUME TypeOK, Inductive, PageAhead, [Next]_vars
  PROVE  [Promise!Next]_(Promise!vars)
<1> USE DEF dbVars, lockVars, readerVars
<1>1. CASE UNCHANGED <<events, log, cursor, received>>
  BY <1>1 DEF Promise!vars
<1>2. CASE \E h \in Handlers : Commit(h)
  BY <1>2, CommitExtends DEF Promise!Next
<1>3. CASE \E r \in Readers : Receive(r)
  BY <1>3, ReceiptConsumes DEF Promise!Next
<1>4. CASE PurgeOlderThan
  <2>1. Retained' \subseteq Retained /\ UNCHANGED <<log, cursor, received>>
    BY <1>4 DEF PurgeOlderThan, Retained
  <2> QED
    BY <2>1 DEF Promise!Next, Promise!Trim, Retained
<1>5. \/ UNCHANGED <<events, log, cursor, received>>
      \/ \E h \in Handlers : Commit(h)
      \/ \E r \in Readers : Receive(r)
      \/ PurgeOlderThan
  BY DEF Next, AppendEvent, Normalize, Lock, Duplicate, Fresh, AssignStreamSeq, InsertEvent,
         Rollback, ListEvents, LoseResponse, Tick, Crash, vars
<1> QED
  BY <1>1, <1>2, <1>3, <1>4, <1>5

LEMMA InitSimulates == Init => Promise!Init
BY DEF Init, Promise!Init

(* Every page on its way lies ahead of its consumer's cursor and holds events
   of that stretch only.                                                    *)
THEOREM PagesAhead == Spec => []PageAhead
<1>1. TypeOK /\ Inductive /\ PageAhead /\ [Next]_vars => PageAhead'
  BY PageAheadStep
<1> QED
  BY <1>1, PageAheadInit, TypeCorrect, InductiveHolds, PTL DEF Spec

(* The store keeps its contract: with handlers interleaved, rollbacks, purges,
   lost pages and crashes, what is visible is one ordered log and consumers
   that move over it without skipping.                                      *)
THEOREM OrderedLogIsImplemented == Spec => ImplementsOrderedLog
<1>1. TypeOK /\ Inductive /\ PageAhead /\ [Next]_vars => [Promise!Next]_(Promise!vars)
  BY StepSimulates
<1> QED
  BY <1>1, PagesAhead, InitSimulates, TypeCorrect, InductiveHolds, PTL
     DEF Spec, ImplementsOrderedLog, Promise!Spec
-----------------------------------------------------------------------------
(* No page repeats what its consumer has already got.                      *)

\* What a consumer got lies at or before its cursor.
ReceivedBehind ==
    \A r \in Readers : \A n \in received[r] :
        n \in 1..Len(log) /\ Position(Subscribed[r], log[n]) <= cursor[r]

\* A cursor never goes back, and a page ends at the cursor it sets.
LEMMA ReceivedBehindStep ==
  ASSUME TypeOK, PageAhead, ReceivedBehind, [Next]_vars
  PROVE  ReceivedBehind'
<1> USE DEF dbVars, lockVars, readerVars
<1>1. CASE UNCHANGED <<log, cursor, received>>
  BY <1>1 DEF ReceivedBehind
<1>2. ASSUME NEW h \in Handlers, Commit(h) PROVE ReceivedBehind'
  <2>1. log' = Append(log, tx[h]) /\ tx[h] \in Row /\ UNCHANGED <<cursor, received>>
    BY <1>2 DEF Commit, TypeOK
  <2>2. Len(log') = Len(log) + 1 /\ \A n \in 1..Len(log) : log'[n] = log[n]
    BY <2>1, LogGrows
  <2>3. Len(log) \in Nat
    BY DEF TypeOK
  <2> QED
    BY <2>1, <2>2, <2>3 DEF ReceivedBehind
<1>3. ASSUME NEW r \in Readers, Receive(r) PROVE ReceivedBehind'
  <2>1. /\ log' = log
        /\ received'[r] = received[r] \cup response[r].seqs /\ cursor'[r] = response[r].next
        /\ \A q \in Readers : q # r => received'[q] = received[q] /\ cursor'[q] = cursor[q]
    BY <1>3 DEF Receive, TypeOK
  <2>2. /\ response[r].next > cursor[r] /\ response[r].next \in Nat /\ cursor[r] \in Nat
        /\ \A n \in response[r].seqs :
              n \in 1..Len(log) /\ Position(Subscribed[r], log[n]) <= response[r].next
    <3>1. response[r] # None /\ response[r] \in Page \cup {None}
      BY <1>3 DEF Receive, TypeOK
    <3>2. response[r].next \in Nat /\ cursor[r] \in Nat
      BY <3>1 DEF Page, TypeOK
    <3>3. /\ response[r].next > cursor[r]
          /\ \A n \in response[r].seqs :
                /\ n \in 1..Len(log)
                /\ Position(Subscribed[r], log[n]) \in cursor[r] + 1 .. response[r].next
      BY <3>1 DEF PageAhead
    <3>4. \A k \in cursor[r] + 1 .. response[r].next : k <= response[r].next
      BY <3>2
    <3> QED
      BY <3>2, <3>3, <3>4
  <2>3. \A n \in 1..Len(log) : Position(Subscribed[r], log[n]) \in Nat
    <3>1. \A n \in 1..Len(log) : log[n] \in Row
      BY DEF TypeOK
    <3> QED
      BY <3>1 DEF Row, Position
  <2>4. ASSUME NEW n \in received'[r]
        PROVE  n \in 1..Len(log) /\ Position(Subscribed[r], log[n]) <= cursor'[r]
    <3>1. CASE n \in response[r].seqs
      BY <2>1, <2>2, <3>1
    <3>2. CASE n \in received[r]
      BY <2>1, <2>2, <2>3, <3>2 DEF ReceivedBehind
    <3> QED
      BY <2>1, <3>1, <3>2
  <2> QED
    BY <2>1, <2>4 DEF ReceivedBehind
<1>4. \/ UNCHANGED <<log, cursor, received>>
      \/ \E h \in Handlers : Commit(h)
      \/ \E r \in Readers : Receive(r)
  BY DEF Next, AppendEvent, Normalize, Lock, Duplicate, Fresh, AssignStreamSeq, InsertEvent,
         Rollback, PurgeOlderThan, ListEvents, LoseResponse, Tick, Crash, vars
<1> QED
  BY <1>1, <1>2, <1>3, <1>4

(* A consumer that resumes at its cursor is never sent an event twice, through
   purges, concurrent commits, lost pages and crashes, on one stream or on all. *)
THEOREM NothingIsSentTwice == Spec => []NothingTwice
<1>1. Init => ReceivedBehind
  BY DEF Init, ReceivedBehind
<1>2. TypeOK /\ PageAhead /\ ReceivedBehind /\ [Next]_vars => ReceivedBehind'
  BY ReceivedBehindStep
<1>3. TypeOK /\ PageAhead /\ ReceivedBehind => NothingTwice
  <2> SUFFICES ASSUME TypeOK, PageAhead, ReceivedBehind, NEW r \in Readers, response[r] # None,
                      NEW n \in response[r].seqs, n \in received[r]
               PROVE  FALSE
    BY DEF NothingTwice
  <2>1. Position(Subscribed[r], log[n]) <= cursor[r]
    BY DEF ReceivedBehind
  <2>2. Position(Subscribed[r], log[n]) \in cursor[r] + 1 .. response[r].next
    BY DEF PageAhead
  <2>3. cursor[r] \in Nat
    BY DEF TypeOK
  <2> QED
    BY <2>1, <2>2, <2>3
<1> QED
  BY <1>1, <1>2, <1>3, TypeCorrect, PagesAhead, PTL DEF Spec
=============================================================================
