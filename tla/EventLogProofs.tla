--------------------------- MODULE EventLogProofs ---------------------------
(***************************************************************************)
(* Proofs about EventLog, for every set of handlers, readers, streams and  *)
(* keys, every page limit, retention and bound.                            *)
(***************************************************************************)
EXTENDS EventLog, FiniteSetTheorems, TLAPS

(* The record of a handler that carries no event is a row like any other.  *)
LEMMA NoEventIsRow == NoEvent \in Row
BY NamesAssumption DEF NoEvent, Row

(* The variables keep their types.                                         *)
THEOREM TypeCorrect == Spec => []TypeOK
<1>1. Init => TypeOK
  BY NoEventIsRow DEF Init, TypeOK, Locations
<1>2. TypeOK /\ [Next]_vars => TypeOK'
  <2> SUFFICES ASSUME TypeOK, [Next]_vars PROVE TypeOK'
    OBVIOUS
  <2> USE DEF TypeOK, dbVars, lockVars, readerVars
  <2>1. ASSUME NEW h \in Handlers, NEW s \in Streams, NEW k \in Keys \cup {NoKey},
               Normalize(h, s, k)
        PROVE  TypeOK'
    BY <2>1 DEF Normalize, Moves, Row, Locations
  <2>2. ASSUME NEW h \in Handlers, Lock(h) PROVE TypeOK'
    BY <2>2 DEF Lock, Moves, Locations, InTx
  <2>3. ASSUME NEW h \in Handlers, Duplicate(h) PROVE TypeOK'
    <3>1. PICK e \in events : answered' = answered \cup {[seq |-> e.seq, key |-> tx[h].key]}
      BY <2>3 DEF Duplicate, SameKey
    <3>2. answered' \subseteq [seq : Nat, key : Keys \cup {NoKey}]
      BY <3>1 DEF Row
    <3> QED
      BY <2>3, <3>2, NoEventIsRow DEF Duplicate, Moves, Unlock, Locations
  <2>4. ASSUME NEW h \in Handlers, Fresh(h) PROVE TypeOK'
    BY <2>4 DEF Fresh, Moves, Locations, InTx
  <2>5. ASSUME NEW h \in Handlers, AssignStreamSeq(h) PROVE TypeOK'
    <3>1. [tx[h] EXCEPT !.streamSeq = NextStreamSeq(tx[h].stream)] \in Row
      <4>1. tx[h] \in Row
        OBVIOUS
      <4>2. NextStreamSeq(tx[h].stream) \in Nat
        BY <4>1 DEF NextStreamSeq, Row
      <4> QED
        BY <4>1, <4>2 DEF Row
    <3>2. tx' = [tx EXCEPT ![h] = [tx[h] EXCEPT !.streamSeq = NextStreamSeq(tx[h].stream)]]
      BY <2>5 DEF AssignStreamSeq
    <3>3. tx' \in [Handlers -> Row]
      BY <3>1, <3>2
    <3> QED
      BY <2>5, <3>3 DEF AssignStreamSeq, Moves, Locations, InTx
  <2>6. ASSUME NEW h \in Handlers, InsertEvent(h) PROVE TypeOK'
    <3>1. [tx[h] EXCEPT !.seq = NextSeq] \in Row
      <4>1. tx[h] \in Row /\ NextSeq \in Nat
        BY DEF NextSeq
      <4> QED
        BY <4>1 DEF Row
    <3>2. tx' = [tx EXCEPT ![h] = [tx[h] EXCEPT !.seq = NextSeq]]
      BY <2>6 DEF InsertEvent
    <3>3. tx' \in [Handlers -> Row]
      BY <3>1, <3>2
    <3> QED
      BY <2>6, <3>3 DEF InsertEvent, Moves, Locations, InTx
  <2>7. ASSUME NEW h \in Handlers, Commit(h) PROVE TypeOK'
    <3>1. tx[h] \in Row
      OBVIOUS
    <3>2. log' \in Seq(Row)
      BY <2>7, <3>1 DEF Commit
    <3>3. /\ streams' \in [Streams -> Nat]
          /\ answered' \subseteq [seq : Nat, key : Keys \cup {NoKey}]
          /\ autoSeq' \in Nat
      BY <2>7, <3>1 DEF Commit, Row
    <3> QED
      BY <2>7, <3>1, <3>2, <3>3, NoEventIsRow DEF Commit, Moves, Unlock, Locations
  <2>8. ASSUME NEW h \in Handlers, Rollback(h) PROVE TypeOK'
    BY <2>8, NoEventIsRow DEF Rollback, Unlock, Locations
  <2>9. ASSUME PurgeOlderThan PROVE TypeOK'
    BY <2>9, NumbersAssumption DEF PurgeOlderThan, CutoffGiven
  <2>10. ASSUME NEW r \in Readers, ListEvents(r) PROVE TypeOK'
    BY <2>10 DEF ListEvents, Beyond, Position, Row, Page
  <2>11. ASSUME NEW r \in Readers, Receive(r) PROVE TypeOK'
    BY <2>11 DEF Receive, Page
  <2>12. ASSUME NEW r \in Readers, LoseResponse(r) PROVE TypeOK'
    BY <2>12 DEF LoseResponse
  <2>13. CASE Tick
    BY <2>13 DEF Tick
  <2>14. CASE Crash
    BY <2>14, NoEventIsRow DEF Crash, Locations
  <2>15. CASE UNCHANGED vars
    BY <2>15 DEF vars
  <2> QED
    BY <2>1, <2>2, <2>3, <2>4, <2>5, <2>6, <2>7, <2>8, <2>9, <2>10, <2>11, <2>12,
       <2>13, <2>14, <2>15 DEF Next, AppendEvent
<1> QED
  BY <1>1, <1>2, PTL DEF Spec
-----------------------------------------------------------------------------
(* The inductive invariant: the safety invariants of EventLog, with what    *)
(* holds between the steps of an append and of a pull.                      *)

\* A handler is inside its transaction exactly while it holds writeMu.
Mutex == \A h \in Handlers : pc[h] \in InTx <=> writeMu = h

\* The table is what is left of the log, and sqlite_sequence its length.
LogHoldsEvents ==
    /\ autoSeq = Len(log)
    /\ \A e \in events : e.seq \in 1..Len(log) /\ log[e.seq] = e

\* last_seq counts the commits of a stream.
StreamHead == \A s \in Streams : streams[s] = Cardinality(Committed(s))

\* Under the mutex, what a transaction read is still true when it commits.
Tentative ==
    \A h \in Handlers :
        /\ pc[h] \in {"fresh", "sequenced", "inserted"} => SameKey(tx[h].key) = {}
        /\ pc[h] \in {"sequenced", "inserted"} => tx[h].streamSeq = NextStreamSeq(tx[h].stream)
        /\ pc[h] = "inserted" => tx[h].seq = NextSeq

\* The position of the newest event a pull of the stream can see.
Newest(stream) == IF stream = All THEN autoSeq ELSE streams[stream]

\* No position is beyond the newest event, and a page on its way covers all
\* that is retained up to its NextCursor.
ResponseCovers ==
    \A r \in Readers :
        LET stream == Subscribed[r] IN
        /\ cursor[r] <= Newest(stream)
        /\ response[r] # None =>
            /\ response[r].next <= Newest(stream)
            /\ \A e \in events :
                   Addressed(stream, e) /\ Position(stream, e) <= response[r].next
                       => e.seq \in received[r] \cup response[r].seqs

\* No purge ever looked further than the retention window allows by now.
PurgeBehind == purged = 0 \/ purged <= clock - Retention

Inductive ==
    /\ Mutex /\ LogHoldsEvents /\ StreamHead /\ Tentative /\ ResponseCovers /\ PurgeBehind
    /\ CommitOrderIsSeqOrder /\ StreamSeqGapless /\ NoHole /\ DedupeUnique
    /\ AnsweredIsStored

(* What a step finds of one reader: numbers, and none beyond the newest.    *)
LEMMA ReaderBounds ==
  ASSUME TypeOK, Inductive, NEW r \in Readers
  PROVE  /\ cursor[r] \in Nat /\ Newest(Subscribed[r]) \in Nat
         /\ cursor[r] <= Newest(Subscribed[r])
         /\ response[r] # None => /\ response[r] \in Page
                                  /\ response[r].next \in Nat
                                  /\ response[r].next <= Newest(Subscribed[r])
<1>1. cursor[r] \in Nat
  BY DEF TypeOK
<1>2. Newest(Subscribed[r]) \in Nat
  BY NamesAssumption DEF TypeOK, Newest
<1>3. cursor[r] <= Newest(Subscribed[r])
  BY DEF Inductive, ResponseCovers
<1>4. response[r] # None => response[r] \in Page
  BY DEF TypeOK
<1>5. response[r] # None => response[r].next \in Nat
  BY <1>4 DEF Page
<1>6. response[r] # None => response[r].next <= Newest(Subscribed[r])
  BY DEF Inductive, ResponseCovers
<1> QED
  BY <1>1, <1>2, <1>3, <1>4, <1>5, <1>6

(* The stream sequence of a committed row is at most last_seq of its stream. *)
LEMMA StreamSeqAtMostHead ==
  ASSUME TypeOK, Inductive, NEW s \in Streams, NEW i \in Committed(s)
  PROVE  log[i].streamSeq <= streams[s]
<1>1. IsFiniteSet(Committed(s))
  BY FS_Interval, FS_Subset, 1 \in Int, Len(log) \in Int DEF Committed, TypeOK
<1>2. {j \in Committed(s) : j <= i} \subseteq Committed(s)
  OBVIOUS
<1>3. Cardinality({j \in Committed(s) : j <= i}) <= Cardinality(Committed(s))
  BY <1>1, <1>2, FS_Subset
<1> QED
  BY <1>3 DEF Inductive, StreamSeqGapless, StreamHead

(* The empty store satisfies the inductive invariant.                       *)
LEMMA InductiveInit == Init => Inductive
<1> SUFFICES ASSUME Init PROVE Inductive
  OBVIOUS
<1>1. Len(log) = 0 /\ \A s : Committed(s) = {}
  BY DEF Init, Committed
<1>2. StreamHead /\ StreamSeqGapless
  BY <1>1, FS_EmptySet DEF Init, StreamHead, StreamSeqGapless
<1>3. ResponseCovers
  BY NamesAssumption DEF Init, ResponseCovers, Newest
<1> QED
  BY <1>1, <1>2, <1>3, NamesAssumption
  DEF Init, Inductive, PurgeBehind, Mutex, LogHoldsEvents, Tentative, CommitOrderIsSeqOrder,
      NoHole, DedupeUnique, AnsweredIsStored, InTx

(* Every step of the store, of a crash and of a consumer preserves it.       *)
LEMMA InductiveStep == TypeOK /\ TypeOK' /\ Inductive /\ [Next]_vars => Inductive'
<1> SUFFICES ASSUME TypeOK, TypeOK', Inductive, [Next]_vars PROVE Inductive'
  OBVIOUS
<1> USE DEF dbVars, lockVars, readerVars
\* A step that leaves the tables, the log and the readers alone.
<1>a. ASSUME UNCHANGED <<dbVars, readerVars, log, purged>>
      PROVE  /\ LogHoldsEvents' /\ StreamHead' /\ ResponseCovers'
             /\ CommitOrderIsSeqOrder' /\ StreamSeqGapless' /\ NoHole' /\ DedupeUnique'
             /\ \A s : NextStreamSeq(s)' = NextStreamSeq(s)
             /\ \A k : SameKey(k)' = SameKey(k)
             /\ NextSeq' = NextSeq
             /\ answered' = answered => AnsweredIsStored'
             /\ clock' = clock => PurgeBehind'
  BY <1>a DEF Inductive, PurgeBehind, LogHoldsEvents, StreamHead, ResponseCovers, CommitOrderIsSeqOrder,
     StreamSeqGapless, NoHole, DedupeUnique, AnsweredIsStored, Committed, Newest, NextStreamSeq,
     SameKey, NextSeq
<1>1. ASSUME NEW h \in Handlers, NEW s \in Streams, NEW k \in Keys \cup {NoKey},
             Normalize(h, s, k)
      PROVE  Inductive'
  <2>1. Mutex'
    BY <1>1 DEF Normalize, Moves, Inductive, Mutex, InTx, TypeOK
  <2>2. Tentative'
    BY <1>1, <1>a DEF Normalize, Moves, Inductive, Tentative, TypeOK
  <2> QED
    BY <1>1, <1>a, <2>1, <2>2 DEF Normalize, Inductive
<1>2. ASSUME NEW h \in Handlers, Lock(h) PROVE Inductive'
  <2>1. Mutex'
    BY <1>2, NamesAssumption DEF Lock, Unlocked, Moves, Inductive, Mutex, InTx, TypeOK
  <2>2. Tentative'
    BY <1>2, <1>a DEF Lock, Moves, Inductive, Tentative, TypeOK
  <2> QED
    BY <1>2, <1>a, <2>1, <2>2 DEF Lock, Inductive
<1>3. ASSUME NEW h \in Handlers, Duplicate(h) PROVE Inductive'
  <2>1. Mutex'
    BY <1>3, NamesAssumption DEF Duplicate, Unlock, Moves, Inductive, Mutex, InTx, TypeOK
  <2>2. Tentative'
    BY <1>3, <1>a DEF Duplicate, Unlock, Moves, Inductive, Tentative, TypeOK
  <2>3. AnsweredIsStored'
    BY <1>3 DEF Duplicate, SameKey, Inductive, AnsweredIsStored, LogHoldsEvents
  <2> QED
    BY <1>3, <1>a, <2>1, <2>2, <2>3 DEF Duplicate, Inductive
<1>4. ASSUME NEW h \in Handlers, Fresh(h) PROVE Inductive'
  <2>1. Mutex'
    BY <1>4 DEF Fresh, Moves, Inductive, Mutex, InTx, TypeOK
  <2>2. Tentative'
    BY <1>4, <1>a DEF Fresh, Moves, Inductive, Tentative, TypeOK
  <2> QED
    BY <1>4, <1>a, <2>1, <2>2 DEF Fresh, Inductive
<1>5. ASSUME NEW h \in Handlers, AssignStreamSeq(h) PROVE Inductive'
  <2>1. Mutex'
    BY <1>5 DEF AssignStreamSeq, Moves, Inductive, Mutex, InTx, TypeOK
  <2>2. Tentative'
    BY <1>5, <1>a DEF AssignStreamSeq, Moves, Inductive, Tentative, TypeOK, Row
  <2> QED
    BY <1>5, <1>a, <2>1, <2>2 DEF AssignStreamSeq, Inductive
<1>6. ASSUME NEW h \in Handlers, InsertEvent(h) PROVE Inductive'
  <2>1. Mutex'
    BY <1>6 DEF InsertEvent, Moves, Inductive, Mutex, InTx, TypeOK
  <2>2. Tentative'
    BY <1>6, <1>a DEF InsertEvent, Moves, Inductive, Tentative, TypeOK, Row
  <2> QED
    BY <1>6, <1>a, <2>1, <2>2 DEF InsertEvent, Inductive
<1>7. ASSUME NEW h \in Handlers, Commit(h) PROVE Inductive'
  <2>0. PICK e \in Row, n \in Nat \ {0} : e = tx[h] /\ n = Len(log) + 1
    BY DEF TypeOK
  <2>1. /\ pc[h] = "inserted" /\ writeMu = h
        /\ n = Len(log) + 1
        /\ e \in Row /\ e.seq = n /\ e.streamSeq = streams[e.stream] + 1
        /\ SameKey(e.key) = {}
        /\ autoSeq = Len(log) /\ Len(log) \in Nat
    BY <1>7, <2>0 DEF Commit, Moves, Inductive, Mutex, InTx, Tentative, NextSeq, NextStreamSeq,
       LogHoldsEvents, TypeOK
  <2>2. /\ events' = events \cup {e} /\ autoSeq' = n
        /\ log' = Append(log, e) /\ Len(log') = n
        /\ log'[n] = e
        /\ \A i \in 1..Len(log) : log'[i] = log[i]
        /\ streams' = [streams EXCEPT ![e.stream] = streams[e.stream] + 1]
        /\ UNCHANGED <<cursor, response, received, purged>>
        /\ answered' = answered \cup {[seq |-> n, key |-> e.key]}
    BY <1>7, <2>0, <2>1 DEF Commit, TypeOK
  <2>3. Mutex'
    BY <1>7, NamesAssumption DEF Commit, Unlock, Moves, Inductive, Mutex, InTx, TypeOK
  <2>4. Tentative'
    <3>1. \A g \in Handlers : pc'[g] \notin InTx
      BY <1>7, <2>1 DEF Commit, Moves, Inductive, Mutex, InTx, TypeOK
    <3> QED
      BY <3>1 DEF Tentative, InTx
  <2>5. LogHoldsEvents' /\ CommitOrderIsSeqOrder'
    BY <2>1, <2>2 DEF Inductive, LogHoldsEvents, CommitOrderIsSeqOrder, TypeOK
  <2>6. DedupeUnique'
    BY <2>1, <2>2 DEF Inductive, DedupeUnique, SameKey
  <2>7. AnsweredIsStored'
    BY <2>1, <2>2 DEF Inductive, AnsweredIsStored, TypeOK
  \* The new row adds one member to its own stream and none to the others.
  <2>8. /\ Committed(e.stream)' = Committed(e.stream) \cup {n}
        /\ n \notin Committed(e.stream)
        /\ \A s \in Streams \ {e.stream} : Committed(s)' = Committed(s)
        /\ \A s \in Streams : Committed(s) \subseteq 1..Len(log) /\ IsFiniteSet(Committed(s))
    <3>1. \A s \in Streams : Committed(s) \subseteq 1..Len(log) /\ IsFiniteSet(Committed(s))
      BY <2>1, FS_Interval, FS_Subset, 1 \in Int, Len(log) \in Int DEF Committed
    <3> QED
      BY <3>1, <2>1, <2>2 DEF Committed
  <2>9. Cardinality(Committed(e.stream)') = Cardinality(Committed(e.stream)) + 1
    <3>1. IsFiniteSet(Committed(e.stream))
      BY <2>8, <2>1 DEF Row
    <3> QED
      BY <3>1, <2>8, FS_AddElement
  <2>10. StreamHead'
    BY <2>1, <2>2, <2>8, <2>9 DEF StreamHead, Inductive, TypeOK, Row
  <2>11. StreamSeqGapless'
    <3> SUFFICES ASSUME NEW s \in Streams, NEW i \in Committed(s)'
                 PROVE  log'[i].streamSeq = Cardinality({j \in Committed(s)' : j <= i})
      BY DEF StreamSeqGapless
    <3>1. CASE i = n
      <4>1. s = e.stream
        BY <3>1, <2>2 DEF Committed
      <4>2. {j \in Committed(s)' : j <= i} = Committed(s)'
        BY <4>1, <3>1, <2>1, <2>8
      <4> QED
        BY <4>1, <4>2, <3>1, <2>1, <2>2, <2>9 DEF Inductive, StreamHead
    <3>2. CASE i # n
      <4>1. i \in Committed(s) /\ i \in 1..Len(log)
        BY <3>2, <2>8
      <4>2. {j \in Committed(s)' : j <= i} = {j \in Committed(s) : j <= i}
        BY <4>1, <2>1, <2>8
      <4> QED
        BY <4>1, <4>2, <2>2 DEF Inductive, StreamSeqGapless
    <3> QED
      BY <3>1, <3>2
  \* The new row is beyond every position a consumer holds or is sent.
  <2>12. \A r \in Readers : Addressed(Subscribed[r], e) =>
             /\ Position(Subscribed[r], e) > cursor[r]
             /\ response[r] # None => Position(Subscribed[r], e) > response[r].next
    <3> SUFFICES ASSUME NEW r \in Readers, Addressed(Subscribed[r], e)
                 PROVE  /\ Position(Subscribed[r], e) > cursor[r]
                        /\ response[r] # None => Position(Subscribed[r], e) > response[r].next
      OBVIOUS
    <3>1. Position(Subscribed[r], e) = Newest(Subscribed[r]) + 1
      BY <2>1 DEF Newest, Addressed, Position
    <3> QED
      BY <3>1, ReaderBounds
  <2>13. NoHole'
    BY <2>1, <2>2, <2>12 DEF Inductive, NoHole, Position, Addressed, TypeOK, Row
  <2>14. \A stream \in Streams \cup {All} : Newest(stream) <= Newest(stream)'
    <3> SUFFICES ASSUME NEW stream \in Streams \cup {All}
                 PROVE  Newest(stream) <= Newest(stream)'
      OBVIOUS
    <3>1. CASE stream = All
      BY <3>1, <2>1, <2>2 DEF Newest
    <3>2. CASE stream # All
      <4>1. stream \in Streams /\ streams[stream] \in Nat /\ streams \in [Streams -> Nat]
        BY <3>2 DEF TypeOK
      <4>2. streams'[stream] = IF stream = e.stream THEN streams[stream] + 1 ELSE streams[stream]
        BY <4>1, <2>2
      <4> QED
        BY <3>2, <4>1, <4>2 DEF Newest
    <3> QED
      BY <3>1, <3>2
  <2>15. ResponseCovers'
    <3> SUFFICES ASSUME NEW r \in Readers
                 PROVE  /\ cursor'[r] <= Newest(Subscribed[r])'
                        /\ response'[r] # None =>
                            /\ response'[r].next <= Newest(Subscribed[r])'
                            /\ \A d \in events' :
                                 Addressed(Subscribed[r], d)
                                   /\ Position(Subscribed[r], d) <= response'[r].next
                                 => d.seq \in received'[r] \cup response'[r].seqs
      BY DEF ResponseCovers, Addressed, Position
    <3>1. Newest(Subscribed[r]) <= Newest(Subscribed[r])'
      BY <2>14, NamesAssumption
    <3>0. Newest(Subscribed[r])' \in Nat
      BY NamesAssumption DEF Newest, TypeOK
    <3>2. cursor'[r] = cursor[r] /\ response'[r] = response[r] /\ received'[r] = received[r]
      BY <2>2
    <3>3. cursor'[r] <= Newest(Subscribed[r])'
      BY <3>0, <3>1, <3>2, ReaderBounds
    <3>4. ASSUME response[r] # None PROVE response[r].next <= Newest(Subscribed[r])'
      BY <3>0, <3>1, <3>4, ReaderBounds
    <3>5. ASSUME response[r] # None, NEW d \in events', Addressed(Subscribed[r], d),
                 Position(Subscribed[r], d) <= response[r].next
          PROVE  d.seq \in received[r] \cup response[r].seqs
      <4>1. Position(Subscribed[r], e) \in Nat /\ response[r].next \in Nat
        BY <2>1, <3>5, ReaderBounds DEF Position, Row
      <4>2. d # e
        BY <4>1, <3>5, <2>12
      <4> QED
        BY <4>2, <3>5, <2>2 DEF Inductive, ResponseCovers
    <3> QED
      BY <3>2, <3>3, <3>4, <3>5
  <2>16. PurgeBehind'
    BY <1>7, <2>2 DEF Commit, Inductive, PurgeBehind
  <2> QED
    BY <2>3, <2>4, <2>5, <2>6, <2>7, <2>10, <2>11, <2>13, <2>15, <2>16 DEF Inductive
<1>8. ASSUME NEW h \in Handlers, Rollback(h) PROVE Inductive'
  <2>1. Mutex'
    BY <1>8, NamesAssumption DEF Rollback, Unlock, Inductive, Mutex, InTx, TypeOK
  <2>2. Tentative'
    BY <1>8, <1>a DEF Rollback, Unlock, Inductive, Tentative, TypeOK
  <2> QED
    BY <1>8, <1>a, <2>1, <2>2 DEF Rollback, Inductive
<1>9. CASE PurgeOlderThan
  <2>0. PICK cutoff \in Nat : cutoff = clock - Retention
    BY <1>9, NumbersAssumption DEF PurgeOlderThan, CutoffGiven, TypeOK
  <2>1. /\ events' = {e \in events : ~ (e.at < cutoff)}
        /\ purged' = cutoff /\ writeMu = None
        /\ UNCHANGED <<streams, autoSeq, lockVars, clock, readerVars, log, answered>>
    <3>1. events' = {e \in events : ~ Expired(e, cutoff)}
      BY <1>9, <2>0 DEF PurgeOlderThan
    <3> QED
      BY <1>9, <2>0, <3>1 DEF PurgeOlderThan, Expired, Unlocked
  <2>2. \A h \in Handlers : pc[h] \notin InTx
    BY <2>1, NamesAssumption DEF Inductive, Mutex
  <2>3. Mutex' /\ Tentative'
    BY <2>1, <2>2 DEF Inductive, Mutex, Tentative, InTx
  <2>4. LogHoldsEvents' /\ StreamHead' /\ CommitOrderIsSeqOrder' /\ StreamSeqGapless'
    BY <2>1 DEF Inductive, LogHoldsEvents, StreamHead, CommitOrderIsSeqOrder,
       StreamSeqGapless, Committed
  <2>5. ResponseCovers' /\ NoHole' /\ DedupeUnique'
    BY <2>1 DEF Inductive, ResponseCovers, Newest, NoHole, DedupeUnique, Addressed, Position
  <2>6. PurgeBehind' /\ purged <= purged'
    BY <2>0, <2>1 DEF Inductive, PurgeBehind, TypeOK
  <2>7. AnsweredIsStored'
    <3> SUFFICES ASSUME NEW a \in answered
                 PROVE  /\ a.seq \in 1..Len(log)
                        /\ log[a.seq].key = a.key
                        /\ log[a.seq] \in events' \/ log[a.seq].at < purged'
      BY <2>1 DEF AnsweredIsStored
    <3>1. a.seq \in 1..Len(log) /\ log[a.seq].key = a.key
      BY DEF Inductive, AnsweredIsStored
    <3>2. log[a.seq].at \in Nat
      <4>1. log[a.seq] \in Row
        BY <3>1 DEF TypeOK
      <4> QED
        BY <4>1 DEF Row
    <3>3. CASE log[a.seq] \in events
      BY <3>1, <3>3, <2>1
    <3>4. CASE log[a.seq].at < purged
      BY <3>1, <3>2, <3>4, <2>6 DEF TypeOK
    <3> QED
      BY <3>1, <3>3, <3>4 DEF Inductive, AnsweredIsStored
  <2> QED
    BY <2>3, <2>4, <2>5, <2>6, <2>7 DEF Inductive
<1>10. ASSUME NEW r \in Readers, ListEvents(r) PROVE Inductive'
  <2>1. PICK p \in SUBSET Beyond(Subscribed[r], cursor[r]),
             last \in Beyond(Subscribed[r], cursor[r]) :
          /\ IsPage(p, Beyond(Subscribed[r], cursor[r]), Subscribed[r], PageLimit)
          /\ last \in p
          /\ response' = [response EXCEPT ![r] =
                [seqs |-> {e.seq : e \in p}, next |-> Position(Subscribed[r], last)]]
    BY <1>10 DEF ListEvents
  <2>2. UNCHANGED <<dbVars, lockVars, clock, cursor, received, log, answered, purged>>
    BY <1>10 DEF ListEvents
  <2>3. /\ Mutex' /\ LogHoldsEvents' /\ StreamHead' /\ Tentative' /\ CommitOrderIsSeqOrder'
        /\ StreamSeqGapless' /\ NoHole' /\ DedupeUnique' /\ AnsweredIsStored' /\ PurgeBehind'
    BY <2>2 DEF Inductive, Mutex, LogHoldsEvents, StreamHead, Tentative, CommitOrderIsSeqOrder,
       StreamSeqGapless, NoHole, DedupeUnique, AnsweredIsStored, PurgeBehind, Committed,
       SameKey, NextStreamSeq, NextSeq
  <2>4. Position(Subscribed[r], last) <= Newest(Subscribed[r])
    <3>1. last \in events /\ Addressed(Subscribed[r], last)
      BY <2>1 DEF Beyond
    <3>2. last.seq \in 1..Len(log) /\ log[last.seq] = last /\ autoSeq = Len(log)
      BY <3>1 DEF Inductive, LogHoldsEvents
    <3>3. CASE Subscribed[r] = All
      BY <3>2, <3>3 DEF Position, Newest
    <3>4. CASE Subscribed[r] # All
      <4>1. Subscribed[r] \in Streams /\ last.seq \in Committed(Subscribed[r])
        BY <3>1, <3>2, <3>4, NamesAssumption DEF Addressed, Committed
      <4>2. log[last.seq].streamSeq <= streams[Subscribed[r]]
        BY <4>1, StreamSeqAtMostHead
      <4> QED
        BY <3>2, <3>4, <4>2 DEF Position, Newest
    <3> QED
      BY <3>3, <3>4
  <2>5. \A e \in events : Addressed(Subscribed[r], e)
            /\ Position(Subscribed[r], e) <= Position(Subscribed[r], last)
          => e.seq \in received[r] \cup {d.seq : d \in p}
    <3> SUFFICES ASSUME NEW e \in events, Addressed(Subscribed[r], e),
                        Position(Subscribed[r], e) <= Position(Subscribed[r], last)
                 PROVE  e.seq \in received[r] \cup {d.seq : d \in p}
      OBVIOUS
    <3>1. Position(Subscribed[r], e) \in Nat /\ cursor[r] \in Nat
      BY ReaderBounds DEF TypeOK, Position, Row
    <3>2. CASE Position(Subscribed[r], e) <= cursor[r]
      BY <3>2 DEF Inductive, NoHole
    <3>3. CASE Position(Subscribed[r], e) > cursor[r]
      BY <3>3, <2>1 DEF Beyond, IsPage
    <3> QED
      BY <3>1, <3>2, <3>3
  <2>6. ResponseCovers'
    <3>1. response'[r] = [seqs |-> {d.seq : d \in p}, next |-> Position(Subscribed[r], last)]
          /\ \A q \in Readers : q # r => response'[q] = response[q]
      BY <2>1 DEF TypeOK
    <3> QED
      BY <3>1, <2>2, <2>4, <2>5 DEF Inductive, ResponseCovers, Newest
  <2> QED
    BY <2>3, <2>6 DEF Inductive
<1>11. ASSUME NEW r \in Readers, Receive(r) PROVE Inductive'
  <2>1. /\ response[r] # None
        /\ received' = [received EXCEPT ![r] = received[r] \cup response[r].seqs]
        /\ cursor' = [cursor EXCEPT ![r] = response[r].next]
        /\ response' = [response EXCEPT ![r] = None]
        /\ UNCHANGED <<dbVars, lockVars, clock, log, answered, purged>>
    BY <1>11 DEF Receive
  <2>2. /\ Mutex' /\ LogHoldsEvents' /\ StreamHead' /\ Tentative' /\ CommitOrderIsSeqOrder'
        /\ StreamSeqGapless' /\ DedupeUnique' /\ AnsweredIsStored' /\ PurgeBehind'
    BY <2>1 DEF Inductive, Mutex, LogHoldsEvents, StreamHead, Tentative, CommitOrderIsSeqOrder,
       StreamSeqGapless, DedupeUnique, AnsweredIsStored, PurgeBehind, Committed,
       SameKey, NextStreamSeq, NextSeq
  <2>3. /\ cursor'[r] = response[r].next /\ response'[r] = None
        /\ received'[r] = received[r] \cup response[r].seqs
        /\ \A q \in Readers : q # r => /\ cursor'[q] = cursor[q] /\ response'[q] = response[q]
                                       /\ received'[q] = received[q]
    BY <2>1 DEF TypeOK
  <2>4. NoHole'
    BY <2>1, <2>3 DEF Inductive, NoHole, ResponseCovers
  <2>5. ResponseCovers'
    BY <2>1, <2>3 DEF Inductive, ResponseCovers, Newest
  <2> QED
    BY <2>2, <2>4, <2>5 DEF Inductive
<1>12. ASSUME NEW r \in Readers, LoseResponse(r) PROVE Inductive'
  <2>1. /\ response' = [response EXCEPT ![r] = None]
        /\ UNCHANGED <<dbVars, lockVars, clock, cursor, received, log, answered, purged>>
    BY <1>12 DEF LoseResponse
  <2>2. /\ Mutex' /\ LogHoldsEvents' /\ StreamHead' /\ Tentative' /\ CommitOrderIsSeqOrder'
        /\ StreamSeqGapless' /\ NoHole' /\ DedupeUnique' /\ AnsweredIsStored' /\ PurgeBehind'
    BY <2>1 DEF Inductive, Mutex, LogHoldsEvents, StreamHead, Tentative, CommitOrderIsSeqOrder,
       StreamSeqGapless, NoHole, DedupeUnique, AnsweredIsStored, PurgeBehind, Committed,
       SameKey, NextStreamSeq, NextSeq
  <2>3. ResponseCovers'
    BY <2>1 DEF Inductive, ResponseCovers, Newest, TypeOK
  <2> QED
    BY <2>2, <2>3 DEF Inductive
<1>13. CASE Tick
  <2>1. Mutex' /\ Tentative'
    BY <1>13, <1>a DEF Tick, Inductive, Mutex, Tentative
  <2>2. PurgeBehind'
    BY <1>13, NumbersAssumption DEF Tick, Inductive, PurgeBehind, TypeOK
  <2> QED
    BY <1>13, <1>a, <2>1, <2>2 DEF Tick, Inductive
<1>14. CASE Crash
  <2>1. Mutex' /\ Tentative'
    BY <1>14, NamesAssumption DEF Crash, Mutex, Tentative, InTx
  <2>2. UNCHANGED <<events, streams, autoSeq, log, answered, purged, clock, cursor, received>>
        /\ \A r \in Readers : response'[r] = None
    BY <1>14 DEF Crash
  <2>3. LogHoldsEvents' /\ StreamHead' /\ CommitOrderIsSeqOrder' /\ StreamSeqGapless'
        /\ NoHole' /\ DedupeUnique' /\ AnsweredIsStored' /\ PurgeBehind'
    BY <2>2 DEF Inductive, LogHoldsEvents, StreamHead, CommitOrderIsSeqOrder, StreamSeqGapless,
       NoHole, DedupeUnique, AnsweredIsStored, PurgeBehind, Committed
  <2>4. ResponseCovers'
    BY <2>2 DEF Inductive, ResponseCovers, Newest
  <2> QED
    BY <2>1, <2>3, <2>4 DEF Inductive
<1>15. CASE UNCHANGED vars
  <2>1. Mutex' /\ Tentative'
    BY <1>15, <1>a DEF vars, Inductive, Mutex, Tentative
  <2> QED
    BY <1>15, <1>a, <2>1 DEF vars, Inductive
<1> QED
  BY <1>1, <1>2, <1>3, <1>4, <1>5, <1>6, <1>7, <1>8, <1>9, <1>10, <1>11, <1>12, <1>13,
     <1>14, <1>15 DEF Next, AppendEvent
(* Inductive holds in every reachable state.                                *)
THEOREM InductiveHolds == Spec => []Inductive
<1>1. Init => Inductive
  BY InductiveInit
<1>2. TypeOK /\ TypeOK' /\ Inductive /\ [Next]_vars => Inductive'
  BY InductiveStep
<1> QED
  BY <1>1, <1>2, TypeCorrect, PTL DEF Spec

(* Global sequences are assigned in commit order and without a gap, through  *)
(* every rollback, crash and purge (the ordering contract of store.go).      *)
THEOREM CommitOrder == Spec => []CommitOrderIsSeqOrder
<1>1. Inductive => CommitOrderIsSeqOrder
  BY DEF Inductive
<1> QED
  BY <1>1, InductiveHolds, PTL

(* The sequence of every stream counts its committed events (AppendEvent).   *)
THEOREM StreamGapless == Spec => []StreamSeqGapless
<1>1. Inductive => StreamSeqGapless
  BY DEF Inductive
<1> QED
  BY <1>1, InductiveHolds, PTL

(* A consumer that feeds NextCursor back never passes a retained event it    *)
(* has not got, for any page limit, number of writers and lost responses.    *)
THEOREM NoHoles == Spec => []NoHole
<1>1. Inductive => NoHole
  BY DEF Inductive
<1> QED
  BY <1>1, InductiveHolds, PTL

(* At most one retained event carries a (provider, dedupe_key).              *)
THEOREM Deduplicated == Spec => []DedupeUnique
<1>1. Inductive => DedupeUnique
  BY DEF Inductive
<1> QED
  BY <1>1, InductiveHolds, PTL

(* What a 2xx answer said is stored stays stored until it is old enough.      *)
THEOREM Durable == Spec => []AnsweredIsStored
<1>1. Inductive => AnsweredIsStored
  BY DEF Inductive
<1> QED
  BY <1>1, InductiveHolds, PTL
=============================================================================
