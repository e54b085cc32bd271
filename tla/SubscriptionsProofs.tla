------------------------ MODULE SubscriptionsProofs -------------------------
(* Theorems about Subscriptions, for any filters, events, limits and bounds. *)
EXTENDS Subscriptions, FilterProofs, FiniteSetTheorems, TLAPS

USE SizesAssumption

LEMMA PageSizeNat == ASSUME NEW limit \in Int PROVE PageSize(limit) \in Nat
  BY DEF PageSize

LEMMA Zero == 0 \in 0..MaxLives /\ 0 \in 0..MaxSeq
  OBVIOUS

\* TypeOK.

LEMMA TypeInit == Init => TypeOK
  <1> SUFFICES ASSUME Init PROVE TypeOK
    OBVIOUS
  <1>1. Everything \in Filters
    BY DEF Everything
  <1>2. sub \in Subscription
    BY <1>1 DEF Init, Absent, Subscription
  <1>3. pull \in Pull
    BY DEF Init, NoPull, Pull, Seqs
  <1>4. client \in Client
    BY DEF Init, Down, Client, Seqs
  <1> QED
    BY <1>2, <1>3, <1>4 DEF Init, TypeOK, Seqs

LEMMA NoPullType == NoPull \in Pull
  BY DEF NoPull, Pull, Seqs

LEMMA AnsweredType ==
    ASSUME NEW page \in SUBSET Seqs, NEW next \in 0..MaxSeq PROVE Answered(page, next) \in Pull
  BY DEF Answered, NoPull, Pull

LEMMA TypeStep == TypeOK /\ [Next]_vars => TypeOK'
  <1> SUFFICES ASSUME TypeOK, [Next]_vars PROVE TypeOK'
    OBVIOUS
  <1> USE DEF TypeOK
  <1>1. ASSUME Ingest PROVE TypeOK'
    <2>1. CASE AppendEvent
      <3>1. head + 1 \in 0..MaxSeq /\ head' = head + 1
        BY <2>1 DEF AppendEvent
      <3>2. retained' \subseteq 1..head' /\ queue' \subseteq 1..head'
        BY <2>1, <3>1 DEF AppendEvent
      <3>3. fanout' \in [Seqs -> {"none", "stored", "matched"}]
        BY <2>1 DEF AppendEvent
      <3> QED
        BY <2>1, <3>1, <3>2, <3>3 DEF AppendEvent, history
    <2>2. ASSUME NEW n \in 1..head, NEW ev \in Events, MatchingSubscriptions(n, ev) PROVE TypeOK'
      <3>1. fanout' \in [Seqs -> {"none", "stored", "matched"}]
        BY <2>2 DEF MatchingSubscriptions
      <3>2. owed' \subseteq Seqs
        BY <2>2 DEF MatchingSubscriptions, Seqs
      <3> QED
        BY <2>2, <3>1, <3>2 DEF MatchingSubscriptions, tables
    <2>3. ASSUME NEW n \in 1..head, EnqueueDeliveries(n) PROVE TypeOK'
      BY <2>3 DEF EnqueueDeliveries, history
    <2>4. ASSUME NEW n \in 1..head, IngestFails(n) PROVE TypeOK'
      BY <2>4 DEF IngestFails, tables
    <2> QED
      BY <1>1, <2>1, <2>2, <2>3, <2>4 DEF Ingest
  <1>2. ASSUME NEW old \in SUBSET retained, PurgeOlderThan(old) PROVE TypeOK'
    BY <1>2 DEF PurgeOlderThan
  <1>3. ASSUME NEW key \in 1..MaxLives, CreateSubscription(key) PROVE TypeOK'
    <2>0. key \in 0..MaxLives /\ lives' \in 0..MaxLives
      BY <1>3 DEF CreateSubscription
    <2>1. sub' \in Subscription
      BY <1>3, <2>0 DEF CreateSubscription, Subscription
    <2> QED
      BY <1>3, <2>0, <2>1 DEF CreateSubscription
  <1>4. ASSUME DeleteSubscription PROVE TypeOK'
    <2>1. sub' \in Subscription
      BY <1>4 DEF DeleteSubscription, Subscription, Absent
    <2> QED
      BY <1>4, <2>1 DEF DeleteSubscription
  <1>5. ASSUME NEW status \in {"active", "paused"}, SetSubscriptionStatus(status) PROVE TypeOK'
    <2>1. sub' \in Subscription
      BY <1>5 DEF SetSubscriptionStatus, Subscription
    <2> QED
      BY <1>5, <2>1 DEF SetSubscriptionStatus, tables, history
  <1>6. ASSUME HandlePull PROVE TypeOK'
    <2>1. CASE ListsRows
      <3>1. PICK newest \in Page : pull' = Answered(Page, newest)
        BY <2>1 DEF ListsRows
      <3>0. Page \subseteq retained
        BY DEF Page, Beyond
      <3>2. Page \in SUBSET Seqs /\ newest \in 0..MaxSeq
        BY <3>0, <3>1 DEF Seqs
      <3>3. pull' \in Pull
        BY <3>1, <3>2, AnsweredType
      <3> QED
        BY <2>1, <3>3 DEF ListsRows, tables, history
    <2>2. CASE ListsNothing
      <3>1. pull.next \in 0..MaxSeq
        BY DEF Pull
      <3>2. Answered({}, pull.next) \in Pull
        BY <3>1, AnsweredType
      <3>3. [pull EXCEPT !.at = "sleeping"] \in Pull
        BY DEF Pull
      <3>4. pull' \in Pull
        BY <2>2, <3>2, <3>3 DEF ListsNothing
      <3> QED
        BY <2>2, <3>4 DEF ListsNothing, tables, history
    <2>3. CASE ListFails \/ Done
      <3>1. pull.next \in 0..MaxSeq
        BY DEF Pull
      <3>2. pull' \in Pull
        BY <2>3, <3>1, AnsweredType, NoPullType DEF ListFails, Done
      <3> QED
        BY <2>3, <3>2 DEF ListFails, Done, tables, history
    <2>4. CASE Wake \/ Deadline
      <3>1. pull' \in Pull
        BY <2>4 DEF Wake, Deadline, Pull
      <3> QED
        BY <2>4, <3>1 DEF Wake, Deadline, tables, history
    <2> QED
      BY <1>6, <2>1, <2>2, <2>3, <2>4 DEF HandlePull
  <1>7. ASSUME NEW a \in acks, HandleAck(a) PROVE TypeOK'
    <2>0. a \in Ack /\ lives \in 0..MaxLives
      OBVIOUS
    <2>1. CASE LookUp(a)
      <3>1. [a EXCEPT !.at = "authorized", !.key = 0, !.life = lives] \in Ack
        BY <2>0, Zero DEF Ack
      <3> QED
        BY <2>1, <3>1 DEF LookUp, Becomes, tables, history
    <2>2. CASE Advance(a)
      <3>1. [a EXCEPT !.at = "advanced", !.key = 0, !.life = a.life] \in Ack
        BY <2>0, Zero DEF Ack
      <3>2. a.cursor \in 0..MaxSeq
        BY <2>0 DEF Ack, Seqs
      <3>3. sub' \in Subscription
        BY <2>2, <3>2 DEF Advance, AdvanceCursor, Subscription
      <3> QED
        BY <2>2, <3>1, <3>3 DEF Advance, Becomes, history
    <2>3. CASE Reload(a)
      <3>1. a.cursor \in 0..MaxSeq
        BY DEF Ack, Seqs
      <3> QED
        BY <2>3, <3>1 DEF Reload, Ends, tables
    <2>4. CASE AckFails(a)
      BY <2>4 DEF AckFails, Ends, tables, history
    <2> QED
      BY <1>7, <2>1, <2>2, <2>3, <2>4 DEF HandleAck
  <1>8. ASSUME Start PROVE TypeOK'
    <2>1. client' \in Client
      BY <1>8 DEF Start, Client, Subscription
    <2> QED
      BY <1>8, <2>1 DEF Start, tables, history
  <1>9. ASSUME Refused \/ ClientCrash PROVE TypeOK'
    <2>1. Down \in Client
      BY Zero DEF Down, Client
    <2>2. client' \in Client
      BY <1>9, <2>1 DEF Refused, ClientCrash, Stops
    <2> QED
      BY <1>9, <2>2, NoPullType DEF Refused, ClientCrash, Stops, tables, history
  <1>10. ASSUME NEW limit \in Limits, NEW wait \in BOOLEAN, Ask(limit, wait) PROVE TypeOK'
    <2>1. PageSize(limit) \in Nat
      BY PageSizeNat
    <2>2. client.after \in 0..MaxSeq
      BY DEF Client
    <2>3. pull' \in Pull
      BY <1>10, <2>1, <2>2 DEF Ask, Pull
    <2> QED
      BY <1>10, <2>3 DEF Ask, tables, history
  <1>11. ASSUME Receive PROVE TypeOK'
    <2>1. client' \in Client
      BY <1>11 DEF Receive, Client, Pull
    <2> QED
      BY <1>11, <2>1, NoPullType DEF Receive, tables, history
  <1>12. ASSUME LoseResponse \/ ServerCrash PROVE TypeOK'
    <2>1. Settled \subseteq Seqs
      BY DEF Settled
    <2> QED
      BY <1>12, <2>1, NoPullType DEF LoseResponse, ServerCrash, tables, history
  <1>13. ASSUME Process PROVE TypeOK'
    <2>1. PICK n \in client.batch : /\ processed' = processed \cup ({n} \cap retained)
                                     /\ client' = [client EXCEPT !.batch = @ \ {n}]
      BY <1>13 DEF Process
    <2>2. n \in Seqs /\ client' \in Client
      BY <2>1 DEF Client
    <2> QED
      BY <1>13, <2>1, <2>2 DEF Process, tables
  <1>14. ASSUME SendAck PROVE TypeOK'
    <2>1. client.after \in Seqs /\ client.key \in 0..MaxLives
      BY <1>14 DEF SendAck, Client, Seqs
    <2>2. acks' \subseteq Ack
      BY <1>14, <2>1 DEF SendAck, Ack
    <2> QED
      BY <1>14, <2>2 DEF SendAck, tables, history
  <1>15. CASE UNCHANGED vars
    BY <1>15 DEF vars, tables, history
  <1> QED
    BY <1>1, <1>2, <1>3, <1>4, <1>5, <1>6, <1>7, <1>8, <1>9, <1>10, <1>11, <1>12, <1>13, <1>14, <1>15
    DEF Next, Admin, Consumer

\* Every reachable state of the subscription, the requests of its consumer and
\* the consumer itself is well typed, for any filters, limits and bounds.
THEOREM TypeCorrect == Spec => []TypeOK
  <1> QED
    BY TypeInit, TypeStep, PTL DEF Spec

-----------------------------------------------------------------------------
(* Nothing is skipped: every cursor there is, in a table, in a request or  *)
(* with the consumer, is behind all that is retained and not processed,    *)
(* but for what its page or the consumer's batch holds.                    *)

Open == retained \ processed
Behind(cursor) == cursor <= head /\ \A n \in Open : cursor < n
Holds(cursor, page) == cursor <= head /\ \A n \in Open : n <= cursor => n \in page

Covered ==
    /\ Behind(sub.cursor)
    /\ Holds(client.after, client.batch)
    /\ pull.at # "none" => Holds(pull.next, pull.page)
    /\ pull.at \in {"listing", "sleeping"} => pull.page = {}
    /\ \A a \in acks : Behind(a.cursor)

LEMMA CoveredSkips == Covered => NothingSkipped
  BY DEF Covered, NothingSkipped, Behind, Holds, Open

LEMMA EmptyIsBehind ==
    ASSUME TypeOK, NEW c \in Nat PROVE Holds(c, {}) <=> Behind(c)
  BY DEF TypeOK, Behind, Holds, Open

LEMMA Positions ==
    ASSUME TypeOK
    PROVE  /\ sub.cursor \in Nat /\ client.after \in Nat /\ pull.next \in Nat
           /\ \A a \in acks : a.cursor \in Nat
  BY DEF TypeOK, Subscription, Client, Pull, Ack, Seqs

LEMMA CoveredInit == Init => Covered
  BY DEF Init, Covered, Behind, Holds, Open, Absent, Down, NoPull

\* Most steps leave the events alone, and only move cursors and pages.
LEMMA CoveredIfMoved ==
    ASSUME Covered, Open' \subseteq Open, head' = head,
           Behind(sub'.cursor),
           Holds(client.after, client.batch)',
           pull'.at # "none" => Holds(pull'.next, pull'.page),
           pull'.at \in {"listing", "sleeping"} => pull'.page = {},
           \A a \in acks' : Behind(a.cursor)
    PROVE  Covered'
  <1>1. Behind(sub.cursor)'
    BY DEF Behind
  <1>2. pull'.at # "none" => Holds(pull.next, pull.page)'
    BY DEF Holds
  <1>3. \A a \in acks' : Behind(a.cursor)'
    BY DEF Behind
  <1> QED
    BY <1>1, <1>2, <1>3 DEF Covered

LEMMA CoveredStep == TypeOK /\ TypeOK' /\ Covered /\ [Next]_vars => Covered'
  <1> SUFFICES ASSUME TypeOK, TypeOK', Covered, [Next]_vars PROVE Covered'
    OBVIOUS
  <1>0. /\ Behind(sub.cursor)
        /\ Holds(client.after, client.batch)
        /\ pull.at # "none" => Holds(pull.next, pull.page)
        /\ pull.at \in {"listing", "sleeping"} => pull.page = {}
        /\ \A a \in acks : Behind(a.cursor)
    BY DEF Covered
  \* Whatever leaves events, processed and client alone.
  <1>K. ASSUME UNCHANGED <<head, retained, processed, client>> 
        PROVE  /\ Open' \subseteq Open /\ head' = head
               /\ Holds(client.after, client.batch)'
    BY <1>K, <1>0 DEF Open, Holds
  <1>1. ASSUME AppendEvent PROVE Covered'
    <2>1. head' = head + 1 /\ head \in Nat /\ Open' \subseteq Open \cup {head + 1}
      BY <1>1 DEF AppendEvent, history, Open, TypeOK
    <2>2. \A c \in Nat : Behind(c) => c <= head' /\ \A n \in Open' : c < n
      BY <2>1 DEF Behind
    <2>3. \A c \in Nat : \A page : Holds(c, page) =>
              c <= head' /\ \A n \in Open' : n <= c => n \in page
      BY <2>1 DEF Holds
    <2>4. Behind(sub.cursor)' /\ \A a \in acks' : Behind(a.cursor)'
      BY <1>0, <1>1, <2>2, Positions DEF Behind, AppendEvent
    <2>5. /\ Holds(client.after, client.batch)'
          /\ pull.at # "none" => Holds(pull.next, pull.page)'
      BY <1>0, <1>1, <2>3, Positions DEF Holds, AppendEvent
    <2> QED
      BY <1>0, <1>1, <2>4, <2>5 DEF Covered, AppendEvent
  <1>14. ASSUME NEW n \in 1..head,
                \/ \E ev \in Events : MatchingSubscriptions(n, ev)
                \/ EnqueueDeliveries(n) \/ IngestFails(n)
         PROVE  Covered'
    <2>1. UNCHANGED <<head, retained, processed, client, sub, pull, acks>>
      BY <1>14 DEF MatchingSubscriptions, EnqueueDeliveries, IngestFails, tables, history
    <2> QED
      BY <1>0, <1>K, <2>1, CoveredIfMoved
  <1>2. ASSUME NEW old \in SUBSET retained, PurgeOlderThan(old) PROVE Covered'
    <2>1. Open' \subseteq Open /\ head' = head
      BY <1>2 DEF PurgeOlderThan, Open
    <2>2. Holds(client.after, client.batch)'
      BY <1>0, <1>2, <2>1 DEF PurgeOlderThan, Holds
    <2> QED
      BY <1>0, <1>2, <2>1, <2>2, CoveredIfMoved DEF PurgeOlderThan
  <1>3. ASSUME Admin PROVE Covered'
    <2>1. UNCHANGED <<head, retained, processed, client, pull, acks>>
      BY <1>3 DEF Admin, CreateSubscription, DeleteSubscription, SetSubscriptionStatus, history
    <2>2. sub'.cursor = sub.cursor \/ sub'.cursor = 0
      <3>1. ASSUME NEW key, CreateSubscription(key) PROVE sub'.cursor = sub.cursor
        BY <3>1 DEF CreateSubscription, TypeOK, Subscription
      <3>2. ASSUME DeleteSubscription PROVE sub'.cursor = 0
        BY <3>2 DEF DeleteSubscription, Absent
      <3>3. ASSUME NEW status, SetSubscriptionStatus(status) PROVE sub'.cursor = sub.cursor
        BY <3>3 DEF SetSubscriptionStatus, TypeOK, Subscription
      <3> QED
        BY <1>3, <3>1, <3>2, <3>3 DEF Admin
    <2>3. Behind(0)
      BY DEF Behind, Open, TypeOK
    <2> QED
      BY <1>0, <1>K, <2>1, <2>2, <2>3, CoveredIfMoved
  <1>4. ASSUME HandlePull PROVE Covered'
    <2>1. UNCHANGED <<head, retained, processed, client, sub, acks>>
      BY <1>4 DEF HandlePull, ListsRows, ListsNothing, ListFails, Wake, Done, Deadline,
                  tables, history
    <2>2. pull.at \in {"listing", "sleeping"} => Holds(pull.next, {})
      BY <1>0
    <2>3. ASSUME ListsRows PROVE pull'.at = "answered" /\ Holds(pull'.next, pull'.page)
      <3>1. PICK newest \in Page : /\ \A n \in Page : n <= newest
                                   /\ pull' = Answered(Page, newest)
        BY <2>3 DEF ListsRows
      <3>2. pull'.at = "answered" /\ pull'.next = newest /\ pull'.page = Page
        BY <3>1 DEF Answered, NoPull
      <3>3. Behind(pull.next) /\ pull.next \in Nat
        BY <2>2, <2>3, EmptyIsBehind, Positions DEF ListsRows
      <3>4. newest \in retained /\ newest <= head
        BY DEF Page, Beyond, TypeOK
      <3>5. ASSUME NEW n \in Open, n <= newest PROVE n \in Page
        <4>1. n \in Beyond /\ newest \in Beyond
          BY <3>3, <3>5 DEF Beyond, Open, Behind, Page
        <4>2. Beyond \subseteq 1..head
          BY DEF Beyond, TypeOK
        <4>3. {m \in Beyond : m < n} \subseteq {m \in Beyond : m < newest}
          <5>1. n \in Int /\ newest \in Int /\ \A m \in Beyond : m \in Int
            BY <4>1, <4>2
          <5> QED
            BY <3>5, <5>1
        <4>4. IsFiniteSet({m \in Beyond : m < newest})
          <5>1. IsFiniteSet(1..head)
            BY FS_Interval DEF TypeOK
          <5> QED
            BY <4>2, <5>1, FS_Subset
        <4>5. /\ IsFiniteSet({m \in Beyond : m < n})
              /\ Cardinality({m \in Beyond : m < n}) <= Cardinality({m \in Beyond : m < newest})
          BY <4>3, <4>4, FS_Subset
        <4>6. Cardinality({m \in Beyond : m < newest}) < ListLimit(pull.limit)
          BY DEF Page
        <4>7. /\ Cardinality({m \in Beyond : m < n}) \in Nat
              /\ Cardinality({m \in Beyond : m < newest}) \in Nat
          BY <4>4, <4>5, FS_CardinalityType
        <4>8. ListLimit(pull.limit) \in Nat
          BY DEF TypeOK, Pull, ListLimit
        <4> QED
          BY <4>1, <4>5, <4>6, <4>7, <4>8 DEF Page
      <3> QED
        BY <3>2, <3>4, <3>5 DEF Holds
    <2>4. ASSUME ListsNothing \/ ListFails \/ Done
          PROVE  /\ pull'.at # "none" => Holds(pull'.next, pull'.page)
                 /\ pull'.at \in {"listing", "sleeping"} => pull'.page = {}
      <3>1. \/ pull'.at = "none"
            \/ pull' = Answered({}, pull.next)
            \/ pull' = [pull EXCEPT !.at = "sleeping"]
        BY <2>4 DEF ListsNothing, ListFails, Done, NoPull
      <3>2. Answered({}, pull.next).at = "answered" /\ Answered({}, pull.next).next = pull.next
            /\ Answered({}, pull.next).page = {}
        BY DEF Answered, NoPull
      <3>3. Holds(pull.next, {}) /\ pull.page = {}
        BY <1>0, <2>2, <2>4 DEF ListsNothing, ListFails, Done
      <3>4. CASE pull' = [pull EXCEPT !.at = "sleeping"]
        <4>1. pull'.next = pull.next /\ pull'.page = pull.page
          BY <3>4 DEF TypeOK, Pull
        <4> QED
          BY <3>3, <4>1
      <3> QED
        BY <3>1, <3>2, <3>3, <3>4
    <2>5. ASSUME Wake \/ Deadline
          PROVE  /\ pull'.at # "none" => Holds(pull'.next, pull'.page)
                 /\ pull'.at \in {"listing", "sleeping"} => pull'.page = {}
      BY <1>0, <2>5 DEF Wake, Deadline, TypeOK, Pull
    <2>6. /\ pull'.at # "none" => Holds(pull'.next, pull'.page)
          /\ pull'.at \in {"listing", "sleeping"} => pull'.page = {}
      BY <1>4, <2>3, <2>4, <2>5 DEF HandlePull
    <2> QED
      BY <1>0, <1>K, <2>1, <2>6, CoveredIfMoved
  <1>5. ASSUME NEW a \in acks, HandleAck(a) PROVE Covered'
    <2>1. UNCHANGED <<head, retained, processed, client, pull>>
      <3>1. CASE LookUp(a) \/ AckFails(a)
        BY <3>1 DEF LookUp, AckFails, tables, history
      <3>2. CASE Advance(a)
        BY <3>2 DEF Advance, history
      <3>3. CASE Reload(a)
        BY <3>3 DEF Reload, tables
      <3> QED
        BY <1>5, <3>1, <3>2, <3>3 DEF HandleAck
    <2>2. \A b \in acks' : Behind(b.cursor)
      <3>1. ASSUME NEW at, NEW life, Becomes(a, at, life)
            PROVE  \A b \in acks' : b \in acks \/ b.cursor = a.cursor
        BY <3>1 DEF Becomes, TypeOK, Ack
      <3>2. ASSUME Ends(a) PROVE \A b \in acks' : b \in acks
        BY <3>2 DEF Ends
      <3>3. \A b \in acks' : b \in acks \/ b.cursor = a.cursor
        BY <1>5, <3>1, <3>2 DEF HandleAck, LookUp, Advance, Reload, AckFails
      <3> QED
        BY <1>0, <3>3
    <2>3. sub'.cursor \in {sub.cursor, a.cursor}
      BY <1>5 DEF HandleAck, LookUp, Advance, Reload, AckFails, AdvanceCursor, tables,
                  TypeOK, Subscription
    <2>4. Behind(sub'.cursor)
      BY <1>0, <2>3
    <2> QED
      BY <1>0, <1>K, <2>1, <2>2, <2>4, CoveredIfMoved
  <1>6. ASSUME Start PROVE Covered'
    <2>1. UNCHANGED <<head, retained, processed, sub, pull, acks>>
      BY <1>6 DEF Start, tables, history
    <2>2. Open' = Open
      BY <2>1 DEF Open
    <2>3. client'.after = sub.cursor /\ client'.batch = {}
      BY <1>6 DEF Start
    <2>4. Holds(client.after, client.batch)'
      BY <1>0, <2>1, <2>2, <2>3, EmptyIsBehind, Positions DEF Holds
    <2> QED
      BY <1>0, <2>1, <2>2, <2>4, CoveredIfMoved
  <1>7. ASSUME Refused \/ ClientCrash PROVE Covered'
    <2>1. UNCHANGED <<head, retained, processed, sub, acks>>
      <3>1. Stops
        BY <1>7 DEF Refused, ClientCrash
      <3> QED
        BY <3>1 DEF Stops, tables, history
    <2>2. Open' = Open
      BY <2>1 DEF Open
    <2>3. client'.after = 0 /\ client'.batch = {} /\ pull'.at = "none"
      BY <1>7 DEF Refused, ClientCrash, Stops, Down, NoPull
    <2>4. Holds(client.after, client.batch)'
      <3>1. 0 <= head /\ \A n \in Open : ~ (n <= 0)
        BY DEF Open, TypeOK
      <3> QED
        BY <2>1, <2>2, <2>3, <3>1 DEF Holds
    <2> QED
      BY <1>0, <2>1, <2>2, <2>3, <2>4, CoveredIfMoved
  <1>8. ASSUME NEW limit \in Limits, NEW wait \in BOOLEAN, Ask(limit, wait) PROVE Covered'
    <2>1. UNCHANGED <<head, retained, processed, client, sub, acks>>
      BY <1>8 DEF Ask, tables, history
    <2>2. Holds(pull'.next, pull'.page) /\ pull'.page = {}
      BY <1>0, <1>8 DEF Ask, Ready
    <2> QED
      BY <1>0, <1>K, <2>1, <2>2, CoveredIfMoved
  <1>9. ASSUME Receive PROVE Covered'
    <2>1. UNCHANGED <<head, retained, processed, sub, acks>>
      BY <1>9 DEF Receive, tables, history
    <2>2. Open' = Open
      BY <2>1 DEF Open
    <2>3. client'.after = pull.next /\ client'.batch = pull.page /\ pull'.at = "none"
      BY <1>9 DEF Receive, NoPull, TypeOK, Client
    <2>4. Holds(client.after, client.batch)'
      BY <1>0, <1>9, <2>1, <2>2, <2>3 DEF Holds, Receive
    <2> QED
      BY <1>0, <2>1, <2>2, <2>3, <2>4, CoveredIfMoved
  <1>10. ASSUME LoseResponse \/ ServerCrash PROVE Covered'
    <2>1. UNCHANGED <<head, retained, processed, client, sub>>
      BY <1>10 DEF LoseResponse, ServerCrash, tables, history
    <2>2. pull'.at = "none" /\ acks' \subseteq acks
      BY <1>10 DEF LoseResponse, ServerCrash, NoPull
    <2> QED
      BY <1>0, <1>K, <2>1, <2>2, CoveredIfMoved
  <1>11. ASSUME Process PROVE Covered'
    <2>1. PICK n \in client.batch : /\ processed' = processed \cup ({n} \cap retained)
                                    /\ client' = [client EXCEPT !.batch = @ \ {n}]
      BY <1>11 DEF Process
    <2>2. UNCHANGED <<head, retained, sub, pull, acks>>
      BY <1>11 DEF Process, tables
    <2>3. Open' = Open \ {n}
      BY <2>1, <2>2 DEF Open
    <2>4. client'.after = client.after /\ client'.batch = client.batch \ {n}
      BY <2>1 DEF TypeOK, Client
    <2>5. Holds(client.after, client.batch)'
      BY <1>0, <2>2, <2>3, <2>4 DEF Holds
    <2> QED
      BY <1>0, <2>2, <2>3, <2>5, CoveredIfMoved
  <1>12. ASSUME SendAck PROVE Covered'
    <2>1. UNCHANGED <<head, retained, processed, client, sub, pull>>
      BY <1>12 DEF SendAck, tables, history
    <2>2. Behind(client.after)
      BY <1>0, <1>12, EmptyIsBehind, Positions DEF SendAck
    <2>3. \A a \in acks' : Behind(a.cursor)
      BY <1>0, <1>12, <2>2 DEF SendAck
    <2> QED
      BY <1>0, <1>K, <2>1, <2>3, CoveredIfMoved
  <1>13. CASE UNCHANGED vars
    BY <1>0, <1>K, <1>13, CoveredIfMoved DEF vars, tables, history
  <1> QED
    BY <1>1, <1>2, <1>3, <1>4, <1>5, <1>6, <1>7, <1>8, <1>9, <1>10, <1>11, <1>12, <1>13, <1>14
    DEF Next, Ingest, Consumer

LEMMA CoveredHolds == Spec => []Covered
  <1>1. TypeOK /\ Covered /\ TypeOK' /\ [Next]_vars => Covered'
    BY CoveredStep
  <1> QED
    BY CoveredInit, TypeCorrect, <1>1, PTL DEF Spec

\* No position of a consumer and no stored cursor passes a retained event that
\* was not processed, whatever is lost, crashes, arrives late or is created again.
THEOREM NothingIsSkipped == Spec => []NothingSkipped
  <1> QED
    BY CoveredHolds, CoveredSkips, PTL
-----------------------------------------------------------------------------
(* An acknowledgement answered 200 stays in force. What is on its way knows *)
(* the life it was let in for, and no later one.                            *)

InForce ==
    /\ AckedIsKept
    /\ ~ Present => confirmed = 0
    /\ \A a \in acks :
           /\ a.life <= lives
           /\ a.at = "advanced" /\ a.life = lives /\ Present => a.cursor <= sub.cursor

LEMMA InForceInit == Init => InForce
  BY DEF Init, InForce, AckedIsKept, Present, Absent

LEMMA InForceStep == TypeOK /\ TypeOK' /\ InForce /\ [Next]_vars => InForce'
  <1> SUFFICES ASSUME TypeOK, TypeOK', InForce, [Next]_vars PROVE InForce'
    OBVIOUS
  <1>0. /\ confirmed \in Nat /\ lives \in Nat /\ sub.cursor \in Nat
        /\ \A a \in acks : a \in Ack /\ a.cursor \in Nat /\ a.life \in Nat
    BY DEF TypeOK, Subscription, Ack, Seqs
  <1>1. ASSUME UNCHANGED <<sub, lives, confirmed>>, acks' \subseteq acks PROVE InForce'
    BY <1>1 DEF InForce, AckedIsKept, Present
  <1>2. ASSUME \/ Ingest
               \/ \E old \in SUBSET retained : PurgeOlderThan(old)
               \/ HandlePull \/ Start \/ Refused \/ ClientCrash
               \/ \E limit \in Limits, wait \in BOOLEAN : Ask(limit, wait)
               \/ Receive \/ LoseResponse \/ Process \/ ServerCrash
               \/ UNCHANGED vars
        PROVE InForce'
    <2>1. UNCHANGED <<sub, lives, confirmed>> /\ acks' \subseteq acks
      BY <1>2 DEF Ingest, AppendEvent, MatchingSubscriptions, EnqueueDeliveries, IngestFails,
                  PurgeOlderThan, HandlePull, ListsRows, ListsNothing, ListFails, Wake,
                  Done, Deadline, Start, Refused, ClientCrash, Stops, Ask, Receive, LoseResponse,
                  Process, ServerCrash, tables, history, vars
    <2> QED
      BY <1>1, <2>1
  <1>3. ASSUME NEW key \in 1..MaxLives, CreateSubscription(key) PROVE InForce'
    <2>1. confirmed' = 0 /\ lives' = lives + 1 /\ acks' = acks
      BY <1>3 DEF CreateSubscription, InForce
    <2>2. sub'.cursor \in Nat
      BY DEF TypeOK, Subscription
    <2>3. \A a \in acks' : a.life < lives'
      BY <1>0, <2>1 DEF InForce
    <2>4. lives' \in Nat
      BY <1>0, <2>1
    <2> QED
      BY <1>0, <2>1, <2>2, <2>3, <2>4 DEF InForce, AckedIsKept
  <1>4. ASSUME DeleteSubscription PROVE InForce'
    BY <1>4 DEF DeleteSubscription, InForce, AckedIsKept, Present, Absent
  <1>5. ASSUME NEW status \in {"active", "paused"}, SetSubscriptionStatus(status) PROVE InForce'
    <2>1. sub'.cursor = sub.cursor /\ Present
      BY <1>5 DEF SetSubscriptionStatus, TypeOK, Subscription
    <2>2. UNCHANGED <<lives, confirmed, acks>>
      BY <1>5 DEF SetSubscriptionStatus, history
    <2>3. Present'
      BY <1>5 DEF SetSubscriptionStatus, Present, TypeOK, Subscription
    <2> QED
      BY <2>1, <2>2, <2>3 DEF InForce, AckedIsKept
  <1>6. ASSUME NEW a \in acks, LookUp(a) PROVE InForce'
    <2>1. UNCHANGED <<sub, lives, confirmed>>
      BY <1>6 DEF LookUp, tables, history
    <2>2. \A b \in acks' : b \in acks \/ (b.at = "authorized" /\ b.life = lives)
      <3> DEFINE c == [a EXCEPT !.at = "authorized", !.key = 0, !.life = lives]
      <3>2. c.at = "authorized" /\ c.life = lives
        BY <1>0 DEF Ack
      <3>3. acks' = (acks \ {a}) \cup {c}
        BY <1>6 DEF LookUp, Becomes
      <3> HIDE DEF c
      <3> QED
        BY <3>2, <3>3
    <2> QED
      BY <1>0, <2>1, <2>2 DEF InForce, AckedIsKept, Present
  <1>7. ASSUME NEW a \in acks, Advance(a) PROVE InForce'
    <2>1. UNCHANGED <<lives, confirmed>>
      BY <1>7 DEF Advance, history
    <2>2. /\ sub'.cursor \in Nat /\ sub.cursor <= sub'.cursor
          /\ Present => a.cursor <= sub'.cursor
          /\ Present' = Present
      <3>1. CASE Present /\ sub.cursor < a.cursor
        BY <1>0, <1>7, <3>1 DEF Advance, AdvanceCursor, Present, TypeOK, Subscription
      <3>2. CASE ~ (Present /\ sub.cursor < a.cursor)
        BY <1>0, <1>7, <3>2 DEF Advance, AdvanceCursor, Present
      <3> QED
        BY <3>1, <3>2
    <2>3. \A b \in acks' : b \in acks \/ (b.cursor = a.cursor /\ b.life = a.life)
      <3> DEFINE c == [a EXCEPT !.at = "advanced", !.key = 0, !.life = a.life]
      <3>2. c.cursor = a.cursor /\ c.life = a.life
        BY <1>0 DEF Ack
      <3>3. acks' = (acks \ {a}) \cup {c}
        BY <1>7 DEF Advance, Becomes
      <3> HIDE DEF c
      <3> QED
        BY <3>2, <3>3
    <2> QED
      BY <1>0, <2>1, <2>2, <2>3 DEF InForce, AckedIsKept
  <1>8. ASSUME NEW a \in acks, Reload(a) PROVE InForce'
    <2>1. UNCHANGED <<sub, lives>> /\ acks' \subseteq acks
      BY <1>8 DEF Reload, Ends, tables
    <2>2. confirmed' = confirmed \/ (Present /\ a.life = lives /\ confirmed' = a.cursor)
      BY <1>8 DEF Reload
    <2>3. a.at = "advanced"
      BY <1>8 DEF Reload
    <2> QED
      BY <2>1, <2>2, <2>3 DEF InForce, AckedIsKept, Present
  <1>9. ASSUME NEW a \in acks, AckFails(a) PROVE InForce'
    <2>1. UNCHANGED <<sub, lives, confirmed>> /\ acks' \subseteq acks
      BY <1>9 DEF AckFails, Ends, tables, history
    <2> QED
      BY <1>1, <2>1
  <1>10. ASSUME SendAck PROVE InForce'
    <2>1. UNCHANGED <<sub, lives, confirmed>>
      BY <1>10 DEF SendAck, tables, history
    <2>2. \A b \in acks' : b \in acks \/ (b.at = "sent" /\ b.life = 0)
      <3> DEFINE c == [at |-> "sent", cursor |-> client.after, key |-> client.key, life |-> 0]
      <3>2. c.at = "sent" /\ c.life = 0
        OBVIOUS
      <3>3. acks' = acks \cup {c}
        BY <1>10 DEF SendAck
      <3> HIDE DEF c
      <3> QED
        BY <3>2, <3>3
    <2> QED
      BY <1>0, <2>1, <2>2 DEF InForce, AckedIsKept, Present
  <1> QED
    BY <1>2, <1>3, <1>4, <1>5, <1>6, <1>7, <1>8, <1>9, <1>10 DEF Next, Admin, Consumer, HandleAck

\* An acknowledgement that was answered 200 is never undone while its subscription
\* lives, in whatever order acknowledgements, deletions and re-creations meet.
THEOREM AckStaysInForce == Spec => []AckedIsKept
  <1>1. InForce => AckedIsKept
    BY DEF InForce
  <1>2. TypeOK /\ InForce /\ TypeOK' /\ [Next]_vars => InForce'
    BY InForceStep
  <1> QED
    BY InForceInit, TypeCorrect, <1>1, <1>2, PTL DEF Spec
-----------------------------------------------------------------------------
(* The queue holds what the documented filters address.                     *)

LEMMA SelectedIfAddressed ==
    ASSUME TypeOK, NEW ev \in Events
    PROVE  Selected(ev) <=> Push /\ Documented(Loosened(sub.filter), ev)
  <1>1. sub.filter \in Filters
    BY DEF TypeOK, Subscription
  <1>2. sub.filter.types \subseteq Seq(STRING) /\ ev.type \in Seq(STRING)
    BY <1>1, SegmentsAssumption
  <1>3. Selects(sub.filter, ev) <=> Documented(Loosened(sub.filter), ev)
    BY <1>2, MatchesAsDocumented
  <1> QED
    BY <1>3 DEF Selected, Selects

\* A fan-out that has not matched, or has ended with nothing to add, owes nothing
\* that is on its way: the queue and what is owed differ by the fan-outs at their
\* enqueue.
Owing ==
    /\ queue = Settled
    /\ \A n \in Seqs :
           /\ fanout[n] = "matched" => n \in owed
           /\ fanout[n] = "stored" => n \notin owed
    /\ owed \subseteq 1..head
    /\ \A n \in Seqs : fanout[n] # "none" => n <= head

LEMMA OwingStep == TypeOK /\ Owing /\ [Next]_vars => Owing'
  <1> SUFFICES ASSUME TypeOK, Owing, [Next]_vars PROVE Owing'
    OBVIOUS
  <1>0. fanout \in [Seqs -> {"none", "stored", "matched"}] /\ head \in 0..MaxSeq
    BY DEF TypeOK
  <1>1. ASSUME AppendEvent PROVE Owing'
    <2>1. /\ head' = head + 1 /\ head' \in Seqs
          /\ UNCHANGED <<queue, owed>>
          /\ \/ fanout' = [fanout EXCEPT ![head'] = "stored"]
             \/ fanout' = fanout
      BY <1>0, <1>1 DEF AppendEvent, history, Seqs
    <2>2. head' \notin owed /\ fanout[head'] = "none"
      <3>1. ~ (head' <= head) /\ head' \notin 1..head
        BY <1>0, <2>1
      <3>2. owed \subseteq 1..head /\ (fanout[head'] # "none" => head' <= head)
        BY <2>1 DEF Owing
      <3> QED
        BY <3>1, <3>2
    <2>3. \A n \in Seqs : fanout'[n] = fanout[n] \/ (n = head' /\ fanout'[n] = "stored")
      BY <1>0, <2>1
    <2>4. Settled' = Settled
      <3>1. \A n \in owed : n \in Seqs /\ n # head'
        BY <2>2 DEF TypeOK
      <3> QED
        BY <2>1, <2>3, <3>1 DEF Settled
    <2>5. owed' \subseteq 1..head' /\ \A n \in Seqs : fanout'[n] # "none" => n <= head'
      BY <1>0, <2>1, <2>3 DEF Owing, Seqs
    <2> QED
      BY <2>1, <2>2, <2>3, <2>4, <2>5 DEF Owing
  <1>2. ASSUME NEW n \in 1..head, NEW ev \in Events, MatchingSubscriptions(n, ev) PROVE Owing'
    <2>1. /\ n \in Seqs /\ fanout[n] = "stored" /\ n \notin owed
          /\ UNCHANGED <<queue, head>>
      BY <1>0, <1>2 DEF MatchingSubscriptions, tables, Owing, Seqs
    <2>2. \/ fanout' = [fanout EXCEPT ![n] = "matched"] /\ owed' = owed \cup {n}
          \/ fanout' = [fanout EXCEPT ![n] = "none"] /\ owed' = owed
      BY <1>2, SelectedIfAddressed DEF MatchingSubscriptions
    <2>3. \A m \in Seqs \ {n} : fanout'[m] = fanout[m] /\ (m \in owed' <=> m \in owed)
      BY <1>0, <2>2
    <2>4. \/ fanout'[n] = "matched" /\ n \in owed'
          \/ fanout'[n] = "none" /\ n \notin owed'
      BY <1>0, <2>1, <2>2
    <2>5. owed \subseteq Seqs /\ owed' \subseteq Seqs
      BY <1>0, <2>1, <2>2 DEF TypeOK
    <2>6. Settled' = Settled
      BY <2>1, <2>3, <2>4, <2>5 DEF Settled
    <2>7. owed' \subseteq 1..head
      BY <2>2 DEF Owing
    <2> QED
      BY <1>0, <2>1, <2>3, <2>4, <2>6, <2>7 DEF Owing
  <1>3. ASSUME NEW n \in 1..head, EnqueueDeliveries(n) PROVE Owing'
    <2>1. /\ n \in Seqs /\ fanout[n] = "matched" /\ n \in owed
          /\ UNCHANGED <<head, owed>> /\ queue' = queue \cup {n}
          /\ fanout' = [fanout EXCEPT ![n] = "none"]
      BY <1>0, <1>3 DEF EnqueueDeliveries, history, Owing, Seqs
    <2>2. fanout'[n] = "none" /\ \A m \in Seqs \ {n} : fanout'[m] = fanout[m]
      BY <1>0, <2>1
    <2>3. Settled' = Settled \cup {n}
      BY <2>1, <2>2 DEF Settled, TypeOK
    <2> QED
      BY <1>0, <2>1, <2>2, <2>3 DEF Owing
  <1>4. ASSUME NEW n \in 1..head, IngestFails(n) PROVE Owing'
    <2>1. /\ n \in Seqs /\ fanout[n] \in {"stored", "matched"}
          /\ UNCHANGED <<head, queue>> /\ owed' = owed \ {n}
          /\ fanout' = [fanout EXCEPT ![n] = "none"]
      BY <1>0, <1>4 DEF IngestFails, tables, Seqs
    <2>2. fanout'[n] = "none" /\ \A m \in Seqs \ {n} : fanout'[m] = fanout[m]
      BY <1>0, <2>1
    <2>3. n \notin Settled
      BY <2>1 DEF Owing, Settled
    <2>4. Settled' = Settled
      BY <2>1, <2>2, <2>3 DEF Settled, TypeOK
    <2> QED
      BY <1>0, <2>1, <2>2, <2>4 DEF Owing
  <1>5. ASSUME NEW old \in SUBSET retained, PurgeOlderThan(old) PROVE Owing'
    <2>1. /\ UNCHANGED <<head, fanout>> /\ queue' = queue \ old
          /\ owed' = owed \ (Settled \cap old)
      BY <1>5 DEF PurgeOlderThan
    <2>2. Settled' = Settled \ old
      BY <2>1 DEF Settled
    <2>3. \A n \in Seqs : fanout[n] = "matched" => n \notin Settled
      BY DEF Settled
    <2> QED
      BY <2>1, <2>2, <2>3 DEF Owing
  <1>6. ASSUME DeleteSubscription PROVE Owing'
    <2>1. UNCHANGED <<head, fanout>> /\ queue' = {} /\ owed' = owed \ Settled
      BY <1>6 DEF DeleteSubscription
    <2>2. Settled' = {}
      BY <2>1 DEF Settled
    <2>3. \A n \in Seqs : fanout[n] = "matched" => n \notin Settled
      BY DEF Settled
    <2> QED
      BY <2>1, <2>2, <2>3 DEF Owing
  <1>7. ASSUME ServerCrash PROVE Owing'
    <2>1. UNCHANGED <<head, queue>> /\ owed' = Settled /\ fanout' = [n \in Seqs |-> "none"]
      BY <1>7 DEF ServerCrash, tables
    <2>2. Settled \subseteq owed /\ owed \subseteq Seqs
      BY DEF Settled, TypeOK
    <2>3. Settled' = Settled
      BY <2>1, <2>2 DEF Settled
    <2> QED
      BY <2>1, <2>2, <2>3 DEF Owing
  <1>8. ASSUME UNCHANGED <<head, queue, fanout, owed>> PROVE Owing'
    BY <1>8 DEF Owing, Settled
  <1>9. CASE \/ \E key \in 1..MaxLives : CreateSubscription(key)
             \/ \E status \in {"active", "paused"} : SetSubscriptionStatus(status)
             \/ HandlePull \/ \E a \in acks : HandleAck(a)
             \/ Consumer \/ UNCHANGED vars
    <2>1. UNCHANGED <<head, queue, fanout, owed>>
      BY <1>9 DEF CreateSubscription, SetSubscriptionStatus, HandlePull, ListsRows, ListsNothing,
                  ListFails, Wake, Done, Deadline, HandleAck, LookUp, Advance, Reload, AckFails,
                  Consumer, Start, Refused, ClientCrash, Stops, Ask, Receive, LoseResponse,
                  Process, SendAck, tables, history, vars
    <2> QED
      BY <1>8, <2>1
  <1> QED
    BY <1>1, <1>2, <1>3, <1>4, <1>5, <1>6, <1>7, <1>9 DEF Next, Ingest, Admin

\* At every moment the queue of a push subscription holds exactly the events its
\* filters address as DESIGN.md says, lone wildcards aside, whatever the filters, the
\* types and what path.Match answers; of those that a deletion or a purge should
\* have removed it holds only the ones whose fan-out came to its enqueue later.
THEOREM FanOutIsAsDocumented == Spec => []FanOutAsDocumented
  <1>1. Init => Owing
    BY DEF Init, Owing, Settled
  <1>2. TypeOK /\ Owing /\ [Next]_vars => Owing'
    BY OwingStep
  <1>3. Owing => FanOutAsDocumented
    BY DEF Owing, FanOutAsDocumented
  <1> QED
    BY TypeCorrect, <1>1, <1>2, <1>3, PTL DEF Spec
=============================================================================
