----------------------------- MODULE OrderedLog -----------------------------
(***************************************************************************)
(* What the event log promises to producers and consumers: one sequence of *)
(* events, appended atomically, trimmed by retention, and consumers whose  *)
(* position passes an event only when they have got it.                    *)
(***************************************************************************)
EXTENDS Integers, Sequences, FiniteSets

CONSTANTS
    Readers, Streams, All,
    Subscribed,  \* the stream each consumer reads, or All
    NoKey        \* the dedupe key of an event that has none

VARIABLES
    log,       \* every event ever appended; its place is its seq
    retained,  \* the seqs that retention has not removed
    cursor,    \* the position of each consumer
    received   \* the seqs each consumer got

vars == <<log, retained, cursor, received>>

Entries(s)  == {n \in DOMAIN log : s = All \/ log[n].stream = s}
Place(s, n) == IF s = All THEN n ELSE log[n].streamSeq

Init ==
    /\ log = <<>>
    /\ retained = {}
    /\ cursor = [r \in Readers |-> 0]
    /\ received = [r \in Readers |-> {}]

\* A new event takes the next seq of the log and the next seq of its stream,
\* and its dedupe key is not that of a retained event.
Extend ==
    /\ Len(log') = Len(log) + 1
    /\ LET new == log'[Len(log')] IN
        /\ log' = Append(log, new)
        /\ new.seq = Len(log')
        /\ new.stream \in Streams
        /\ new.streamSeq = Cardinality(Entries(new.stream)) + 1
        /\ \A n \in retained : new.key = NoKey \/ log[n].key # new.key
    /\ retained' = retained \cup {Len(log')}
    /\ UNCHANGED <<cursor, received>>

Trim ==
    /\ retained' \subseteq retained
    /\ UNCHANGED <<log, cursor, received>>

\* A consumer moves forward over everything retained on the way, and gets
\* nothing that was not there for it.
Consume(r) ==
    LET s == Subscribed[r]
        passed(n) == n \in Entries(s) /\ Place(s, n) \in cursor[r] + 1 .. cursor'[r] IN
    /\ cursor'[r] > cursor[r]
    /\ cursor' = [cursor EXCEPT ![r] = cursor'[r]]
    /\ received' = [received EXCEPT ![r] = received'[r]]
    /\ received[r] \subseteq received'[r]
    /\ \A n \in received'[r] \ received[r] : passed(n)
    /\ \A n \in retained : passed(n) => n \in received'[r]
    /\ UNCHANGED <<log, retained>>

Next == Extend \/ Trim \/ \E r \in Readers : Consume(r)

Spec == Init /\ [][Next]_vars
=============================================================================
