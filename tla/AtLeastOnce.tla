----------------------------- MODULE AtLeastOnce ----------------------------
(***************************************************************************)
(* What push delivery promises for one event and one subscription: once    *)
(* queued it stays queued until the subscriber confirmed it or it is given *)
(* up, and then stays so; only the operator (a requeue, a deletion, a      *)
(* retention purge) moves it otherwise.                                    *)
(***************************************************************************)
EXTENDS Integers

CONSTANT Pairs  \* pairs <<subscription, event>>

VARIABLES
    place,     \* "out", "queued", "delivered" or "dead"
    acked,     \* acked[s]: the events subscription s confirmed
    operator   \* how often the operator stepped in

vars == <<place, acked, operator>>

Init ==
    /\ place = [p \in Pairs |-> "out"]
    /\ acked = [s \in {p[1] : p \in Pairs} |-> {}]
    /\ operator = 0

\* The pairs of R go from one of the places to another, together.
Move(R, from, to) ==
    /\ \A p \in R : place[p] \in from
    /\ place' = [p \in Pairs |-> IF p \in R THEN to ELSE place[p]]

Enqueue == \E p \in Pairs : Move({p}, {"out"}, "queued") /\ UNCHANGED <<acked, operator>>

Confirm ==
    /\ \E p \in Pairs : acked' = [acked EXCEPT ![p[1]] = acked'[p[1]]]
    /\ \A s \in DOMAIN acked : acked[s] \subseteq acked'[s]
    /\ UNCHANGED <<place, operator>>

Changed == {p \in Pairs : place'[p] # place[p]}

Deliver ==
    /\ Move(Changed, {"queued"}, "delivered")
    /\ \A p \in Changed : p[2] \in acked[p[1]]
    /\ UNCHANGED <<acked, operator>>

GiveUp == Move(Changed, {"queued"}, "dead") /\ UNCHANGED <<acked, operator>>

Operate ==
    /\ \/ Move(Changed, {"delivered", "dead"}, "queued")
       \/ Move(Changed, {"queued", "delivered", "dead"}, "out")
    /\ operator' = operator + 1
    /\ UNCHANGED acked

Next == Enqueue \/ Confirm \/ Deliver \/ GiveUp \/ Operate

Spec == Init /\ [][Next]_vars
=============================================================================
