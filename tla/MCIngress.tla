------------------------------ MODULE MCIngress ------------------------------
(* Ingress on a small instance: a few bodies that overlap in some fields. *)
EXTENDS Ingress, TLC

CONSTANTS github, ci, a1, a2, q1, q2, s1, s2, k1

MCEdits == {[secret |-> s2], [enabled |-> TRUE], [mode |-> "none", enabled |-> FALSE], [mode |-> "other"]}
MCCalls == {
    [path |-> "webhook", source |-> github, provider |-> github, secret |-> s1, key |-> k1],
    [path |-> "generic", source |-> github, provider |-> github, secret |-> s2, key |-> NoKey],
    [path |-> "generic", source |-> ci, provider |-> github, secret |-> s2, key |-> k1],
    [path |-> "generic", source |-> ci, provider |-> ci, secret |-> NoSecret, key |-> k1]}
MCSymmetry == Permutations(Admins) \cup Permutations(Requests)
=============================================================================
