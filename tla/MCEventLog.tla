----------------------------- MODULE MCEventLog -----------------------------
(* EventLog on a small instance: one consumer of everything, one of a stream. *)
EXTENDS EventLog, TLC

CONSTANTS h1, h2, rAll, rOne, s1, s2

MCSubscribed == rAll :> All @@ rOne :> s1
MCSubscribedOne == rOne :> s1
MCSymmetry == Permutations({h1, h2})
=============================================================================
