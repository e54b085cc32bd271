---------------------------- MODULE MCDispatcher ----------------------------
(* Dispatcher on a small instance: at most two places in the semaphore. *)
EXTENDS Dispatcher, TLC

CONSTANTS w1, w2

MCSymmetry == Permutations(Slots)

\* Two interventions meet the fault or the crash in one behaviour, in every order,
\* and the fault meets the crash; an intervention does not meet both.
FewDisturbances == interventions + 2 * faults + 2 * crashes <= 4
=============================================================================
