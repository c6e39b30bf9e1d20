---------------------------- MODULE MCSchedules ----------------------------
(***************************************************************************)
(* Small instances of Schedules: two processes and a few rows.             *)
(***************************************************************************)
EXTENDS Schedules, TLC

MCRetryDelay == [n \in 1..MaxAttempts |-> 0]
MCSymmetry   == Permutations(Workers) \cup Permutations(Jobs)

\* One mishap at a time: a crash, an unanswered call or a stop.
MCConstraint == crashes + faults + stops <= 1
=============================================================================
