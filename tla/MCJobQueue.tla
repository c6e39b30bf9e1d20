----------------------------- MODULE MCJobQueue -----------------------------
(***************************************************************************)
(* Small instances of JobQueue for TLC.  Three attempts, as in the code;   *)
(* the back-offs keep their order (each longer than the one before).       *)
(***************************************************************************)
EXTENDS JobQueue, TLC

MCRetryDelay == [n \in 1..MaxAttempts |-> n]
MCDelays     == {0, 1}
MCSymmetry   == Permutations(Workers)
=============================================================================
