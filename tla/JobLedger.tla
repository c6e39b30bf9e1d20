----------------------------- MODULE JobLedger -----------------------------
(***************************************************************************)
(* What the job queue promises to the rest of the API, without processes,  *)
(* ticks and database calls: a row waits, is leased by one attempt at a    *)
(* time, and every attempt that ends is settled and counted exactly once.  *)
(* A lease can lose its holder; then nothing ever settles it (the code has *)
(* no step that takes a running row back).                                 *)
(***************************************************************************)
EXTENDS Naturals

CONSTANTS Jobs, MaxAttempts

VARIABLES state, held, tries

ledger == <<state, held, tries>>

Init == /\ state = [j \in Jobs |-> "absent"]
        /\ held = [j \in Jobs |-> FALSE]
        /\ tries = [j \in Jobs |-> 0]

Put(j) == /\ state[j] = "absent"
          /\ state' = [state EXCEPT ![j] = "pending"]
          /\ UNCHANGED <<held, tries>>

\* An attempt takes the row.
Lease(j) == /\ state[j] = "pending"
            /\ state' = [state EXCEPT ![j] = "leased"]
            /\ held' = [held EXCEPT ![j] = TRUE]
            /\ UNCHANGED tries

\* The row is taken but nobody knows it, or its holder disappears.
Strand(j) == /\ \/ state[j] = "pending"
                \/ state[j] = "leased" /\ held[j]
             /\ state' = [state EXCEPT ![j] = "running"]
             /\ held' = [held EXCEPT ![j] = FALSE]
             /\ UNCHANGED tries

Release(j, to) == /\ held[j]
                  /\ state[j] = "leased"
                  /\ state' = [state EXCEPT ![j] = to]
                  /\ held' = [held EXCEPT ![j] = FALSE]

Succeed(j) == Release(j, "done") /\ UNCHANGED tries

Fail(j) == /\ Release(j, IF tries[j] + 1 = MaxAttempts THEN "dead" ELSE "pending")
           /\ tries' = [tries EXCEPT ![j] = @ + 1]

Next == \E j \in Jobs : Put(j) \/ Lease(j) \/ Strand(j) \/ Succeed(j) \/ Fail(j)

Spec == Init /\ [][Next]_ledger
=============================================================================
