----------------------------- MODULE MCAccounts -----------------------------
(***************************************************************************)
(* Small instances of Accounts for TLC.                                    *)
(***************************************************************************)
EXTENDS Accounts

CONSTANTS a, b, c

MCTwoAdmins == <<[person |-> a, role |-> "org:admin"], [person |-> b, role |-> "org:admin"]>>
=============================================================================
