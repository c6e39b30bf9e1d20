---------------------------- MODULE MCIngestion ----------------------------
(***************************************************************************)
(* Small instances of Ingestion for TLC.  Files a and b are interchanges   *)
(* with one control number, b does not parse; c is not X12 and d is empty, *)
(* under the basename of c.                                                *)
(***************************************************************************)
EXTENDS Ingestion

CONSTANTS a, b, c, d, isa1, n1, n2, n3

MCControl == [f \in Files |-> IF f \in {a, b} THEN isa1 ELSE None]
MCClass == [f \in Files |-> IF f \in {a, b} THEN "x12"
                            ELSE IF f = c THEN "foreign" ELSE "empty"]
MCGood == {a} \cap Files
MCGiven == [f \in Files |-> IF f = a THEN 2 ELSE 0]
MCNameOf == [f \in Files |-> IF f = a THEN n1 ELSE IF f = b THEN n2 ELSE n3]
=============================================================================
