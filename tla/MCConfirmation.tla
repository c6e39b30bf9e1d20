--------------------------- MODULE MCConfirmation ---------------------------
(***************************************************************************)
(* Small instances of Confirmation for TLC: originals with one key, one    *)
(* sent by us and one to us, and acknowledgments of that key.              *)
(***************************************************************************)
EXTENDS Confirmation, TLC

CONSTANTS out, in, ack1, ack2, k

MCKey == [o \in Originals |-> k]
MCCovers == [a \in Acks |-> {k}]
MCSymmetry == Permutations(Parsers)
=============================================================================
