------------------------------ MODULE MCOrders ------------------------------
(***************************************************************************)
(* Small instances of Orders for TLC: we are H, our partners A and B.      *)
(***************************************************************************)
EXTENDS Orders

CONSTANTS p1, p2

Doc(id, set, from, to, group, po, told) ==
  [id |-> id, set |-> set, from |-> from, to |-> to, group |-> group, ctl |-> 1,
   po |-> po, told |-> told, acked |-> Null, entries |-> {}, ak9 |-> Null]

Ack(id, from, to, acked, set, code) ==
  [id |-> id, set |-> "997", from |-> from, to |-> to, group |-> "g9", ctl |-> 1,
   po |-> Null, told |-> Null, acked |-> acked, ak9 |-> code,
   entries |-> {[set |-> set, ctl |-> 1, code |-> code]}]

MCCatalogue ==
  { Doc("order", "850", "A", "H", "g1", "P1", "P1"),
    Doc("accept", "855", "H", "A", "g2", "P1", "P1"),
    Doc("invoice", "810", "H", "A", "g2", Null, "P1"),
    Ack("ack", "A", "H", "g2", "810", "R"),
    Doc("other", "850", "B", "H", "g1", "P2", "P2") }

Window(set, within) == [set |-> set, dir |-> "outbound", within |-> within, ack |-> "997"]

MCFlow == [entry |-> "850", name |-> "short", steps |-> <<Kind("810", "outbound")>>]

MCInputs ==
  { [send |-> {"A"}, recv |-> {"A"}, active |-> TRUE, flows |-> <<MCFlow>>,
     windows |-> <<Window("810", 1)>>] }

MCOurIds == {"H"}
=============================================================================
