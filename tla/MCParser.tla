------------------------------ MODULE MCParser ------------------------------
(* The alphabets of the drawn transmissions: one group and one transaction   *)
(* control number, right and wrong counts, a GS without elements and one     *)
(* without control number, an AK2 for each of two transactions, headers with *)
(* and without their key.                                                    *)
EXTENDS Parser

MCEnvelope ==
  {Gs("PO", "1"), Seg("GS", <<>>), Seg("GS", <<"PO">>), St("850", "1"),
   Se(3, "1"), Se(2, "2"), Ge("1", "1"), Iea("1", "900000001"),
   Seg("BEG", <<"00", "SA", "P1">>)}

MCAck ==
  {Ak("2", <<"850", "1">>), Ak("2", <<"850", "2">>), Ak("3", <<"BEG", "2">>),
   Ak("4", <<"3">>), Ak("5", <<"A">>), Seg("IK5", <<"R">>)}

MCDocuments == OrderSets \cup InvoiceSets \cup {"856"}

MCDocument(set) ==
  LET tag == RequiredHeader(set)[1]
  IN {Seg(tag, <<"00", "P1", "P1", "P1">>), Seg(tag, <<"00", "", "P2", "">>),
      Seg(tag, <<"00", "P3", "", "P3">>), Seg(tag, <<>>), Seg("PRF", <<"P1">>),
      Date("010", "d1"), Date("002", "d2"), Se(4, "0001")}
=============================================================================
