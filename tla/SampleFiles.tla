---------------------------- MODULE SampleFiles ----------------------------
(* The synthetic transmissions of scripts/generate-test-edi.mjs and of       *)
(* scripts/partner-edi-templates.mjs, segment by segment.  Segments and      *)
(* elements the parser reads nothing from keep their tag (it counts them)    *)
(* and lose their text; Rest names such a run of segments by its tags.       *)
EXTENDS TransactionSets

Rest(tags) == [i \in DOMAIN tags |-> Seg(tags[i], <<>>)]

IsaOf(sender, receiver, isa13) ==
  Seg("ISA", <<"00", "", "00", "", "ZZ", sender, "ZZ", receiver, "", "", "U",
               "00401", isa13, "0", "P", ":">>)
Gs(code, control) == Seg("GS", <<code, "", "", "", "", control, "X", "004010">>)
St(set, control) == Seg("ST", <<set, control>>)
Se(count, control) == Seg("SE", <<ToString(count), control>>)
Ge(count, control) == Seg("GE", <<count, control>>)
Iea(count, isa13) == Seg("IEA", <<count, isa13>>)
Date(qualifier, date) == Seg("DTM", <<qualifier, date>>)

(***************************************************************************)
(* generate-test-edi.mjs: one document in one group, numbers 1 and 0001.   *)
(***************************************************************************)
Interchange(isa, code, body) ==
  <<isa, Gs(code, "1")>> \o body \o <<Ge("1", "1"), Iea("1", Ev(isa, 13))>>

FromVendor(isa13) == IsaOf("VENDOR01", "EDIHUB", isa13)
FromHub(isa13) == IsaOf("EDIHUB", "VENDOR01", isa13)

Txn850(po, isa13, lines) ==
  Interchange(FromVendor(isa13), "PO",
    <<St("850", "0001"), Seg("BEG", <<"00", "SA", po, "", "">>)>>
    \o Rest(<<"REF">>) \o <<Date("002", "20260701")>> \o Rest(<<"N1">>)
    \o [l \in 1..lines |-> Seg("PO1", <<>>)]
    \o Rest(<<"CTT">>) \o <<Se(4 + lines, "0001")>>)

Txn855(po, isa13) ==
  Interchange(FromVendor(isa13), "PR",
    <<St("855", "0001"), Seg("BAK", <<"00", "AC", po>>)>>
    \o Rest(<<"PO1", "PO1">>) \o <<Se(5, "0001")>>)

Txn856(po, isa13, shipment) ==
  Interchange(FromVendor(isa13), "SH",
    <<St("856", "0001"), Seg("BSN", <<"00", shipment>>), Seg("HL", <<"1", "", "S">>),
      Seg("PRF", <<po>>), Se(5, "0001")>>)

Txn810(po, isa13, invoice) ==
  Interchange(FromVendor(isa13), "IN",
    <<St("810", "0001"), Seg("BIG", <<"", invoice, "", po>>)>>
    \o Rest(<<"IT1", "IT1", "TDS", "CTT">>) \o <<Se(7, "0001")>>)

Ak(n, elements) == Seg("AK" \o n, elements)

Txn997Accept(isa13) ==
  Interchange(FromHub(isa13), "FA",
    <<St("997", "0001"), Ak("1", <<"PO", "1">>), Ak("2", <<"850", "0001">>),
      Ak("5", <<"A">>), Ak("9", <<"A", "1", "1", "1">>), Se(6, "0001")>>)

Txn997Reject(isa13) ==
  Interchange(FromHub(isa13), "FA",
    <<St("997", "0001"), Ak("1", <<"PO", "1">>), Ak("2", <<"850", "0001">>),
      Ak("3", <<"BEG", "2", "", "8">>), Ak("4", <<"3", "353", "1", "">>),
      Ak("5", <<"R">>), Ak("9", <<"R", "1", "1", "0">>), Se(8, "0001")>>)

Txn860(po, isa13) ==
  Interchange(FromVendor(isa13), "PC",
    <<St("860", "0001"), Seg("BCH", <<"04", "SA", po, "", "", "", po, "1">>)>>
    \o Rest(<<"PO1">>) \o <<Se(4, "0001")>>)

Txn875(po, isa13) ==
  Interchange(FromVendor(isa13), "SG",
    <<St("875", "0001"), Seg("BPO", <<"00", po, "">>), Se(3, "0001")>>)

Txn880(po, isa13, invoice) ==
  Interchange(FromVendor(isa13), "GP",
    <<St("880", "0001"), Seg("BIG", <<"", invoice, "", po>>), Seg("TDS", <<>>),
      Se(4, "0001")>>)

Batched850810(isa13) ==
  <<FromVendor(isa13), Gs("PO", "1"),
    St("850", "0001"), Seg("BEG", <<"00", "SA", "PO-30001", "", "">>),
    Seg("PO1", <<>>), Se(4, "0001"), Ge("1", "1"), Gs("IN", "2"),
    St("810", "0002"), Seg("BIG", <<"", "INV-30001", "", "PO-30001">>),
    Seg("IT1", <<>>), Seg("TDS", <<>>), Se(5, "0002"), Ge("1", "2"),
    Iea("2", isa13)>>

LineWrapped850(po, isa13) ==
  Interchange(FromVendor(isa13), "PO",
    <<St("850", "0001"), Seg("BEG", <<"00", "SA", po, "", "">>),
      Seg("PO1", <<>>), Se(4, "0001")>>)

(***************************************************************************)
(* partner-edi-templates.mjs: finalizeInterchange counts the segments from *)
(* ST on, so that SE01 cannot be written wrong by hand.                    *)
(***************************************************************************)
UsFoods == "621418185"
Sysco == "109563165"
Vendor == "7085892400"

\* SE01 one short: the SE itself forgotten.
FinalizeShort(segments, st, gs) ==
  LET stIdx == CHOOSE i \in DOMAIN segments : segments[i].tag = "ST"
  IN segments \o <<Se(Len(segments) - stIdx + 1, st), Ge("1", gs),
                   Iea("1", Ev(segments[1], 13))>>

FinalizeInterchange(segments, st, gs) ==
  LET stIdx == CHOOSE i \in DOMAIN segments :
                 /\ segments[i].tag = "ST"
                 /\ \A j \in 1..i - 1 : segments[j].tag # "ST"
      seCount == Len(segments) - stIdx + 2
  IN segments \o <<Se(seCount, st), Ge("1", gs), Iea("1", Ev(segments[1], 13))>>

UsFoods850(po, isa13, st, gs, ship) ==
  FinalizeInterchange(
    <<IsaOf(UsFoods, Vendor, isa13), Gs("PO", gs), St("850", st),
      Seg("BEG", <<"00", "SA", po, "", "20260701">>), Seg("ITD", <<>>),
      Date("002", ship)>>
    \o Rest(<<"TD5", "N9", "MSG", "MSG", "N1", "N3", "N4", "N1", "N3", "N4", "PER",
              "PO1", "PID">>)
    \o <<Seg("REF", <<"ZZ", "50 LB">>), Seg("CTT", <<"1">>)>>, st, gs)

UsFoods855(po, isa13, gs, ship) ==
  FinalizeInterchange(
    <<IsaOf(Vendor, UsFoods, isa13), Gs("PR", gs), St("855", "0001"),
      Seg("BAK", <<"00", "AP", po>>), Date("002", ship)>>
    \o Rest(<<"TD5", "N1", "PER", "PO1", "PID", "CTT">>), "0001", gs)

UsFoods810(po, isa13, gs, invoice) ==
  FinalizeInterchange(
    <<IsaOf(Vendor, UsFoods, isa13), Gs("IN", gs), St("810", "0007"),
      Seg("BIG", <<"", invoice, "", po, "", "", "DI", "00">>), Seg("REF", <<"AP", "">>)>>
    \o Rest(<<"N1", "N3", "N4", "N1", "N3", "N4", "N1", "PER", "ITD", "IT1", "IT3",
              "PID", "TDS", "ISS", "CTT">>), "0007", gs)

Sysco850(po, isa13, st, gs, ship, cancel) ==
  FinalizeInterchange(
    <<IsaOf(Sysco, Vendor, isa13), Gs("PO", gs), St("850", st),
      Seg("BEG", <<"00", "NE", po, "", "20260701">>)>>
    \o Rest(<<"REF", "REF", "REF", "REF", "REF", "REF", "FOB", "SAC">>)
    \o <<Date("002", ship), Date("010", cancel)>>
    \o Rest(<<"TD5", "N9", "MSG", "MSG", "MSG", "N1", "N3", "N4", "N1", "N3", "N4",
              "N1", "N3", "N4", "N1", "N3", "N4", "N1", "N3", "N4", "PO1", "PID",
              "CTT">>), st, gs)

\* sacLine, when there is one, is spliced in before the seventh segment.
Sysco855(po, isa13, gs, ship, sacLine) ==
  LET head == <<IsaOf(Vendor, Sysco, isa13), Gs("PR", gs), St("855", "0006"),
                Seg("BAK", <<"00", "AC", po>>)>> \o Rest(<<"REF", "REF">>)
      tail == <<Date("118", ship)>>
              \o Rest(<<"TD5", "N1", "N1", "N1", "N1", "N1", "PO1", "PID", "ACK", "CTT">>)
  IN FinalizeInterchange(head \o (IF sacLine THEN Rest(<<"SAC">>) ELSE <<>>) \o tail,
                         "0006", gs)

Sysco810(po, isa13, gs, invoice) ==
  FinalizeInterchange(
    <<IsaOf(Vendor, Sysco, isa13), Gs("IN", gs), St("810", "0003"),
      Seg("BIG", <<"", invoice, "", po, "", "", "", "00">>)>>
    \o Rest(<<"REF", "REF", "REF", "N1", "N3", "N4", "N1", "N3", "N4", "N1", "N3",
              "N4", "ITD", "DTM", "IT1", "IT3", "PID", "TDS", "ISS", "CTT">>), "0003", gs)

(***************************************************************************)
(* The files written, by order: the PO number the generator gives the      *)
(* order and the transmissions of its folder.                              *)
(***************************************************************************)
Generated == <<
  [po |-> "PO-10001", files |->
     <<Txn850("PO-10001", "100010001", 2), Txn855("PO-10001", "100010002"),
       Txn856("PO-10001", "100010003", "SHIP-10001"),
       Txn810("PO-10001", "100010004", "INV-10001"), Txn997Accept("100010005")>>],
  [po |-> "PO-10002", files |->
     <<Txn850("PO-10002", "100020001", 1), Txn855("PO-10002", "100020002"),
       Txn997Reject("100020003")>>],
  [po |-> "PO-10003", files |->
     <<Txn875("PO-10003", "100030001"), Txn880("PO-10003", "100030002", "INV-G-10003")>>],
  [po |-> "PO-10004", files |->
     <<Txn850("PO-10004", "100040001", 2), Txn860("PO-10004", "100040002")>>],
  [po |-> "PO-20001", files |->
     <<Txn850("PO-20001", "200010001", 2), Txn810("PO-20001", "200010002", "INV-20001")>>],
  [po |-> "PO-SMOKE-01", files |->
     <<Txn850("PO-SMOKE-01", "900010001", 1), Txn855("PO-SMOKE-01", "900010002"),
       Txn810("PO-SMOKE-01", "900010003", "INV-SMOKE-01"),
       Txn856("PO-SMOKE-01", "900010004", "SHIP-SMOKE"),
       Txn997Accept("900010005"), Txn997Reject("900010006")>>],
  [po |-> "PO-30001", files |-> <<Batched850810("800010001")>>],
  [po |-> "PO-WRAP-01", files |-> <<LineWrapped850("PO-WRAP-01", "800010002")>>],
  [po |-> "PO-DUP-01", files |-> <<Txn850("PO-DUP-01", "100010001", 2)>>] >>

UsFoodsOrders == <<
  [po |-> "7599901Q", files |->
     <<UsFoods850("7599901Q", "000059901", "9901", "9901", "20260715"),
       UsFoods855("7599901Q", "000059902", "9902", "20260714"),
       UsFoods810("7599901Q", "000059903", "9903", "5199901")>>],
  [po |-> "7599902F", files |->
     <<UsFoods850("7599902F", "000059904", "9904", "9904", "20260720"),
       UsFoods855("7599902F", "000059905", "9905", "20260719"),
       UsFoods810("7599902F", "000059906", "9906", "5199902")>>],
  [po |-> "7599903Q", files |->
     <<UsFoods850("7599903Q", "000059907", "9907", "9907", "20260722"),
       UsFoods855("7599903Q", "000059908", "9908", "20260720"),
       UsFoods810("7599903Q", "000059909", "9909", "5199903")>>] >>

SyscoPickup == <<
  [po |-> "31999001", files |->
     <<Sysco850("31999001", "242990001", "99010001", "99010001", "20260710", "20260709"),
       Sysco855("31999001", "000059910", "9910", "20260710", FALSE),
       Sysco810("31999001", "000059911", "9911", "5199911")>>] >>

SyscoFreight == <<
  [po |-> "11999002", files |->
     <<Sysco850("11999002", "242990002", "99020002", "99020002", "20260705", "20260704"),
       Sysco855("11999002", "000059912", "9912", "20260705", TRUE),
       Sysco810("11999002", "000059913", "9913", "5199912")>>],
  [po |-> "42999045", files |->
     <<Sysco850("42999045", "242990003", "99030003", "99030003", "20260719", "20260718"),
       Sysco855("42999045", "000059914", "9914", "20260719", TRUE),
       Sysco810("42999045", "000059915", "9915", "5199913")>>] >>

PartnerLifecycles == UsFoodsOrders \o SyscoPickup \o SyscoFreight

SampleOrders == Generated \o PartnerLifecycles
=============================================================================
