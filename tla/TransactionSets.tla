-------------------------- MODULE TransactionSets --------------------------
(***************************************************************************)
(* The segments of an X12 transmission as the parser of                    *)
(* packages/edi-parser reads them, and what it reads out of one decomposed *)
(* transaction: the typed interpretation, the business keys the order      *)
(* timeline stitches on, the tree of a functional acknowledgment and the   *)
(* issues validateTransaction reports.                                     *)
(*                                                                         *)
(* A segment is a tag and the strings that follow it.  The delimiters are  *)
(* abstracted away (detectDelimiters finds them, tokenize splits on them): *)
(* a transmission is the sequence of its segments, each element already    *)
(* free of its padding.                                                    *)
(***************************************************************************)
EXTENDS Naturals, Sequences, SequencesExt, TLC

Seg(tag, elements) == [tag |-> tag, elements |-> elements]

NoSegment == Seg("", <<>>)

NoText == ""

\* el (decompose.ts) and ev (sets.ts, validate.ts): a missing element is "".
Ev(seg, i) == IF i \in DOMAIN seg.elements THEN seg.elements[i] ELSE NoText

NoCount == 99   \* parseCount's null; no transmission here is that long

\* parseCount: the number an element spells, or null.
ParseCount(raw) ==
  IF \E n \in 0..NoCount - 1 : ToString(n) = raw
  THEN CHOOSE n \in 0..NoCount - 1 : ToString(n) = raw
  ELSE NoCount

SegmentsOf(txn, tag) == SelectSeq(txn.segments, LAMBDA s : s.tag = tag)

HasSegment(txn, tag) == \E i \in DOMAIN txn.segments : txn.segments[i].tag = tag

FirstSegment(txn, tag) ==
  IF HasSegment(txn, tag) THEN Head(SegmentsOf(txn, tag)) ELSE NoSegment
-----------------------------------------------------------------------------
OrderSets == {"850", "855", "860", "875"}
InvoiceSets == {"810", "880"}
AckSets == {"997", "999"}

\* requestedDeliveryDateFrom850: by the order of the qualifiers, not of the file.
DueDate(txn) ==
  LET dtms == SegmentsOf(txn, "DTM")
      hit(q) == SelectSeq(dtms, LAMBDA s : Ev(s, 1) = q)
      date(q) == IF hit(q) = <<>> THEN "" ELSE Ev(Head(hit(q)), 2)
      dated == SelectSeq(<<"002", "010", "038", "063">>, LAMBDA q : date(q) # "")
  IN IF dated = <<>> THEN "" ELSE date(Head(dated))

\* interpretTransaction and extractBusinessKeys: the fields persisted with the
\* transaction; "" is the code's null.
Keys(po, invoice, shipment, purpose, due) ==
  [po |-> po, invoice |-> invoice, shipment |-> shipment,
   purpose |-> purpose, due |-> due]

BusinessKeys(txn) ==
  LET set == txn.transactionSetId
      at(tag, i) == Ev(FirstSegment(txn, tag), i)
  IN CASE set = "850" -> Keys(at("BEG", 3), "", "", at("BEG", 1), DueDate(txn))
       [] set = "855" -> Keys(at("BAK", 3), "", "", at("BAK", 1), "")
       [] set = "856" -> Keys(at("PRF", 1), "", at("BSN", 2), "", "")
       [] set \in InvoiceSets -> Keys(at("BIG", 4), at("BIG", 2), "", "", "")
       [] set = "860" -> Keys(at("BCH", 3), "", "", at("BCH", 1), "")
       [] set = "875" -> Keys(at("BPO", 2), "", "", at("BPO", 1), "")
       [] OTHER -> Keys("", "", "", "", "")

(***************************************************************************)
(* readAck: a pass over the segments with a pending transaction and a      *)
(* pending segment error, each flushed by what follows it.                 *)
(***************************************************************************)
NoTxn == [control |-> NoText, status |-> NoText, errors |-> <<>>]
NoError == [position |-> NoText, elements |-> <<>>]

\* The dictionary's decoders give null for a code the standard does not list.
KnownStatus == {"A", "E", "M", "P", "R", "W", "X"}
DecodeStatus(code) == IF code \in KnownStatus THEN code ELSE ""

AckStart == [done |-> <<>>, pending |-> NoTxn, inTxn |-> FALSE,
             error |-> NoError, inError |-> FALSE]

FlushError(a) ==
  [a EXCEPT !.pending.errors = IF a.inError /\ a.inTxn THEN Append(@, a.error) ELSE @,
            !.error = NoError, !.inError = FALSE]

FlushTxn(a) ==
  LET f == FlushError(a)
  IN [f EXCEPT !.done = IF f.inTxn THEN Append(@, f.pending) ELSE @,
               !.pending = NoTxn, !.inTxn = FALSE]

\* An answer that leaves the error it closes pending.
AckSegmentUnflushed(a, s) ==
  CASE s.tag = "AK2" ->
         [FlushTxn(a) EXCEPT !.inTxn = TRUE, !.pending.control = Ev(s, 2)]
    [] s.tag = "AK3" /\ a.inTxn ->
         [FlushError(a) EXCEPT !.inError = TRUE, !.error.position = Ev(s, 2)]
    [] s.tag = "AK4" /\ a.inError ->
         [a EXCEPT !.error.elements = Append(@, Ev(s, 1))]
    [] s.tag \in {"AK5", "IK5"} /\ a.inTxn -> [a EXCEPT !.pending.status = Ev(s, 1)]
    [] OTHER -> a

AckSegment(a, s) ==
  CASE s.tag = "AK2" ->
         [FlushTxn(a) EXCEPT !.inTxn = TRUE, !.pending.control = Ev(s, 2)]
    [] s.tag = "AK3" /\ a.inTxn ->
         [FlushError(a) EXCEPT !.inError = TRUE, !.error.position = Ev(s, 2)]
    [] s.tag = "AK4" /\ a.inError ->
         [a EXCEPT !.error.elements = Append(@, Ev(s, 1))]
    [] s.tag \in {"AK5", "IK5"} /\ a.inTxn ->
         [FlushError(a) EXCEPT !.pending.status = Ev(s, 1)]
    [] OTHER -> a

\* What readAck returns once the pass has come to the end.
AckTree(a) == FlushTxn(a).done

AckGroup(txn) == [groupControl |-> Ev(FirstSegment(txn, "AK1"), 2),
                  groupStatus  |-> DecodeStatus(Ev(FirstSegment(txn, "AK9"), 1))]

(***************************************************************************)
(* validateTransaction: the header segment each set must have and the      *)
(* element of it that must not be empty (0: the segment is enough).        *)
(***************************************************************************)

RequiredHeader(set) ==
  CASE set = "850" -> <<"BEG", 3>>
    [] set \in InvoiceSets -> <<"BIG", 2>>
    [] set = "855" -> <<"BAK", 3>>
    [] set = "856" -> <<"BSN", 0>>
    [] set = "860" -> <<"BCH", 3>>
    [] set = "875" -> <<"BPO", 2>>
    [] set \in AckSets -> <<"AK1", 0>>
    [] OTHER -> <<"", 0>>

ValidateTransaction(txn) ==
  LET set == txn.transactionSetId
      tag == RequiredHeader(set)[1]
      element == RequiredHeader(set)[2]
      missing == tag # "" /\ ~HasSegment(txn, tag)
      empty == ~missing /\ element > 0 /\ Ev(FirstSegment(txn, tag), element) = ""
      line == CASE set = "850" -> "PO1" [] set = "810" -> "IT1"
                [] set = "856" -> "PRF" [] OTHER -> ""
  IN (IF missing \/ empty THEN {"error"} ELSE {})
       \cup (IF line # "" /\ ~HasSegment(txn, line) THEN {"warning"} ELSE {})
=============================================================================
