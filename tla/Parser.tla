------------------------------- MODULE Parser -------------------------------
(***************************************************************************)
(* decomposeInterchange (packages/edi/src/decompose.ts), fed one segment   *)
(* at a time: one pass over the segments that hangs every segment on the   *)
(* open transaction and every transaction on the open group.  A            *)
(* transaction that starts outside a group is filled like any other but    *)
(* hangs on no group (group = 0), so it is not in the tree that is stored. *)
(*                                                                         *)
(* It reads three kinds of transmissions: the files the generator scripts  *)
(* write; transmissions of any shape, drawn from the envelope segments;    *)
(* and transmissions whose envelope is sound and whose one transaction is  *)
(* of any shape (an acknowledgment, a document).  From a tree that is      *)
(* stored readAck (sets.ts) reads its acknowledgments, again segment by    *)
(* segment.                                                                *)
(***************************************************************************)
EXTENDS SampleFiles, FiniteSetsExt

CONSTANTS
  EnvelopeSegments,   \* what a transmission of any shape is drawn from
  AckSegments,        \* what the body of a 997 is drawn from
  Documents,          \* order and invoice sets
  DocumentSegments(_),\* what the body of a document of a set is drawn from
  MaxEnvelope, MaxAck, MaxDocument   \* bounds on the segments drawn

VARIABLES
  read,          \* the segments read so far
  groups,        \* interchange.groups
  txns,          \* every transaction begun, in order, with its group
  openGroup,     \* currentGroup: an index of groups, 0 for null
  openTxn,       \* currentTxn: an index of txns, 0 for null
  declaredGroupCount,
  warnings,
  outcome,       \* "reading", "done", or the kind of an EdiParseError
  source,        \* where the transmission comes from
  ackTxn,        \* the acknowledgment readAck reads, 0 for none
  ackAt,         \* how many of its segments it has read
  acked          \* what it has in hand

tree == <<groups, txns, openGroup, openTxn, declaredGroupCount, warnings>>

Warn(kind, of) == warnings' = Append(warnings, [kind |-> kind, of |-> of])

WarnIf(cond, kind, of) == IF cond THEN Warn(kind, of) ELSE UNCHANGED warnings

\* A group's transactions, in the order of their indices.
Transactions(g) == {i \in DOMAIN txns : txns[i].group = g}

DecomposerInit ==
  /\ read = <<>> /\ groups = <<>> /\ txns = <<>> /\ warnings = <<>>
  /\ openGroup = 0 /\ openTxn = 0
  /\ declaredGroupCount = NoCount
  /\ outcome = "reading"

\* The text must begin with an ISA that is whole and has a control number; an
\* ISA cut short is here one whose thirteenth element is missing.
BadStart(s) == read = <<>> /\ (s.tag # "ISA" \/ Ev(s, 13) = NoText)

Reject(s) ==
  /\ BadStart(s)
  /\ outcome' = IF s.tag # "ISA" THEN "NOT_X12" ELSE "MALFORMED"
  /\ UNCHANGED tree

ReadISA(s) == s.tag = "ISA" /\ UNCHANGED tree

ReadGS(s) ==
  /\ s.tag = "GS"
  /\ groups' = Append(groups, [controlNumber |-> Ev(s, 6), declared |-> NoCount])
  /\ openGroup' = Len(groups) + 1
  /\ UNCHANGED <<txns, openTxn, declaredGroupCount, warnings>>

ReadGE(s) ==
  /\ s.tag = "GE"
  /\ LET n == ParseCount(Ev(s, 1))
     IN IF openGroup = 0
        THEN /\ Warn("GE without GS", NoText)
             /\ UNCHANGED <<groups, openGroup>>
        ELSE /\ groups' = [groups EXCEPT ![openGroup].declared = n]
             /\ WarnIf(n # NoCount /\ n # Cardinality(Transactions(openGroup)),
                       "GE01", groups[openGroup].controlNumber)
             /\ openGroup' = 0
  /\ UNCHANGED <<txns, openTxn, declaredGroupCount>>

ReadST(s) ==
  /\ s.tag = "ST"
  /\ txns' = Append(txns, [transactionSetId |-> Ev(s, 1), controlNumber |-> Ev(s, 2),
                           group |-> openGroup, declared |-> NoCount,
                           segmentCount |-> 0, segments |-> <<s>>])
  /\ openTxn' = Len(txns) + 1
  /\ WarnIf(openGroup = 0, "ST outside GS", Ev(s, 1))
  /\ UNCHANGED <<groups, openGroup, declaredGroupCount>>

Push(s) ==
  [txns EXCEPT ![openTxn].segments = Append(@, s),
               ![openTxn].segmentCount = Len(txns[openTxn].segments) + 1]

ReadSE(s) ==
  /\ s.tag = "SE"
  /\ IF openTxn = 0
     THEN Warn("SE without ST", NoText) /\ UNCHANGED <<txns, openTxn>>
     ELSE LET t == txns[openTxn]
              n == ParseCount(Ev(s, 1))
              actual == Len(t.segments) + 1
              count == IF n # NoCount /\ n # actual
                       THEN <<[kind |-> "SE01", of |-> t.controlNumber]>> ELSE <<>>
              control == IF Ev(s, 2) # t.controlNumber
                         THEN <<[kind |-> "SE02", of |-> t.controlNumber]>> ELSE <<>>
          IN /\ txns' = [Push(s) EXCEPT ![openTxn].declared = n]
             /\ warnings' = warnings \o count \o control
             /\ openTxn' = 0
  /\ UNCHANGED <<groups, openGroup, declaredGroupCount>>

ReadIEA(s) ==
  /\ s.tag = "IEA"
  /\ LET n == ParseCount(Ev(s, 1))
     IN /\ declaredGroupCount' = n
        /\ WarnIf(n # NoCount /\ n # Len(groups), "IEA01", NoText)
  /\ UNCHANGED <<groups, txns, openGroup, openTxn>>

\* A segment outside any transaction dropped without a word.
ReadOtherQuiet(s) ==
  /\ s.tag \notin {"ISA", "GS", "GE", "ST", "SE", "IEA"}
  /\ IF openTxn = 0 THEN UNCHANGED <<txns, warnings>>
     ELSE txns' = Push(s) /\ UNCHANGED warnings
  /\ UNCHANGED <<groups, openGroup, openTxn, declaredGroupCount>>

ReadOther(s) ==
  /\ s.tag \notin {"ISA", "GS", "GE", "ST", "SE", "IEA"}
  /\ IF openTxn = 0
     THEN Warn("ignored", s.tag) /\ UNCHANGED txns
     ELSE txns' = Push(s) /\ UNCHANGED warnings
  /\ UNCHANGED <<groups, openGroup, openTxn, declaredGroupCount>>

ReadSegment(s) ==
  /\ ~BadStart(s)
  /\ \/ ReadISA(s)
     \/ ReadGS(s)
     \/ ReadGE(s)
     \/ ReadST(s)
     \/ ReadSE(s)
     \/ ReadIEA(s)
     \/ ReadOther(s)
  /\ UNCHANGED outcome

\* After the last segment: what is still open is warned of.
Finish ==
  /\ outcome' = "done"
  /\ warnings' = warnings
       \o (IF openTxn # 0 THEN <<[kind |-> "open ST", of |-> txns[openTxn].controlNumber]>>
                          ELSE <<>>)
       \o (IF openGroup # 0 THEN <<[kind |-> "open GS", of |-> groups[openGroup].controlNumber]>>
                            ELSE <<>>)
  /\ UNCHANGED <<read, groups, txns, openGroup, openTxn, declaredGroupCount>>

\* extractEnvelopeIds, over the same segments: the ISA's control number and the
\* control number of the first GS that has elements at all.
EnvelopeIds(file) ==
  LET gs == {n \in DOMAIN file : file[n].tag = "GS" /\ file[n].elements # <<>>}
  IN [isa |-> Ev(file[1], 13),
      gs  |-> IF gs = {} THEN NoText ELSE Ev(file[Min(gs)], 6)]
-----------------------------------------------------------------------------
parserVars == <<read, groups, txns, openGroup, openTxn, declaredGroupCount, warnings,
                outcome, source, ackTxn, ackAt, acked>>

ackVars == <<ackTxn, ackAt, acked>>

Shape(kind, order, file) == [kind |-> kind, order |-> order, file |-> file]

Sources ==
  {Shape("sample", o, f) : o \in DOMAIN SampleOrders, f \in 1..6}
  \cup {Shape("any", 0, 0), Shape("ack", 0, 0)}
  \cup {Shape(set, 0, 0) : set \in Documents}

ParserInit ==
  /\ DecomposerInit
  /\ source \in {s \in Sources : \/ s.kind # "sample"
                                 \/ s.file \in DOMAIN SampleOrders[s.order].files}
  /\ ackTxn = 0 /\ ackAt = 0 /\ acked = AckStart

Opening(set) == <<FromVendor("900000001"), Gs("XX", "1"), St(set, "0001")>>

\* The segments that may come next, and whether the transmission may end here.
Upcoming ==
  LET n == Len(read)
      drawn(opening, alphabet, most) ==
        IF n < Len(opening) THEN {opening[n + 1]}
        ELSE IF n < Len(opening) + most THEN alphabet ELSE {}
  IN CASE source.kind = "sample" ->
            LET file == SampleOrders[source.order].files[source.file]
            IN IF n < Len(file) THEN {file[n + 1]} ELSE {}
       [] source.kind = "any" ->
            drawn(<<>>, IF n = 0 THEN {FromVendor("900000001"), FromVendor(NoText), Seg("HELLO", <<>>)}
                        ELSE EnvelopeSegments, MaxEnvelope)
       [] source.kind = "ack" -> drawn(Opening("997"), AckSegments, MaxAck)
       [] OTHER -> drawn(Opening(source.kind), DocumentSegments(source.kind), MaxDocument)

Read ==
  /\ outcome = "reading"
  /\ \E s \in Upcoming :
       /\ Reject(s) \/ ReadSegment(s)
       /\ read' = Append(read, s)
  /\ UNCHANGED <<source, ackVars>>

End ==
  /\ outcome = "reading"
  /\ read # <<>>
  /\ source.kind = "sample" => Upcoming = {}
  /\ Finish
  /\ UNCHANGED <<source, ackVars>>

Parsed == outcome = "done"

\* The transactions that hang on a group.
InTree == {i \in DOMAIN txns : txns[i].group # 0}

AckRead == ackTxn # 0 /\ ackAt = Len(txns[ackTxn].segments)

\* extractAck: readAck is called for the 997s and 999s of the tree, one by one.
ReadAck ==
  /\ Parsed
  /\ ackTxn = 0 \/ AckRead
  /\ \E i \in InTree : /\ txns[i].transactionSetId \in AckSets
                       /\ ackTxn' = i
  /\ ackAt' = 0
  /\ acked' = AckStart
  /\ UNCHANGED <<read, tree, outcome, source>>

ReadAckSegment ==
  /\ Parsed
  /\ ackTxn # 0 /\ ~AckRead
  /\ ackAt' = ackAt + 1
  /\ acked' = AckSegment(acked, txns[ackTxn].segments[ackAt + 1])
  /\ UNCHANGED <<read, tree, outcome, source, ackTxn>>

ParserNext == Read \/ End \/ ReadAck \/ ReadAckSegment

ParserSpec == ParserInit /\ [][ParserNext]_parserVars

-----------------------------------------------------------------------------
\* The warnings of a segment that finds no place in the tree.
Misplaced == {"ST outside GS", "SE without ST", "ignored"}

Warned(kinds) == \E i \in DOMAIN warnings : warnings[i].kind \in kinds

\* The body of the transmission is what is not of its envelope, by position; a
\* place <<i, k>> of the stored tree is the k-th segment of transaction i.
Body == {n \in DOMAIN read : read[n].tag \notin {"ISA", "GS", "GE", "IEA"}}

Places == UNION {{<<i, k>> : k \in DOMAIN txns[i].segments} : i \in InTree}

\* The tree is read group by group, transaction by transaction.
UpTo(q, p) ==
  LET g == txns[q[1]].group
      h == txns[p[1]].group
  IN \/ g < h
     \/ g = h /\ q[1] < p[1]
     \/ q[1] = p[1] /\ q[2] <= p[2]

RankInBody(n) == Cardinality({m \in Body : m <= n})

RankInTree(p) == Cardinality({q \in Places : UpTo(q, p)})

(* A transmission parsed without a word about misplaced segments is in the   *)
(* stored tree whole: the transactions of the groups, one after the other,   *)
(* hold every segment that is not part of the envelope, in the order sent    *)
(* (decomposeInterchange, decompose.ts:123).                                 *)
NothingLostSilently ==
  Parsed /\ ~Warned(Misplaced) =>
    /\ Cardinality(Places) = Cardinality(Body)
    /\ \A n \in Body : \A p \in Places :
         RankInBody(n) = RankInTree(p) => txns[p[1]].segments[p[2]] = read[n]

(* The counts a file declares are held against what is stored: a file closed *)
(* without a warning names no number that disagrees with the tree, unless a  *)
(* transaction was cut off by the next ST before its own SE.                 *)
CountsHold ==
  Parsed /\ warnings = <<>> =>
    /\ \A i \in InTree :
         LET t == txns[i]
         IN \/ t.declared \in {NoCount, Len(t.segments)} /\ Last(t.segments).tag = "SE"
            \/ Last(t.segments).tag # "SE" /\ t.declared = NoCount
    /\ \A g \in DOMAIN groups :
         groups[g].declared \in {NoCount, Cardinality(Transactions(g))}

(* Two readers of one file agree: the group control number                   *)
(* extractEnvelopeIds records on arrival (index.ts:45) is that of the first  *)
(* group of the stored tree that has one, unless a GS carries elements and   *)
(* no control number among them.                                             *)
ReadersAgree ==
  LET mute == {n \in DOMAIN read : /\ read[n].tag = "GS" /\ read[n].elements # <<>>
                                   /\ Ev(read[n], 6) = NoText}
      named == {g \in DOMAIN groups : groups[g].controlNumber # NoText}
  IN Parsed /\ mute = {} =>
       EnvelopeIds(read).gs =
         IF named = {} THEN NoText ELSE groups[Min(named)].controlNumber

(* The stored tree is the file: nothing of it is lost without a warning, the *)
(* counts of an unwarned file hold, and both readers name it alike.          *)
TreeIsTheFile == NothingLostSilently /\ CountsHold /\ ReadersAgree

(* What each AK2 of an acknowledgment was answered, said by position and not *)
(* by flushing, of its first n segments: the segments from an AK2 to the     *)
(* next one are its own; the last AK5 or IK5 among them is its status; each  *)
(* AK3 is an error, and the AK4s that follow it before the next AK3, AK5 or  *)
(* IK5 are its elements.                                                     *)
Rank(S, x) == Cardinality({y \in S : y <= x})

Asked(segs, n) == {i \in 1..n : segs[i].tag = "AK2"}

Own(segs, i, n) == {j \in i + 1..n : \A k \in i + 1..j : segs[k].tag # "AK2"}

Tagged(segs, own, tags) == {j \in own : segs[j].tag \in tags}

Details(segs, j, own) ==
  {k \in Tagged(segs, own, {"AK4"}) :
     k > j /\ \A l \in j + 1..k : segs[l].tag \notin {"AK3", "AK5", "IK5"}}

TellsError(error, segs, j, own) ==
  LET details == Details(segs, j, own)
  IN /\ error.position = Ev(segs[j], 2)
     /\ Len(error.elements) = Cardinality(details)
     /\ \A k \in details : error.elements[Rank(details, k)] = Ev(segs[k], 1)

TellsAnswer(t, segs, i, n) ==
  LET own == Own(segs, i, n)
      answers == Tagged(segs, own, {"AK5", "IK5"})
      errors == Tagged(segs, own, {"AK3"})
  IN /\ t.control = Ev(segs[i], 2)
     /\ answers = {} => t.status = NoText
     /\ \A j \in answers : (\A k \in answers : k <= j) => t.status = Ev(segs[j], 1)
     /\ Len(t.errors) = Cardinality(errors)
     /\ \A j \in errors : TellsError(t.errors[Rank(errors, j)], segs, j, own)

Tells(told, segs, n) ==
  /\ Len(told) = Cardinality(Asked(segs, n))
  /\ \A i \in Asked(segs, n) : TellsAnswer(told[Rank(Asked(segs, n), i)], segs, i, n)

(* readAck (sets.ts:345) attributes every answer and every error to the      *)
(* transaction it is about.                                                  *)
AckTreeFaithful == AckRead => Tells(AckTree(acked), txns[ackTxn].segments, ackAt)

(* Every file the generators write reads back as the document it was written *)
(* as: its documents carry the order's PO number and pass validation, its    *)
(* acknowledgments answer one transaction as they answer the group, and the  *)
(* parser finds nothing wrong but the segment count of the generic 850s,     *)
(* which txn850 (generate-test-edi.mjs:29) writes three too small.           *)
SamplesReadBack ==
  Parsed /\ source.kind = "sample" =>
    /\ \A i \in DOMAIN txns :
         LET t == txns[i]
         IN /\ t.group # 0
            /\ t.transactionSetId \notin AckSets =>
                 /\ BusinessKeys(t).po = SampleOrders[source.order].po
                 /\ "error" \notin ValidateTransaction(t)
            /\ i = ackTxn /\ AckRead =>
                 /\ Len(AckTree(acked)) = 1
                 /\ AckTree(acked)[1].status = AckGroup(t).groupStatus
            /\ t.declared \in {Len(t.segments), Len(t.segments) - 3}
    /\ \A i \in DOMAIN warnings :
         /\ warnings[i].kind = "SE01"
         /\ source.order <= Len(Generated)
         /\ txns[1].transactionSetId = "850"
=============================================================================
