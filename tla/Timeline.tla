------------------------------ MODULE Timeline ------------------------------
(***************************************************************************)
(* What the read side says of stored documents: the timeline of a purchase *)
(* order, its row in the list of orders, the verdict on one transaction    *)
(* (apps/api/src/services/lifecycle.ts, lifecycles.ts, rejection.ts,       *)
(* sla-summary.ts, partners.ts).                                           *)
(*                                                                         *)
(* A document is one transaction with what its interchange and group say   *)
(* of it.  po is the column, told the number its segments carry.  The      *)
(* queries name no order, so wherever the code takes the first row an      *)
(* operator yields the set of rows that may come first.                    *)
(***************************************************************************)
EXTENDS Integers, Sequences, FiniteSets

CONSTANTS
  Null,              \* no value in a column; no row
  Day, Week, Month,  \* the look-back of the detectors
  MinTotal           \* MIN_TOTAL_FOR_SPIKE

ASSUME TimelineAssumption ==
  /\ Null \notin Nat
  /\ Day \in Nat /\ Week \in Nat /\ Month \in Nat /\ Day <= Week /\ Week <= Month
  /\ MinTotal \in Nat

AckSets    == {"997", "999"}
OrphanSets == {"855", "810", "856", "860", "880"}

IsAck(d) == d.set \in AckSets
Kind(set, dir) == [set |-> set, dir |-> dir]

\* computeDirection: which side of the interchange is ours.
ComputeDirection(from, to, ours) ==
  CASE from \in ours /\ to \notin ours -> "outbound"
    [] to \in ours /\ from \notin ours -> "inbound"
    [] OTHER -> "unknown"

\* A stored "unknown" is derived again from today's ids of ours.
EventDirection(d, ours) ==
  IF ours # {} /\ d.dir = "unknown" THEN ComputeDirection(d.from, d.to, ours) ELSE d.dir

StatusFromAk5(code) ==
  CASE code \in {"A", "E", "P"} -> "acknowledged"
    [] code \in {"R", "M"}      -> "rejected"
    [] OTHER                    -> "received"
-----------------------------------------------------------------------------
(* The documents of an order.                                              *)

\* The entries of an acknowledgment that are about d.
Covers(ack, d) ==
  {e \in ack.entries : /\ IsAck(ack) /\ ack.acked = d.group
                       /\ e.set = d.set /\ e.ctl = d.ctl}

PoDocs(docs, po) == {d \in docs : d.po = po}

\* Slip: only rows that went the way of the anchor are looked at.
OrphansOneWay(docs, po, anchor) ==
  {d \in docs : /\ d.po = Null /\ d.told = po /\ d.set \in OrphanSets
                /\ d.from = anchor.from /\ d.to = anchor.to}

\* Rows without the column whose segments name the order, between the two
\* parties of the anchor.
Orphans(docs, po, anchor) ==
  {d \in docs : /\ d.po = Null /\ d.told = po /\ d.set \in OrphanSets
                /\ {d.from, d.to} = {anchor.from, anchor.to}}

\* The row the order is anchored on.
Anchors(docs, po) ==
  LET rows == PoDocs(docs, po)  originals == {d \in rows : ~IsAck(d)}
  IN IF originals # {} THEN originals ELSE rows

Originals(docs, po, anchor) ==
  {d \in PoDocs(docs, po) \cup Orphans(docs, po, anchor) : ~IsAck(d)}

AcksOf(docs, d) == {a \in docs : Covers(a, d) # {}}

\* The documents on the timeline: originals, and the acknowledgments of any.
OnTimeline(docs, po, anchor) ==
  LET own == Originals(docs, po, anchor)
  IN own \cup UNION {AcksOf(docs, d) : d \in own}

\* The statuses an original may show: that of the first acknowledgment.
Statuses(docs, d) ==
  IF AcksOf(docs, d) = {} THEN {"received"}
  ELSE {StatusFromAk5(e.code) : e \in UNION {Covers(a, d) : a \in AcksOf(docs, d)}}

\* findRejectionFor: the transaction page looks for one that rejects.
Rejections(docs, d) ==
  IF IsAck(d) THEN {}
  ELSE {a \in docs : \E e \in Covers(a, d) : e.code \in {"R", "M"}}
-----------------------------------------------------------------------------
(* Partners, flows and gaps.                                               *)

Owned(p) == p.send \cup p.recv

\* resolvePartnerByIsa: a partner that claims the side that is not ours, of
\* whatever status.
Claimants(partner, d, ours) ==
  {i \in DOMAIN partner : \/ d.from \in partner[i].send \ ours
                          \/ d.to \in partner[i].recv \ ours}

StandardFlow == <<Kind("850", "inbound"), Kind("997", "outbound"), Kind("855", "outbound"),
                  Kind("997", "inbound"), Kind("810", "outbound"), Kind("997", "inbound")>>
GroceryFlow  == <<Kind("875", "inbound"), Kind("880", "outbound")>>

DetermineFlow(sets) ==
  IF sets \cap {"875", "880"} # {} THEN "grocery"
  ELSE IF "850" \in sets THEN "standard" ELSE "unknown"

\* The flow of an order and the steps it is held to: those of the partner's
\* first flow whose entry document is there, else the shipped ones.
Flow(sets, flows) ==
  LET fits == {n \in DOMAIN flows : flows[n].entry \in sets}
      first == CHOOSE n \in fits : \A m \in fits : n <= m
  IN IF fits # {} /\ flows[first].name \in {"standard", "grocery"} THEN flows[first].name
     ELSE DetermineFlow(sets)

Seed(sets, flows) ==
  LET fits == {n \in DOMAIN flows : flows[n].entry \in sets}
  IN IF fits # {} THEN flows[CHOOSE n \in fits : \A m \in fits : n <= m].steps
     ELSE CASE DetermineFlow(sets) = "standard" -> StandardFlow
            [] DetermineFlow(sets) = "grocery"  -> GroceryFlow
            [] OTHER                            -> <<>>

Count(seq, k) == Cardinality({n \in DOMAIN seq : seq[n] = k})

\* How many documents of each kind are expected and have not come.
Gaps(events, ours, seed) ==
  LET have(k) == Cardinality({d \in events : Kind(d.set, EventDirection(d, ours)) = k})
      kinds == {seed[n] : n \in DOMAIN seed}
  IN [k \in kinds |-> IF have(k) >= Count(seed, k) THEN 0 ELSE Count(seed, k) - have(k)]

\* The timeline of an order, for the anchor and the partner that came first.
Lifecycle(docs, po, anchor, flows, ours) ==
  LET events == OnTimeline(docs, po, anchor)
      sets == {d.set : d \in events}
  IN [flow |-> Flow(sets, flows), events |-> events,
      steps |-> Seed(sets, flows), gaps |-> Gaps(events, ours, Seed(sets, flows))]

\* summarizeLifecycleEvents: the documents after the first of their kind.
Additional(lc, ours) ==
  Cardinality(lc.events) - Cardinality({Kind(d.set, EventDirection(d, ours)) : d \in lc.events})
-----------------------------------------------------------------------------
(* The SLA of a row.                                                       *)

\* computeSlaSummary: outbound originals that nothing acknowledges, against
\* the first window of their kind.
Overdue(docs, events, ours, windows, now) ==
  {d \in events :
     /\ EventDirection(d, ours) = "outbound"
     /\ IF IsAck(d) THEN d.ak9 \notin {"R", "M"} ELSE AcksOf(docs, d) = {}
     /\ \E n \in DOMAIN windows :
          /\ Kind(windows[n].set, windows[n].dir) = Kind(d.set, "outbound")
          /\ \A m \in 1..(n - 1) : Kind(windows[m].set, windows[m].dir) # Kind(d.set, "outbound")
          /\ now - d.at > windows[n].within}
-----------------------------------------------------------------------------
(* What a detection pass looks for (services/detection.ts), and the figures *)
(* of the same kind that the pages compute for themselves (services/        *)
(* metrics.ts, dashboard.ts).  A pass writes what it finds with createAlert,*)
(* which Alerts models.  Here one document stands for its file.             *)

Recent(docs, now, span) == {d \in docs : now - d.at <= span}
Touches(p, d) == {d.from, d.to} \cap Owned(p) # {}

\* A stored acknowledgment of the set the window expects, or a 999.
Acked(docs, d, w) ==
  \E a \in docs : /\ a.set \in {w.ack, "999"} /\ a.acked = d.group
                  /\ \E e \in a.entries : e.set = d.set /\ e.ctl = d.ctl

\* Slip: a document is the partner's only if the partner sent it.
MissingAcksBySender(docs, p, now) ==
  {d \in Recent(docs, now, Week) :
     /\ d.from \in Owned(p)
     /\ \E n \in DOMAIN p.windows :
          LET w == p.windows[n] IN
          /\ Kind(w.set, w.dir) = Kind(d.set, d.dir)
          /\ now - d.at >= w.within
          /\ ~Acked(docs, d, w)}

\* detectMissingAcks, for one partner.  The direction is the stored one.
MissingAcks(docs, p, now) ==
  {d \in Recent(docs, now, Week) :
     /\ Touches(p, d)
     /\ \E n \in DOMAIN p.windows :
          LET w == p.windows[n] IN
          /\ Kind(w.set, w.dir) = Kind(d.set, d.dir)
          /\ now - d.at >= w.within
          /\ ~Acked(docs, d, w)}
-----------------------------------------------------------------------------
(* Rejections.                                                             *)

Entries(acks) == UNION {{<<a, e>> : e \in a.entries} : a \in acks}
Rejected(acks) == {x \in Entries(acks) : x[2].code \in {"R", "M"}}

Acks(docs) == {d \in docs : IsAck(d)}

\* isSpike, the rates as fractions.
IsSpike(bad, all, recentBad, recentAll) ==
  IF 20 * bad < all
  THEN 10 * (recentBad * all - bad * recentAll) >= recentAll * all /\ recentAll > 0
  ELSE recentBad * all >= 3 * bad * recentAll /\ recentAll > 0

\* detectRejectionSpikes, for one partner: the last day against the month it
\* is part of.
Spikes(docs, p, now) ==
  LET month == {a \in Acks(Recent(docs, now, Month)) : Touches(p, a)}
      day == Recent(month, now, Day)
  IN /\ Owned(p) # {}
     /\ Cardinality(Entries(month)) >= MinTotal
     /\ IsSpike(Cardinality(Rejected(month)), Cardinality(Entries(month)),
                Cardinality(Rejected(day)), Cardinality(Entries(day)))

\* partnerOf: whom the rejection rate of an acknowledgment is charged to.
ChargedTo(a, ours) ==
  IF ours = {} THEN a.from
  ELSE CASE a.from \in ours /\ a.to \notin ours -> a.to
         [] a.to \in ours /\ a.from \notin ours -> a.from
         [] OTHER -> "unknown"

\* getRejectionRate: per counterparty, rejected entries and all entries.
RejectionRate(docs, ours, now, span) ==
  LET acks == Acks(Recent(docs, now, span)) IN
  [id \in {ChargedTo(a, ours) : a \in acks} |->
     LET mine == {a \in acks : ChargedTo(a, ours) = id}
     IN <<Cardinality(Rejected(mine)), Cardinality(Entries(mine))>>]

Latest(ds) == IF ds = {} THEN Null
              ELSE CHOOSE t \in {d.at : d \in ds} : \A d \in ds : d.at <= t

\* A partner's row on the dashboard; of several ids that were charged one counts.
Health(docs, p, ours, now) ==
  LET rates == RejectionRate(docs, ours, now, Month)
      mine == {d \in docs : Touches(p, d)}
  IN [last |-> Latest(mine), lastAck |-> Latest(Acks(mine)),
      rates |-> {rates[id] : id \in Owned(p) \cap DOMAIN rates}]
-----------------------------------------------------------------------------
(* Silence and strangers.                                                  *)

Longest(p) == CHOOSE m \in {p.windows[n].within : n \in DOMAIN p.windows} :
                \A n \in DOMAIN p.windows : p.windows[n].within <= m

\* detectPartnerStaleTraffic: twice the longest window.
PartnerStale(docs, p, now) ==
  /\ p.windows # <<>> /\ Owned(p) # {}
  /\ {d \in Recent(docs, now, 2 * Longest(p)) : Touches(p, d)} = {}

\* detectUnknownIsaSenders: pairs with a side that no active partner lists.
UnknownPairs(docs, active, now) ==
  LET known == UNION {Owned(p) : p \in active} IN
  {<<d.from, d.to>> : d \in {x \in Recent(docs, now, Day) :
                               x.from \notin known \/ x.to \notin known}}
=============================================================================
