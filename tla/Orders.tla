------------------------------- MODULE Orders -------------------------------
(***************************************************************************)
(* The read side at work.  Files are received and, some time later, parsed *)
(* or parsed again (services/parsing.ts); administrators edit partners and *)
(* the tenant's ISA ids; detection passes compare what is stored with the  *)
(* partners' windows (services/detection.ts); somebody pages through the   *)
(* list of orders (services/lifecycles.ts) while all that goes on.         *)
(*                                                                         *)
(* Timeline gives the pure part; a partner is written in one step here,    *)
(* Partners has the races between saves.  Every file holds one             *)
(* transaction, and its time is that of its reception.                     *)
(***************************************************************************)
EXTENDS Timeline

CONSTANTS
  PartnerIds, \* ids of partner rows
  Inputs,     \* the rows an administrator may write
  Catalogue,  \* what may arrive: documents without their time and direction
  OurIds,     \* ISA ids of ours, once configured
  Horizon,    \* bound: the last instant
  MaxFiles,   \* bound: files parsed
  MaxOps      \* bound: saves, passes and walks begun

IsSequence(s) == s \in Seq({s[n] : n \in DOMAIN s})

\* What a file holds is a matter of its bytes; an acknowledgment alone has the
\* columns of one (parsing.ts).  The form's lists are sequences (partners.ts).
ASSUME OrdersAssumption ==
  /\ Horizon \in Nat /\ MaxFiles \in Nat /\ MaxOps \in Nat
  /\ \A f, g \in Catalogue : f.id = g.id => f = g
  /\ \A f \in Catalogue : f.entries # {} => IsAck(f)
  /\ \A row \in Inputs : /\ IsFiniteSet(row.send) /\ IsFiniteSet(row.recv)
                         /\ IsSequence(row.windows) /\ IsSequence(row.flows)
                         /\ \A n \in DOMAIN row.windows : row.windows[n].within \in Nat
                         /\ \A n \in DOMAIN row.flows : IsSequence(row.flows[n].steps)

VARIABLES
  now,
  partner, \* per id: its row, or Null
  ours,    \* the tenant's ourIsaIds
  docs,    \* transactions stored
  pass,    \* a detection pass: the time it goes by, the partners it read
  walk,    \* a reader of the list: the next page, what was shown so far
  ops

orderVars == <<now, partner, ours, docs, pass, walk, ops>>
readers == <<pass, walk, ops>>

NoPass == [at |-> "idle", now |-> 0, rows |-> <<>>]
NoWalk == [at |-> "idle", asc |-> FALSE, page |-> 0, seen |-> {}, want |-> {},
           calm |-> TRUE]

Document(f, at, dir) ==
  [id |-> f.id, set |-> f.set, from |-> f.from, to |-> f.to, group |-> f.group,
   ctl |-> f.ctl, po |-> f.po, told |-> f.told, acked |-> f.acked,
   entries |-> f.entries, ak9 |-> f.ak9, at |-> at, dir |-> dir]

\* Bound: passes and walks, which only read, come one at a time.
Reading == {r \in {pass.at, walk.at} : r # "idle"}

OInit == /\ partner = [i \in PartnerIds |-> Null]
         /\ now = 0 /\ ours = {}
         /\ docs = {}
         /\ pass = NoPass /\ walk = NoWalk /\ ops = 0

Advance == /\ now < Horizon
           /\ now' = now + 1
           /\ UNCHANGED <<ours, docs, readers, partner>>

\* The tenant's own ids are configured; documents keep the direction they have.
SetOurs == /\ ours # OurIds /\ ours' = OurIds
           /\ UNCHANGED <<now, docs, readers, partner>>

\* The write of a partner, created, changed or deleted.
Configure(i, row) == /\ ops < MaxOps /\ partner[i] # row
                     /\ partner' = [partner EXCEPT ![i] = row]
                     /\ ops' = ops + 1
                     /\ UNCHANGED <<now, ours, docs, pass, walk>>

\* History of a walk: no order that was listed moves, no two begin together.
Began(stored, po) == CHOOSE t \in 0..Horizon : /\ \E d \in PoDocs(stored, po) : d.at = t
                                               /\ \A d \in PoDocs(stored, po) : t <= d.at
ListedIn(stored) == {d.po : d \in stored} \ {Null}
Untied(stored) == \A po, qo \in ListedIn(stored) :
                    po # qo => Began(stored, po) # Began(stored, qo)
Calm(old, new) == /\ Untied(new)
                  /\ \A po \in ListedIn(old) : Began(old, po) = Began(new, po)
StillCalm(old, new) == walk.calm /\ (walk.at = "idle" \/ Calm(old, new))

\* A file is parsed at once or (bound: one received at the first instant) long
\* after, by the reconcile at boot; parsed again, it replaces what it stored.
Parse(f, at) ==
  LET stored == {x \in docs : x.id = f.id}
      time == IF stored = {} THEN at ELSE (CHOOSE x \in stored : TRUE).at
      d == Document(f, time, ComputeDirection(f.from, f.to, ours))
  IN /\ stored = {} => Cardinality(docs) < MaxFiles
     /\ docs' = (docs \ stored) \cup {d}
     /\ docs' # docs
     /\ walk' = [walk EXCEPT !.calm = StillCalm(docs, docs')]
     /\ UNCHANGED <<now, ours, pass, ops, partner>>
-----------------------------------------------------------------------------
(* A detection pass: the active partners are read, then each detector      *)
(* queries the documents.                                                  *)

PassBegin ==
  /\ Reading = {} /\ ops < MaxOps
  /\ ops' = ops + 1
  /\ pass' = [at |-> "read", now |-> now,
              rows |-> [i \in {j \in PartnerIds : partner[j] # Null /\ partner[j].active}
                        |-> partner[i]]]
  /\ UNCHANGED <<now, ours, docs, walk, partner>>

\* The alerts of a pass over these partners at time t.
Found(rows, t) ==
  LET ids == DOMAIN rows IN
  (UNION {{<<"MISSING_ACK", i, d.id>> : d \in MissingAcks(docs, rows[i], t)} : i \in ids})
  \cup {<<"REJECTION_RATE_SPIKE", i>> : i \in {j \in ids : Spikes(docs, rows[j], t)}}
  \cup {<<"STALE_TRAFFIC", i>> : i \in {j \in ids : PartnerStale(docs, rows[j], t)}}
  \cup {<<"UNKNOWN_ISA", u>> : u \in UnknownPairs(docs, {rows[i] : i \in ids}, t)}

\* The detectors query the documents and hand what they find to createAlert.
PassEnd == /\ pass.at = "read"
           /\ pass' = NoPass
           /\ UNCHANGED <<now, ours, docs, walk, ops, partner>>
-----------------------------------------------------------------------------
(* Walking the list, a page of one order after the other.                  *)

\* Slip: orders are placed by their last activity.
LastActivities ==
  [po \in {d.po : d \in docs} \ {Null} |->
     CHOOSE t \in 0..Horizon : /\ \E d \in PoDocs(docs, po) : d.at = t
                               /\ \A d \in PoDocs(docs, po) : d.at <= t]

\* An order starts with the earliest file that names it in the column.
Starts ==
  [po \in {d.po : d \in docs} \ {Null} |->
     CHOOSE t \in 0..Horizon : /\ \E d \in PoDocs(docs, po) : d.at = t
                               /\ \A d \in PoDocs(docs, po) : t <= d.at]

\* The orders that come before this one, and those that start with it.
Ahead(po, asc) ==
  {qo \in DOMAIN Starts : IF asc THEN Starts[qo] < Starts[po] ELSE Starts[qo] > Starts[po]}
Level(po) == {qo \in DOMAIN Starts : Starts[qo] = Starts[po]}

\* The orders that may be on page n: those of one start come in any order.
OnPage(n, asc) ==
  {po \in DOMAIN Starts : /\ Cardinality(Ahead(po, asc)) <= n
                          /\ n < Cardinality(Ahead(po, asc) \cup Level(po))}

WalkBegin(asc) ==
  /\ Reading = {} /\ ops < MaxOps
  /\ ops' = ops + 1
  /\ walk' = [at |-> "walking", asc |-> asc, page |-> 0, seen |-> {},
              want |-> ListedIn(docs), calm |-> Untied(docs)]
  /\ UNCHANGED <<now, ours, docs, pass, partner>>

WalkPage ==
  /\ walk.at = "walking"
  /\ \E po \in OnPage(walk.page, walk.asc) :
       walk' = [at |-> "walking", asc |-> walk.asc, page |-> walk.page + 1,
                seen |-> walk.seen \cup {po}, want |-> walk.want,
                calm |-> walk.calm]
  /\ UNCHANGED <<now, ours, docs, pass, ops, partner>>

WalkEnd ==
  /\ walk.at = "walking" /\ OnPage(walk.page, walk.asc) = {}
  /\ walk' = NoWalk
  /\ UNCHANGED <<now, ours, docs, pass, ops, partner>>

ONext == \/ Advance \/ SetOurs
         \/ \E i \in PartnerIds, row \in Inputs \cup {Null} : Configure(i, row)
         \/ \E f \in Catalogue, at \in {0, now} : Parse(f, at)
         \/ PassBegin \/ PassEnd
         \/ \E asc \in BOOLEAN : WalkBegin(asc)
         \/ WalkPage \/ WalkEnd

OSpec == OInit /\ [][ONext]_orderVars
-----------------------------------------------------------------------------
Pos == {f.po : f \in Catalogue} \ {Null}

Rows == [i \in {j \in PartnerIds : partner[j] # Null} |-> partner[i]]

OverdueRaised ==
  \A po \in Pos : \A anchor \in Anchors(docs, po) :
  \A i \in Claimants(pass.rows, anchor, ours) :
  \A d \in Overdue(docs, Originals(docs, po, anchor), ours, pass.rows[i].windows, pass.now) :
    (Touches(pass.rows[i], d) /\ d.dir # "unknown" /\ pass.now - d.at <= Week)
      => <<"MISSING_ACK", i, d.id>> \in Found(pass.rows, pass.now)

\* Every acknowledgment of the month is between one of our ids and another's.
AllCharged == "unknown" \notin DOMAIN RejectionRate(docs, ours, pass.now, Month)

RatesShown ==
  \A i \in DOMAIN pass.rows :
    LET p == pass.rows[i]
        acks == {a \in Acks(Recent(docs, pass.now, Month)) : Touches(p, a)}
        health == Health(docs, p, ours, pass.now)
    IN /\ (ours # {} /\ Cardinality(Owned(p)) = 1 /\ AllCharged) =>
            health.rates \subseteq {<<Cardinality(Rejected(acks)), Cardinality(Entries(acks))>>}
       /\ (p.windows # <<>> /\ Owned(p) # {}) =>
            (PartnerStale(docs, p, pass.now) <=>
               (health.last = Null \/ pass.now - health.last > 2 * Longest(p)))

\* The detectors and the pages compute the same things apart, and agree.  An
\* original that the list of orders shows overdue (sla-summary.ts) is found by
\* the pass that runs at that moment (detection.ts), for an active partner that
\* claims the order and has an id in the document, while the direction was
\* known when it was parsed and the document is not older than a week.  And on
\* the dashboard (dashboard.ts, metrics.ts) a partner with one id is charged
\* with what the spike detector counts, unless acknowledgments between strangers
\* are stored, and of the partners with an id and a window the one a pass calls
\* silent is the one whose last file is that old.
DetectorsAgree == [][PassEnd => OverdueRaised /\ RatesShown]_orderVars

\* Storing a document only completes an order (lifecycle.ts): as long as the
\* order is between two parties, no original leaves its timeline, and unless the
\* order is held to other steps no more of any step is missing and no fewer
\* documents are additional; and a rejection stays, on the page of the document
\* (rejection.ts) and as what its timeline may show.  That holds whichever rows the queries return first.
ArrivalsOnlyComplete ==
  [][Cardinality(docs') > Cardinality(docs) =>
      /\ \A d \in docs : Rejections(docs, d) # {} =>
           (Rejections(docs', d) # {} /\ "rejected" \in Statuses(docs', d))
      /\ \A po \in Pos :
        LET parties == {{d.from, d.to} : d \in PoDocs(docs', po)} IN
        Cardinality(parties) = 1 =>
          \A a \in Anchors(docs, po), b \in Anchors(docs', po) :
            /\ {d.id : d \in Originals(docs, po, a)} \subseteq {d.id : d \in Originals(docs', po, b)}
            /\ \A flows \in {<<>>} \cup {partner[i].flows : i \in Claimants(Rows, a, ours)} :
               LET lc == Lifecycle(docs, po, a, flows, ours)
                   new == Lifecycle(docs', po, b, flows, ours)
               IN (ours # {} /\ lc.steps = new.steps)
                    => /\ \A k \in DOMAIN lc.gaps : new.gaps[k] <= lc.gaps[k]
                       /\ Additional(lc, ours) <= Additional(new, ours)]_orderVars

\* A reader who turns every page of the list sees every order that was there
\* when they began (lifecycles.ts), unless two orders started in one instant,
\* or a file received earlier was parsed meanwhile and moved an order.
WalkSeesAll ==
  [][(walk.calm /\ walk.at = "walking" /\ walk'.at = "idle") => walk.want \subseteq walk.seen]_orderVars
=============================================================================
