------------------------------- MODULE Search -------------------------------
(***************************************************************************)
(* GET /search?q= (apps/api/src/routes/search.ts, and getLifecycle and     *)
(* resolveSpine of services/lifecycle.ts as it calls them), one step per   *)
(* read of the database.  A hit is an order with the kind of name that     *)
(* found it; a document carries what its transaction and its raw file are  *)
(* found by.                                                               *)
(***************************************************************************)
EXTENDS Gate

CONSTANTS
  Docs,      \* [id, org, po, inv, ship, isa]
  Initial,   \* documents the hub may begin with
  Empty,     \* the empty text
  Take,      \* rows a query returns
  MaxStored, \* bound: documents stored while the model runs
  MaxFaults  \* bound: failures

VARIABLES
  stored, \* the documents of the hub
  extra,  \* how many of them came while the model ran
  faults

hubVars == <<stored, extra, faults>>

\* An id stands for its place in the order of ids; the hub holds finitely many
\* rows; a query takes one at the least (take: 50).
ASSUME SearchAssumption ==
  /\ \A d \in Docs : d.id \in Nat
  /\ \A S \in Initial : S \subseteq Docs /\ IsFiniteSet(S)
  /\ Take \in Nat \ {0}

Reads == {"po", "invoice", "shipment", "raw"}

\* The rows a query of r may see.
Own(r) == Reached(Run(TenantOf(r)), "Transaction", None, stored)

\* findMany with take: the order is the database's.
SomeOf(rows) ==
  {s \in SUBSET rows : Cardinality(s) = Lesser(Take, Cardinality(rows))}

\* resolveSpine by shipment: the first row by id that has an order.
SpineOf(r) ==
  LET rows == {d \in Own(r) : d.ship = r.q /\ d.po # None}
  IN IF rows = {} THEN None ELSE (CHOOSE d \in rows : \A e \in rows : d.id <= e.id).po

\* What is left out as its look-up failed: an order, or None for whatever it was.
Begun == [step |-> "first", hits |-> <<>>, reads |-> {}, left |-> {},
          po |-> {}, invoice |-> {}, shipment |-> {}, raw |-> {}]

Orders(w) == {w.hits[n].po : n \in DOMAIN w.hits}

\* pushLifecycleHit: an order of which the hub has a row is added once.  The
\* fallback of its catch finds the same rows.
Push(r, w, po, kind) ==
  IF po \in Orders(w) \/ \A d \in Own(r) : d.po # po THEN w
  ELSE [w EXCEPT !.hits = Append(@, [po |-> po, kind |-> kind])]

Work(r, w) ==
  /\ Replace(r, [r EXCEPT !.work = w])
  /\ UNCHANGED <<mode, standing, role, now, buckets, sent, stored, extra>>

Searching(r) == r.stage = "in" /\ r.route.url = "/api/search"

\* The tenant's ids and the open alerts are read, then the text is tried as an
\* order.  An empty text is refused.
SearchOrder(r) ==
  /\ Searching(r) /\ r.work = None
  /\ IF r.q = Empty THEN Refuse(r, 400) /\ UNCHANGED <<mode, standing, role, now, buckets, sent, hubVars>>
     ELSE Work(r, [Push(r, Begun, r.q, "po") EXCEPT !.step = "rows"])

\* What a read may find.
Finds(r, what) ==
  CASE what = "po"       -> SomeOf({d \in Own(r) : d.po = r.q})
    [] what = "invoice"  -> SomeOf({d \in Own(r) : d.inv = r.q})
    [] what = "shipment" -> SomeOf({d \in Own(r) : d.po # None /\ d.po = SpineOf(r)})
    [] what = "raw"      -> {{d \in Own(r) : d.isa = r.q}}

AfterReads(got) == IF got = Reads THEN "shipment" ELSE "rows"

Filled(w, what, s) ==
  CASE what = "po"       -> [w EXCEPT !.po = s]
    [] what = "invoice"  -> [w EXCEPT !.invoice = s]
    [] what = "shipment" -> [w EXCEPT !.shipment = s]
    [] what = "raw"      -> [w EXCEPT !.raw = s]

ReadInto(w, what, s) ==
  LET got == w.reads \cup {what}
  IN [Filled(w, what, s) EXCEPT !.reads = got, !.step = AfterReads(got)]

\* The four reads of the Promise.all end in any order.
ReadRows(r, what) ==
  /\ Searching(r) /\ r.work # None
  /\ r.work.step = "rows" /\ what \notin r.work.reads
  /\ \E s \in Finds(r, what) : Work(r, ReadInto(r.work, what, s))

\* The shipment is resolved once more, for its hit.
SearchShipment(r) ==
  /\ Searching(r) /\ r.work # None /\ r.work.step = "shipment"
  /\ LET po == SpineOf(r)
     IN Work(r, [(IF po = None THEN r.work ELSE Push(r, r.work, po, "shipment")) EXCEPT !.step = "invoices"])

Fault == faults < MaxFaults /\ faults' = faults + 1

\* What fails of looking up the shipment is passed over.  It has no rows then;
\* it has no hit, and where its order was known before that failed, the order is
\* taken for seen.
PassesOver(r) ==
  /\ Searching(r) /\ r.work # None
  /\ Fault
  /\ \/ /\ r.work.step = "rows" /\ "shipment" \notin r.work.reads
        /\ Work(r, ReadInto(r.work, "shipment", {}))
     \/ /\ r.work.step = "shipment"
        /\ \E po \in {None} \cup ({SpineOf(r)} \ Orders(r.work)) :
             Work(r, [r.work EXCEPT !.step = "invoices", !.left = {po}])

\* Rows whose order has not been seen.
Unseen(w, rows) == {d \in rows : d.po # None /\ d.po \notin Orders(w) \cup w.left}

\* The rows found by invoice, one after the other, then those found by order.
SearchInvoice(r) ==
  /\ Searching(r) /\ r.work # None /\ r.work.step = "invoices"
  /\ IF Unseen(r.work, r.work.invoice) = {} THEN Work(r, [r.work EXCEPT !.step = "orders"])
     ELSE \E d \in Unseen(r.work, r.work.invoice) : Work(r, Push(r, r.work, d.po, "invoice"))

SearchAgain(r) ==
  /\ Searching(r) /\ r.work # None /\ r.work.step = "orders"
  /\ Work(r, [(IF Unseen(r.work, r.work.po) = {} THEN r.work
               ELSE Push(r, r.work, r.q, "po")) EXCEPT !.step = "send"])

Answered(r) == Searching(r) /\ r.work # None /\ r.work.step = "send"

Answer(r) ==
  [q |-> r.q, hits |-> r.work.hits, raw |-> r.work.raw,
   txns |-> r.work.po \cup r.work.invoice \cup r.work.shipment]

SearchStep(r) ==
  \/ /\ \/ SearchOrder(r)
        \/ \E what \in Reads : ReadRows(r, what)
        \/ SearchShipment(r)
        \/ SearchInvoice(r)
        \/ SearchAgain(r)
     /\ UNCHANGED faults
  \/ PassesOver(r)

\* Another query throws, or the process or the line fails: 500, or no answer.
Fails(r) ==
  /\ r.stage \in {"sent", "verified", "in"}
  /\ Fault
  /\ Refuse(r, 500)
  /\ UNCHANGED <<mode, standing, role, now, buckets, sent, stored, extra>>

\* Ingestion stores a document.
Store(d) ==
  /\ extra < MaxStored /\ d \notin stored
  /\ stored' = stored \cup {d} /\ extra' = extra + 1
  /\ UNCHANGED <<gateVars, faults>>
=============================================================================
