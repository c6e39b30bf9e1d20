------------------------------- MODULE Finder -------------------------------
(***************************************************************************)
(* An operator looks for documents while others use the hub: the command   *)
(* palette, the search box and the search page of one tab                  *)
(* (apps/web/src/components/CommandPalette.tsx, SearchBox.tsx,             *)
(* pages/SearchPage.tsx), the requests they send among those of other      *)
(* callers, the gate, the search and the documents that come in            *)
(* (apps/api/src/server.ts registers them in this order).                  *)
(*                                                                         *)
(* A screen that asks the hub observes a key of the query cache; what is   *)
(* observed and absent, failed or stale is fetched, once at a time.  The   *)
(* debounce is a timer that may fire while it is armed.                    *)
(***************************************************************************)
EXTENDS Search

CONSTANTS
  Texts,    \* what is typed, the empty text among them
  Lower,    \* a text in lower case
  Short,    \* texts of fewer than two characters
  PagesFor, \* per text in lower case: the pages it leaves, in their order
  Home, Member, \* the tab's organization and user
  Others,   \* what other callers send
  MaxTyped  \* bound: texts typed

\* A text is never the mark for none.  The empty text is one, and is its own
\* lower case.
ASSUME FinderAssumption ==
  /\ Empty \in Texts /\ None \notin Texts
  /\ Lower \in [Texts -> Texts] /\ Lower[Empty] = Empty
  /\ \A o \in Others : o.q # None

VARIABLES
  open, text, debounced, timer,
  page,   \* the text in the address of the search page, None on another page
  cache,  \* per key: the last answer, whether the last fetch failed, its age
  typed

tabVars == <<open, text, debounced, timer, page, cache, typed>>

ServerSame == UNCHANGED <<mode, standing, role, now, buckets, hubVars>>

Type == typed < MaxTyped /\ typed' = typed + 1

PaletteKey(q) == [list |-> "palette-search", q |-> q]
PageKey(q)    == [list |-> "search", q |-> q]

Nothing == [q |-> Empty, hits |-> <<>>, txns |-> {}, raw |-> {}]

Entry(k) == IF k \in DOMAIN cache THEN cache[k]
            ELSE [data |-> Nothing, failed |-> FALSE, stale |-> TRUE, there |-> {}]

UnderWay(k) == \E r \in requests : r.by = k

Operator == [ip |-> Home, cred |-> "good", org |-> Home, user |-> Member]
SearchRoute == [url |-> "/api/search", method |-> "GET", requires |-> "viewer"]

FetchOf(k, q, tries) ==
  Request(k, tries, Operator, SearchRoute, q, stored)

\* The key k begins to be observed, for the text q: unless what the cache has
\* is fresh, or under way, it is fetched.
Observe(k, q) ==
  /\ ServerSame
  /\ IF UnderWay(k) \/ ~Entry(k).stale THEN UNCHANGED <<requests, sent>>
     ELSE /\ sent < MaxRequests /\ sent' = sent + 1
          /\ requests' = requests \cup {FetchOf(k, q, 1)}

PaletteInit ==
  /\ open = FALSE /\ text = Empty /\ debounced = Empty /\ timer = FALSE
  /\ page = None /\ cache = <<>> /\ typed = 0
-----------------------------------------------------------------------------
\* flatItems: the pages by the text of this moment, the results by the
\* debounced one.  The arrows and the pointer may select any of them.
Results == IF debounced \in Short THEN Nothing ELSE Entry(PaletteKey(debounced)).data

Items ==
  LET item(kind, name, q) == [kind |-> kind, name |-> name, q |-> q]
      a == Results
  IN {item("page", p, Empty) : p \in PagesFor[Lower[text]]}
       \cup {item(a.hits[n].kind, a.hits[n].po, a.q) : n \in DOMAIN a.hits}
       \cup {item("transaction", d.id, a.q) : d \in a.txns}
       \cup {item("raw", d.id, a.q) : d \in a.raw}

\* A closed palette forgets what was typed; a timer that still fires finds
\* nothing to change.
Closed == open' = FALSE /\ text' = Empty /\ debounced' = Empty /\ timer' = FALSE

\* Ctrl+K, and Escape or a click beside the palette.
Toggle ==
  /\ \/ open /\ Closed /\ UNCHANGED typed
     \/ ~open /\ Type /\ open' = TRUE /\ UNCHANGED <<text, debounced, timer>>
  /\ UNCHANGED <<page, cache, gateVars, hubVars>>

TypeText(t) ==
  /\ open /\ t # text /\ Type
  /\ text' = t /\ timer' = TRUE
  /\ UNCHANGED <<open, debounced, page, cache, gateVars, hubVars>>

\* 180 ms after the last key.
Debounce ==
  /\ timer
  /\ timer' = FALSE /\ debounced' = Lower[text]
  /\ IF debounced' = debounced \/ debounced' \in Short THEN UNCHANGED <<gateVars, hubVars>>
     ELSE Observe(PaletteKey(debounced'), debounced')
  /\ UNCHANGED <<open, text, page, cache, typed>>

\* Enter or a click: another page than the search page is opened.
Activate(item) ==
  /\ open /\ item \in Items
  /\ page' = None
  /\ Closed
  /\ UNCHANGED <<cache, typed, gateVars, hubVars>>

\* The search box of the header goes to the search page.
Submit(t) ==
  /\ ~open /\ t # Empty /\ t # page /\ Type
  /\ page' = t
  /\ Observe(PageKey(t), t)
  /\ UNCHANGED <<open, text, debounced, timer, cache>>

\* The Retry button of the search page.
Retry ==
  /\ ~open /\ page # None /\ Entry(PageKey(page)).failed /\ ~UnderWay(PageKey(page))
  /\ Observe(PageKey(page), page)
  /\ UNCHANGED tabVars

\* Thirty seconds after its answer an entry of the palette is stale.
Age(k) ==
  /\ k \in DOMAIN cache /\ ~cache[k].stale
  /\ cache' = [cache EXCEPT ![k].stale = TRUE]
  /\ UNCHANGED <<open, text, debounced, timer, page, typed, gateVars, hubVars>>

Put(k, entry) == cache' = [x \in DOMAIN cache \cup {k} |-> IF x = k THEN entry ELSE cache[x]]

\* The answer reaches the tab.
Land(r) ==
  /\ r.by # None /\ Answered(r)
  /\ Put(r.by, [data |-> Answer(r), failed |-> FALSE, there |-> r.there,
                stale |-> r.by.list = "search"])
  /\ requests' = requests \ {r}
  /\ ServerSame
  /\ UNCHANGED <<sent, open, text, debounced, timer, page, typed>>

\* A failure does: the page's query is tried once more, the palette's is not.
LandFailure(r) ==
  /\ r.by # None /\ r.stage = "refused"
  /\ IF r.by.list = "search" /\ r.tries = 1
     THEN /\ sent < MaxRequests /\ sent' = sent + 1
          /\ requests' = (requests \ {r}) \cup {FetchOf(r.by, r.q, 2)}
          /\ UNCHANGED cache
     ELSE /\ Put(r.by, [Entry(r.by) EXCEPT !.failed = TRUE, !.stale = TRUE, !.there = r.there])
          /\ requests' = requests \ {r} /\ UNCHANGED sent
  /\ ServerSame
  /\ UNCHANGED <<open, text, debounced, timer, page, typed>>
-----------------------------------------------------------------------------
\* A first answer is awaited.
Loading(k) == UnderWay(k) /\ Entry(k).data = Nothing

\* "No matches." in the palette: it does not look at the query's error.
PaletteSaysNone ==
  /\ open /\ Items = {}
  /\ debounced \notin Short /\ ~Loading(PaletteKey(debounced))

NoneFor(k) ==
  LET a == Entry(k).data IN ~Loading(k) /\ a.hits = <<>> /\ a.txns = {} /\ a.raw = {}

\* "No matches" on the search page.
PageSaysNone == page # None /\ NoneFor(PageKey(page)) /\ ~Entry(PageKey(page)).failed
-----------------------------------------------------------------------------
vars == <<gateVars, hubVars, tabVars>>

Init ==
  /\ mode \in {"clerk", "lan", "dev", "bare"}
  /\ standing \in [Tenants -> {"active", "deleted", "unknown"}]
  /\ role \in [Users -> [Tenants -> {"viewer", "ops", "admin", None}]]
  /\ now = 0 /\ buckets = <<>> /\ requests = {} /\ sent = 0
  /\ stored \in Initial /\ extra = 0 /\ faults = 0
  /\ PaletteInit

\* Another caller's request.
OtherSends(o) ==
  /\ sent < MaxRequests /\ sent' = sent + 1
  /\ requests' = requests \cup {Request(None, 1, o, o.route, o.q, stored)}
  /\ ServerSame /\ UNCHANGED tabVars

\* It has been answered.
OtherDone(r) ==
  /\ r.by = None
  /\ \/ r.stage = "refused"
     \/ r.stage = "in" /\ r.route.url # "/api/search"
     \/ Answered(r)
  /\ requests' = requests \ {r}
  /\ ServerSame /\ UNCHANGED <<sent, tabVars>>

Server(r) == (OnRequest(r) \/ LookUp(r) \/ PreHandler(r)) /\ UNCHANGED <<hubVars, tabVars>>
Handler(r) == SearchStep(r) /\ UNCHANGED tabVars

OthersNext == \E o \in Others : OtherSends(o)

HubNext ==
  \/ \E r \in requests : OtherDone(r) \/ Server(r) \/ Handler(r)
  \/ \E r \in requests : Fails(r) /\ UNCHANGED tabVars
  \/ \E d \in Docs : Store(d) /\ UNCHANGED tabVars
  \/ Tick /\ UNCHANGED <<hubVars, tabVars>>

TabNext ==
  \/ \E r \in requests : Land(r) \/ LandFailure(r)
  \/ Toggle \/ Debounce \/ Retry
  \/ \E t \in Texts : TypeText(t) \/ Submit(t)
  \/ \E item \in Items : Activate(item)
  \/ \E k \in DOMAIN cache : Age(k)

Next == OthersNext \/ HubNext \/ TabNext

Spec == Init /\ [][Next]_vars
-----------------------------------------------------------------------------
\* The tenant a caller may ask about: that of its organization under Clerk,
\* else the one of the installation.
TenantMeant(r) == IF mode = "clerk" THEN r.org ELSE Pilot

\* However the steps of requests interleave, an answer is made of rows of the
\* caller's tenant only, and leaves none of those out that were stored when the
\* request was sent and that the text names by order, invoice or ISA number:
\* neither the row nor its order, each order once; an order of a shipment it
\* names is there too.  A query that finds more rows than it takes is excused;
\* and where looking up the shipment failed, which the answer does not tell, its
\* order may be missing, even one that the text names by invoice as well
\* (routes/search.ts:119-128, 137-148).
WholeAnswers ==
  \A r \in requests : Answered(r) =>
    LET a == Answer(r)
        mine == {d \in stored : d.org = TenantMeant(r)}
        there == {d \in r.there : d.org = TenantMeant(r)}
        orders == {a.hits[n].po : n \in DOMAIN a.hits}
        few(rows) == Cardinality(rows) <= Take
    IN /\ a.txns \cup a.raw \subseteq mine
       /\ orders \subseteq {d.po : d \in mine}
       /\ Cardinality(orders) = Len(a.hits)
       /\ few({d \in mine : d.po = r.q}) =>
            \A d \in there : d.po = r.q => d \in a.txns /\ d.po \in orders
       /\ few({d \in mine : d.inv = r.q}) =>
            \A d \in there : d.inv = r.q => d \in a.txns /\ (d.po # None => d.po \in orders \cup r.work.left)
       /\ \A d \in there : d.isa = r.q => d \in a.raw
       /\ (\E d \in there : d.ship = r.q /\ d.po # None) /\ r.work.left = {} =>
            \E d \in mine : d.ship = r.q /\ d.po \in orders

\* In no stretch of time does a bucket let through more than it holds and what
\* is refilled meanwhile, and a caller that waits as long as it was told is let
\* through unless another took the token.  A bucket that was pushed out and
\* begun anew is another bucket.
BudgetKept ==
  \A i \in DOMAIN buckets :
    LET b == buckets[i]
    IN /\ \A m, n \in DOMAIN b.passes :
            m <= n => (n - m + 1) * PerToken[i[1]] <= Full(i[1]) + b.passes[n] - b.passes[m]
       /\ b.due # None /\ now >= b.due => Allowed(i)

\* Where the search page says that nothing matches, its last answer left out no
\* document of the tenant that was stored before it was asked for and is named by
\* the text; of the palette this holds of the text in lower case once the timer has
\* run out, unless its fetch failed, of which it does not speak.
NothingMeansNothing ==
  LET named(k, q) == \E d \in Entry(k).there : d.org = TenantMeant(Operator) /\ (d.po = q \/ d.inv = q \/ d.isa = q)
  IN /\ PageSaysNone => ~named(PageKey(page), page)
     /\ PaletteSaysNone /\ ~timer =>
          \/ Entry(PaletteKey(debounced)).failed
          \/ ~named(PaletteKey(Lower[text]), Lower[text])

\* What the hub answers, and what the tab says of it.
AnswersAreWhole == WholeAnswers /\ NothingMeansNothing
=============================================================================
