----------------------------- MODULE QueryCache -----------------------------
(***************************************************************************)
(* The queries of one browser tab: a cache by key, the fetches under way,  *)
(* and the organization they are made for (apps/web/src/lib/api.ts,        *)
(* lib/useTenantQuery.ts, lib/useRole.tsx, components/OrgCacheReset.tsx,   *)
(* AuthBridge.tsx).                                                        *)
(*                                                                         *)
(* The cache is TanStack Query's, with what main.tsx asks of it: an entry  *)
(* is shown while its key is observed, is stale at once, and is fetched    *)
(* anew when its key begins to be observed or is invalidated.  The token   *)
(* of a request is that of Clerk's organization when the request is made;  *)
(* the key is made of the organization that was rendered last.             *)
(***************************************************************************)
EXTENDS Naturals, FiniteSets

CONSTANTS
  Orgs,
  None,
  MaxFaults, \* bound: requests that fail or whose answer is lost
  MaxSteps   \* bound: what the operator does

VARIABLES
  token,    \* the organization of Clerk's session
  org,      \* the organization that was rendered
  ready,    \* GET /me has succeeded for org, and the pages are shown
  cache,    \* per key that has been fetched: what came of it
  fetches,
  faults,
  count     \* the operator's doings, which number them

tabVars == <<token, org, ready, cache, fetches>>

Step == count < MaxSteps /\ count' = count + 1

Fault == faults < MaxFaults /\ faults' = faults + 1

\* Slip: the key names the list and forgets what was asked of it.
KeyOfList(list, ask) == [org |-> org, list |-> list, ask |-> None]

\* useTenantQueryKey.
Key(list, ask) == [org |-> org, list |-> list, ask |-> ask]

Query(list, ask) == [key |-> Key(list, ask), ask |-> ask]

Fetch(q) == [key |-> q.key, ask |-> q.ask, from |-> token, data |-> None, missed |-> {}]

\* The queries that begin to be observed are fetched, unless they are already.
With(fs, newly) == fs \cup {Fetch(q) : q \in {x \in newly : \A f \in fs : f.key # x.key}}

Observe(newly) == fetches' = With(fetches, newly)

CacheInit == /\ token \in Orgs /\ org = token /\ ready = FALSE
             /\ cache = <<>> /\ fetches = {}
             /\ faults = 0 /\ count = 0
-----------------------------------------------------------------------------
\* The server answers for the organization of the token.
ServeFetch(f, data) ==
  /\ f.data = None
  /\ fetches' = (fetches \ {f}) \cup {[f EXCEPT !.data = data]}
  /\ UNCHANGED <<token, org, ready, cache, faults, count>>

Put(k, entry) == cache' = [x \in DOMAIN cache \cup {k} |-> IF x = k THEN entry ELSE cache[x]]

Land(f) ==
  /\ f.data # None
  /\ Put(f.key, [data |-> f.data, failed |-> FALSE, missed |-> f.missed])
  /\ UNCHANGED <<token, org, ready, faults, count>>

\* The last retry failed too: the page shows an error, the data stay.
FetchFails(f) ==
  /\ Fault
  /\ fetches' = fetches \ {f}
  /\ Put(f.key, [data |-> IF f.key \in DOMAIN cache THEN cache[f.key].data ELSE None,
                 failed |-> TRUE, missed |-> {}])
  /\ UNCHANGED <<token, org, ready, count>>

Idle(q) == \A f \in fetches : f.key # q.key
HasData(q) == q.key \in DOMAIN cache /\ cache[q.key].data # None

\* refetchInterval, or the Retry button of an error.
Refetch(q) ==
  /\ ready /\ Idle(q)
  /\ Observe({q})
  /\ UNCHANGED <<token, org, ready, cache, faults, count>>

Among(o, lists, x) == x.key.org = o /\ x.key.list \in lists

\* A fetch that nobody observes goes on, and whoever observes its key later
\* waits for it; so does one whose key has no data yet.
GoesOn(f, o, lists, observed, nr) ==
  IF Among(o, lists, f) /\ (HasData(f) => \A q \in observed : q.key # f.key)
  THEN [f EXCEPT !.missed = @ \cup {nr}] ELSE f

Anew(qs, o, lists, observed, nr) ==
  fetches' = {Fetch(q) : q \in qs} \cup
             {GoesOn(f, o, lists, observed, nr) : f \in {x \in fetches : \A q \in qs : q.key # x.key}}

\* Slip: what is being fetched is not fetched anew.
InvalidateIdle(o, lists, observed, nr) ==
  Anew({q \in observed : Among(o, lists, q) /\ Idle(q)}, o, lists, observed, nr)

\* invalidateQueries({ queryKey: [o, list] }): what is observed is fetched
\* anew, and an answer under way no longer counts, but for the first fetch of
\* a key, which is waited for.
Invalidate(o, lists, observed, nr) ==
  Anew({q \in observed : Among(o, lists, q) /\ (Idle(q) \/ HasData(q))}, o, lists, observed, nr)
-----------------------------------------------------------------------------
\* Another organization is chosen; Clerk's session has it first.
SwitchOrg(o) ==
  /\ ready /\ token = org /\ o # org
  /\ token' = o /\ Step
  /\ UNCHANGED <<org, ready, cache, fetches, faults>>

\* The new organization is rendered: OrgCacheReset's effect empties the cache,
\* which drops the fetches too, and MeProvider shows no page until GET /me has
\* been answered.
RenderOrg ==
  /\ org # token
  /\ org' = token
  /\ ready' = FALSE
  /\ cache' = <<>> /\ fetches' = {}
  /\ UNCHANGED <<token, faults, count>>

MeAnswered ==
  /\ ~ready /\ org = token
  /\ ready' = TRUE
  /\ UNCHANGED <<token, org, cache, faults, count>>
-----------------------------------------------------------------------------
(***************************************************************************)
(* The alerts page and the alert bell of the tab (pages/AlertsPage.tsx,    *)
(* components/AlertBell.tsx), over the rows that routes/alerts.ts lists    *)
(* and acknowledges while detection and other people change them.          *)
(***************************************************************************)
CONSTANTS
  Alerts,
  OrgOf, PartnerOf, TypeOf,  \* what each alert is about
  Partners, Kinds,
  Filters,  \* what the operator may select
  InitialAlerts,
  All,      \* a filter that is not set
  MaxList,  \* MAX_LIST_ALERTS
  MaxNews   \* bound: what detection and other operators do

ASSUME TriageAssumption ==
  /\ OrgOf \in [Alerts -> Orgs] /\ PartnerOf \in [Alerts -> Partners]
  /\ TypeOf \in [Alerts -> Kinds] /\ MaxList \in Nat /\ MaxNews \in Nat
  /\ All \notin Partners \cup Kinds \cup {"active", "acknowledged"}
  /\ InitialAlerts \subseteq [Alerts -> {"none", "active", "acknowledged"}]

VARIABLES
  alert,   \* per alert: "none", "active" or "acknowledged", as stored
  filter,  \* what the page's selects say
  acts,    \* requests that change something
  done,    \* those the server has done
  heard,   \* those whose success the tab has heard of
  news

triageVars == <<alert, filter, acts, done, heard, news>>

Filter(status, partner, type) ==
  [status |-> status, partner |-> partner, type |-> type, page |-> 1]

AllActive == Filter("active", All, All)

\* The bell asks for what is active, under a key of its own.
BellAsk == [AllActive EXCEPT !.page = 0]

TriageInit == /\ alert \in InitialAlerts
              /\ filter = AllActive
              /\ acts = {} /\ done = {} /\ heard = {} /\ news = 0
-----------------------------------------------------------------------------
(* The server.                                                             *)

\* The active rows of the organization that are asked for; the list has them
\* before the others, which have no controls.
Found(o, f) == {a \in Alerts : /\ OrgOf[a] = o /\ alert[a] = "active"
                               /\ f.status \in {All, "active"}
                               /\ f.partner \in {All, PartnerOf[a]}
                               /\ f.type \in {All, TypeOf[a]}}

\* listAlerts takes MaxList of them at most, those that were seen last: which
\* those are changes with every detection pass and every snooze.
Listed(o, f) == {as \in SUBSET Found(o, f) :
                  IF Cardinality(Found(o, f)) <= MaxList THEN as = Found(o, f)
                  ELSE Cardinality(as) = MaxList}

\* A row that becomes active is news to whoever has read the list before.
News(x, as) == IF x = None THEN None ELSE [x EXCEPT !.since = @ \cup as]

Spread(as) ==
  /\ cache' = [k \in DOMAIN cache |-> [cache[k] EXCEPT !.data = News(@, as)]]
  /\ fetches' = {[f EXCEPT !.data = News(@, as)] : f \in fetches}

Happens == news < MaxNews /\ news' = news + 1

\* A detection pass raises an alert, or raises it again.
Raise(a) ==
  /\ alert[a] # "active"
  /\ Happens
  /\ alert' = [alert EXCEPT ![a] = "active"]
  /\ Spread({a})
  /\ acts' = {IF x.at = "sent" THEN [x EXCEPT !.since = @ \cup {a}] ELSE x : x \in acts}
  /\ UNCHANGED <<token, org, ready, filter, done, heard, count, faults>>

\* Another operator acknowledges.
AckedElsewhere(a) ==
  /\ alert[a] = "active"
  /\ Happens
  /\ alert' = [alert EXCEPT ![a] = "acknowledged"]
  /\ UNCHANGED <<tabVars, filter, acts, done, heard, count, faults>>

\* Slip: the partner is left out of what Ack all sends.
BulkTargetsAll(x) == Listed(x.from, AllActive)

\* POST /alerts/bulk-ack: what is listed of the partner that was named.
BulkTargets(x) == Listed(x.from, [AllActive EXCEPT !.partner = x.filter.partner])

At(x, at, targets) == acts' = (acts \ {x}) \cup {[x EXCEPT !.at = at, !.targets = targets]}

Acknowledge(as) == alert' = [a \in Alerts |-> IF a \in as THEN "acknowledged" ELSE alert[a]]

\* A row of another organization is not found.
ServeAct(x) ==
  /\ x.at = "sent" /\ x.kind # "bulk"
  /\ Acknowledge(IF x.kind = "ack" THEN {a \in {x.target} : OrgOf[a] = x.from} ELSE {})
  /\ At(x, "done", {})
  /\ done' = done \cup {x.nr}
  /\ UNCHANGED <<tabVars, filter, heard, count, news, faults>>

\* bulkAcknowledgeAlerts lists first, then acknowledges one row after another.
BeginBulk(x) ==
  /\ x.at = "sent" /\ x.kind = "bulk"
  /\ \E as \in BulkTargets(x) : At(x, "acking", as)
  /\ UNCHANGED <<tabVars, alert, filter, done, heard, count, news, faults>>

AckNext(x) ==
  /\ x.at = "acking"
  /\ \E a \in x.targets : Acknowledge({a}) /\ At(x, "acking", x.targets \ {a})
  /\ UNCHANGED <<tabVars, filter, done, heard, count, news, faults>>

EndBulk(x) ==
  /\ x.at = "acking" /\ x.targets = {}
  /\ At(x, "done", {})
  /\ done' = done \cup {x.nr}
  /\ UNCHANGED <<tabVars, alert, filter, heard, count, news, faults>>

\* What a fetch is answered: the rows that have controls, those that the limit
\* left out, which acts the server had done by then, and, later on, what has
\* become active since.
Answer(f, rows, beyond) == [rows |-> rows, beyond |-> beyond, from |-> f.from, ask |-> f.ask,
                            knows |-> done, since |-> {}]

AlertsAnswers(f) == {Answer(f, as, Found(f.from, f.ask) \ as) : as \in Listed(f.from, f.ask)}
-----------------------------------------------------------------------------
(* The operator.                                                           *)

\* A hook's button is disabled while the hook's request is under way.
Busy(slot) == \E x \in acts : x.slot = slot

\* What was shown when it was asked for, where that matters.
Nothing == [rows |-> {}, beyond |-> {}, since |-> {}]

Do(slot, kind, target, lists, saw) ==
  /\ ready /\ Step
  /\ acts' = acts \cup {[slot |-> slot, kind |-> kind, target |-> target, lists |-> lists,
                         org |-> org, from |-> token, filter |-> filter,
                         rows |-> saw.rows, beyond |-> saw.beyond, since |-> saw.since,
                         at |-> "sent", targets |-> {}, nr |-> count]}
  /\ UNCHANGED <<tabVars, alert, filter, done, heard, news, faults>>

Act(slot, kind, target, lists, saw) ==
  ~Busy(slot) /\ Do(slot, kind, target, lists, saw)

\* The rows of an observed query; after an error the page still has what it
\* had, and shows the error instead of it.
Failed(q) == q.key \in DOMAIN cache /\ cache[q.key].failed
Shown(q) == HasData(q) /\ ~Failed(q)
Rows(q) == IF HasData(q) THEN cache[q.key].data.rows ELSE {}

PageQuery == Query("alerts", filter)
BellQuery == Query("alerts", BellAsk)

\* Acknowledge or snooze a row that is shown active; the page's two hooks wait
\* for each other.
RowAct(a, kind) == /\ a \in Rows(PageQuery) /\ ~Failed(PageQuery)
                   /\ Act("row", kind, a, {"alerts"}, Nothing)

BellAck(a) == a \in Rows(BellQuery) /\ Act("bell", "ack", a, {"alerts"}, Nothing)

RunDetection == Act("detect", "detect", None, {"alerts"}, Nothing)

\* Ack all is there while the page shows active rows.
AckAll == /\ filter.status = "active" /\ Rows(PageQuery) # {}
          /\ Act("bulk", "bulk", None, {"alerts"}, cache[PageQuery.key].data)

\* A select changes, or Clear filters: another key is observed from now on.
SetFilter(f) ==
  /\ ready /\ f # filter
  /\ filter' = f /\ Step
  /\ UNCHANGED <<token, org, ready, cache, faults, alert, acts, done, heard, news>>

\* onSuccess.
ActHeard(x, observed) ==
  /\ x.at = "done"
  /\ acts' = acts \ {x}
  /\ heard' = heard \cup {[nr |-> x.nr, org |-> x.org, from |-> x.from, slot |-> x.slot]}
  /\ Invalidate(x.org, x.lists, observed, x.nr)
  /\ UNCHANGED <<token, org, ready, cache, faults, alert, filter, done, count, news>>

\* onError: a toast, and the list stays as it is.
ActFails(x) ==
  /\ Fault
  /\ acts' = acts \ {x}
  /\ UNCHANGED <<tabVars, alert, filter, done, heard, count, news>>
=============================================================================
