-------------------------------- MODULE Desk --------------------------------
(***************************************************************************)
(* An operator's tab: its pages over one query cache, with the server and  *)
(* the other people behind it.  Beside the alerts page of QueryCache there *)
(* are the orders (pages/LifecyclesPage.tsx, with an expanded row and its  *)
(* notes), the received files (pages/IngestionsPage.tsx) and the documents *)
(* (pages/TransactionsPage.tsx); their filters and page number are the     *)
(* URL's, and what the rows say is left out.                               *)
(*                                                                         *)
(* What the pages read of preferences and settings, and how tabs save      *)
(* those, is explored on its own: a behaviour is of one scene or the other.*)
(***************************************************************************)
EXTENDS QueryCache, Preferences

CONSTANTS
  Orders,   \* the rows of the orders page
  Files,    \* the rows of the received files that can be parsed again
  MaxPage   \* bound: pages of a list

VARIABLES
  screen,   \* the page that is shown
  url,      \* its filters; on the orders page type says whether pins alone are asked for
  open,     \* the expanded row of the orders page, or None
  pinned    \* the preferences have been loaded and hold pins

listVars == <<screen, url, open, pinned>>

Screens == {"alerts", "orders", "files", "documents"}
Blank == Filter(All, All, All)

ListsInit == screen \in Screens /\ url = Blank /\ open = None /\ pinned = FALSE

\* LifecyclesPage sends no pins while it knows of none, and then lists all.
OrdersAsk == [url EXCEPT !.type = IF @ = "pinned" /\ ~pinned THEN All ELSE @]

ListQuery == Query(screen, IF screen = "orders" THEN OrdersAsk ELSE url)
TimelineQuery == Query("timeline", open)
NotesQuery == Query("notes", open)

ListObserved ==
  IF screen = "alerts" THEN {PageQuery}
  ELSE {ListQuery} \cup
       IF open = None THEN {}
       ELSE {TimelineQuery} \cup IF Shown(TimelineQuery) THEN {NotesQuery} ELSE {}

\* The bell is on every page.
Observed == IF ready THEN {BellQuery} \cup ListObserved ELSE {}

RowsOf(list) == CASE list = "orders" -> Orders [] list = "files" -> Files [] OTHER -> {}
-----------------------------------------------------------------------------
Move == /\ ready /\ Step
        /\ UNCHANGED <<token, org, ready, cache, faults, alert, acts, done, heard, news, pinned>>

\* A link: the alerts page forgets its filters, the others have theirs in the
\* URL that is left.
Goto(s) == /\ s # screen
           /\ Move
           /\ screen' = s /\ url' = Blank /\ open' = None /\ filter' = AllActive

Browse(u) == /\ screen # "alerts" /\ u # url
             /\ Move
             /\ UNCHANGED <<screen, filter>>
             /\ url' = u
             /\ open' = IF open \in Rows(ListQuery)' THEN open ELSE None

\* setFilter, a chip, or Clear all: the first page of what is asked for now.
SetUrl(field, v) == Browse([url EXCEPT ![field] = v, !.page = 1])
ClearAll == Browse(Blank)

\* A tab of the orders page: All, Needs attention, Mine.
ViewTab(status, type) ==
  /\ screen = "orders" /\ All \in {status, type}
  /\ type = "pinned" => pinned
  /\ Browse([url EXCEPT !.status = status, !.type = type, !.page = 1])

\* A saved view replaces the URL; it holds neither page nor Mine.
ApplyView(status, partner) == screen = "orders" /\ Browse(Filter(status, partner, All))

\* Previous and Next, which looks at how many rows came.
SetPage(p) == /\ screen \in {"orders", "documents"} /\ p \in 1..MaxPage
              /\ p \in {url.page - 1, url.page + 1}
              /\ p > url.page => HasData(ListQuery)
              /\ screen = "orders" => Shown(ListQuery) /\ Rows(ListQuery) # {}
              /\ Browse([url EXCEPT !.page = p])

\* The preferences arrive, or the last pin goes or the first comes.
PinsChange == /\ screen = "orders"
              /\ ready /\ Step /\ pinned' = ~pinned
              /\ UNCHANGED <<token, org, ready, cache, faults, alert, filter, acts, done, heard, news,
                             screen, url, open>>

Expand(po) == /\ screen = "orders" /\ po # open
              /\ po # None => Shown(ListQuery) /\ po \in Rows(ListQuery)
              /\ Move
              /\ open' = po
              /\ UNCHANGED <<screen, url, filter>>
-----------------------------------------------------------------------------
\* Retry parse of a file, and from an expanded order.
RetryFile(r) == /\ screen = "files" /\ Shown(ListQuery) /\ r \in Rows(ListQuery)
                /\ Do("file", "retry", r, {"files"}, Nothing)

RetryOrder == /\ open # None /\ Shown(TimelineQuery)
              /\ Act("retry", "retry", open, {"orders", "timeline"}, Nothing)

AddNote == /\ open # None /\ Shown(NotesQuery)
           /\ Act("note", "note", open, {"notes"}, Nothing)
DeleteNote == /\ open # None /\ Shown(NotesQuery)
              /\ Act("delete", "note", open, {"notes"}, Nothing)
-----------------------------------------------------------------------------
VARIABLE scene

deskVars == <<tabVars, faults, count, triageVars, listVars>>
vars == <<deskVars, prefVars, scene>>

Init == /\ scene \in {"desk", "preferences", "settings"}
        /\ CacheInit /\ TriageInit /\ ListsInit /\ PreferencesInit
        /\ scene # "desk" => /\ token = (CHOOSE o \in Orgs : TRUE)
                             /\ alert = (CHOOSE x \in InitialAlerts : TRUE)
                             /\ screen = "alerts"
        /\ scene = "desk" => /\ prefs = (CHOOSE x \in InitialPrefs : TRUE)
                             /\ settings = (CHOOSE x \in InitialSettings : TRUE)

Newly == Observed' \ Observed
-----------------------------------------------------------------------------
\* What is observed after a step of the tab, and was not, is fetched.
View ==
  /\ \/ \E f \in Filters : screen = "alerts" /\ SetFilter(f) /\ UNCHANGED listVars
     \/ \E s \in Screens : Goto(s)
     \/ \E p \in Partners : SetUrl("partner", p)
     \/ ClearAll
     \/ ViewTab(All, All) \/ ViewTab("attention", All) \/ ViewTab(All, "pinned")
     \/ ApplyView("attention", All)
     \/ \E n \in 1..MaxPage : SetPage(n)
     \/ \E po \in Orders \cup {None} : Expand(po)
     \/ PinsChange
     \/ MeAnswered /\ UNCHANGED <<triageVars, listVars>>
  /\ Observe(Newly)

Serve(f) ==
  /\ \E data \in IF f.key.list = "alerts" THEN AlertsAnswers(f)
                ELSE {Answer(f, RowsOf(f.key.list), {})} : ServeFetch(f, data)
  /\ UNCHANGED <<triageVars, listVars>>

Arrive(f) == /\ Land(f)
             /\ UNCHANGED <<triageVars, listVars>>
             /\ fetches' = With(fetches \ {f}, Newly)

\* A page that cannot load its list shows no row, expanded or not.
Fail(f) == /\ FetchFails(f)
           /\ open' = IF screen = "orders" /\ f.key = ListQuery.key THEN None ELSE open
           /\ UNCHANGED <<triageVars, screen, url, pinned>>

\* The pages are gone while another organization is being opened.
ChangeOrg == \/ \E o \in Orgs : SwitchOrg(o) /\ UNCHANGED <<triageVars, listVars>>
             \/ /\ RenderOrg
                /\ filter' = AllActive /\ open' = None /\ pinned' = FALSE
                /\ UNCHANGED <<alert, acts, done, heard, news, screen, url>>

Operate == /\ \/ /\ screen = "alerts"
                 /\ \/ \E a \in Alerts, k \in {"ack", "snooze"} : RowAct(a, k)
                    \/ RunDetection \/ AckAll
              \/ \E a \in Alerts : BellAck(a)
              \/ \E r \in Files : RetryFile(r)
              \/ RetryOrder \/ AddNote \/ DeleteNote
           /\ UNCHANGED listVars

Others == /\ \/ \E a \in Alerts : Raise(a) \/ AckedElsewhere(a)
             \/ \E x \in acts : \/ ServeAct(x) \/ BeginBulk(x) \/ AckNext(x) \/ EndBulk(x)
                              \/ ActFails(x) \/ ActHeard(x, Observed)
          /\ UNCHANGED listVars

Next ==
  \/ /\ scene = "desk"
     /\ \/ View \/ ChangeOrg \/ Operate \/ Others
        \/ \E f \in fetches : Serve(f) \/ Arrive(f) \/ Fail(f)
        \/ \E q \in Observed : (q = BellQuery \/ Failed(q)) /\ Refetch(q) /\ UNCHANGED <<triageVars, listVars>>
     /\ UNCHANGED <<prefVars, scene>>
  \/ /\ \/ scene = "preferences" /\ PreferencesNext
        \/ scene = "settings" /\ SettingsNext
     /\ UNCHANGED <<deskVars, scene>>

Spec == Init /\ [][Next]_vars
-----------------------------------------------------------------------------
Settled == ready /\ org = token

\* Whatever the order of the answers and of a change of organization, what a
\* page shows was fetched for the organization and the filters it shows it
\* under, but for the moment in which Clerk has changed and the page has not
\* (useTenantQuery.ts:1-7, OrgCacheReset.tsx:1-6).
ShownIsOwn ==
  Settled => \A q \in Observed : HasData(q) =>
    cache[q.key].data.from = org /\ cache[q.key].data.ask = q.ask

\* The lists that an act of this operator changes on the page it is made on.
Affects(slot) == CASE slot = "file"  -> {"files"}
                   [] slot = "retry" -> {"orders", "timeline"}
                   [] slot \in {"note", "delete"} -> {"notes"}
                   [] OTHER -> {"alerts"}

\* Once an act has succeeded, no list of the page or the bell comes to rest on
\* an answer that was given before it, but for one that was on its way when the
\* success was heard and is not asked for anew: for filters that were not shown
\* then, or for a list that had not been loaded before (the onSuccess handlers
\* of AlertsPage, AlertBell, IngestionsPage and LifecyclesPage).
FreshAfterAct ==
  Settled => \A h \in heard, q \in Observed :
    /\ h.org = org /\ h.from = org /\ q.key.list \in Affects(h.slot)
    /\ \A f \in fetches : f.key # q.key
    /\ Shown(q)
    => h.nr \in cache[q.key].data.knows \cup cache[q.key].missed

\* "Ack all (n)" takes an alert that the page did not show only if it became
\* active after the page was fetched, if the type filter hid it, which the
\* request does not name, or if the page was full and the limit left it out
\* (AlertsPage.tsx:187-191, routes/alerts.ts:170-177, services/alerts.ts:166).
AckAllTakesShown ==
  [][\A x \in acts : x.at = "acking" /\ x.from = x.org =>
       \A a \in x.targets : alert'[a] # alert[a] =>
         \/ a \in x.rows \cup x.since
         \/ x.filter.type \notin {All, TypeOf[a]}
         \/ a \in x.beyond /\ Cardinality(x.rows) = MaxList]_vars
=============================================================================
