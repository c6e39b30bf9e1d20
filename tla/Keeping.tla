------------------------------ MODULE Keeping ------------------------------
(***************************************************************************)
(* The scripts that remove and rewrite what the hub has stored, beside the *)
(* hub and beside each other (apps/api/src/scripts): run-retention with    *)
(* services/retention.ts, purge-raw-by-isa, attach-pilot-org --force and   *)
(* backfill-parse.                                                         *)
(*                                                                         *)
(* An action is an awaited call of a script.  Time is counted in days, and *)
(* every script reads the clock once.  An interchange stands for its whole *)
(* tree, which the database deletes with it, and has the id of its file.   *)
(***************************************************************************)
EXTENDS Tenancy, Naturals, FiniteSets, Sequences

CONSTANTS
  PilotTenant,  \* PILOT_TENANT_ID
  Scripts,      \* processes
  ToPurge,      \* the control numbers purge-raw-by-isa is given
  Controls,     \* the control numbers of files that may arrive
  DefaultPolicy,
  Grace,
  MaxDay,       \* bound: the clock
  MaxIds,       \* bound: files stored
  MaxRuns,      \* bound: scripts started
  MaxErrors     \* bound: calls that fail

VARIABLES
  day,
  rows,     \* [id, model, org, born, isa, archived]
  bytes,    \* ids of the raw files whose object is stored
  tenants,  \* per tenant: its policy as stored and the day it was deleted, or None
  script,   \* per process: what it runs, or None
  held,     \* history: ids whose object a retention pass failed to delete
  made,     \* files stored so far
  runs, errors

keepVars == <<day, rows, bytes, tenants, script, held, made, runs, errors>>

Kinds == {"RawFile", "Interchange", "AuditEvent", "Alert"}

\* A category of a policy is a number of days, 0 for "keep"; the tenant has none
\* or leaves categories out.
Policy     == [Kinds -> Nat]
TenantRows == [policy : [Kinds -> Nat \cup {None}] \cup {None}, deleted : Nat \cup {None}]

ASSUME KeepingAssumption ==
  /\ PilotTenant \in Tenants /\ Grace \in Nat /\ MaxDay \in Nat
  /\ DefaultPolicy \in Policy
  /\ None \notin Tenants \cup Nat \cup Controls \cup TenantRows

Table(model) == {x \in rows : x.model = model}
Trees(files) == {x \in Table("Interchange") : \E f \in files : x.id = f.id}

Row(id, model, org, isa) ==
  [id |-> id, model |-> model, org |-> org, born |-> day, isa |-> isa, archived |-> FALSE]

\* readPolicy: a category that is absent or no number takes its default.
ReadPolicy(stored) ==
  [k \in Kinds |-> IF stored = None THEN DefaultPolicy[k]
                   ELSE IF stored[k] = None THEN DefaultPolicy[k] ELSE stored[k]]

\* lt: the cutoff itself is kept.
Aged(x, days, today) == x.born + days < today

Due(t, today) == tenants[t] # None /\ tenants[t].deleted # None /\ tenants[t].deleted + Grace < today

Blank == [job |-> None, at |-> None, now |-> day, policy |-> <<>>, todo |-> {}, org |-> None,
          left |-> {}, id |-> None, table |-> 1]

Starts(p, s) ==
  /\ script[p] = None /\ runs < MaxRuns
  /\ script' = [script EXCEPT ![p] = s]
  /\ runs' = runs + 1
  /\ UNCHANGED <<day, rows, bytes, tenants, held, made, errors>>

At(p, job, at) == script[p] # None /\ script[p].job = job /\ script[p].at = at

\* p goes on, as s says; None when it has ended.
Goes(p, s) == script' = [script EXCEPT ![p] = s]

\* Only rows, and what p does next.
Writes(p, new, s) ==
  /\ rows' = new
  /\ Goes(p, s)
  /\ UNCHANGED <<day, bytes, tenants, held, made, runs, errors>>

\* A rejected call ends the process.
ScriptFails(p) ==
  /\ script[p] # None /\ errors < MaxErrors
  /\ errors' = errors + 1
  /\ Goes(p, None)
  /\ UNCHANGED <<day, rows, bytes, tenants, held, made, runs>>
-----------------------------------------------------------------------------
(* The hub.                                                                *)

DayPasses == /\ day < MaxDay /\ day' = day + 1
             /\ UNCHANGED <<rows, bytes, tenants, script, held, made, runs, errors>>

\* A file is stored and parsed, with an alert about it, unless its control
\* number is that of a row, archived or not.
Arrive(t, isa) ==
  /\ tenants[t] # None /\ made < MaxIds
  /\ ~ \E x \in Table("RawFile") : x.org = t /\ x.isa = isa
  /\ LET id == made + 1
     IN /\ rows' = rows \cup {Row(id, "RawFile", t, isa), Row(id, "Interchange", t, None),
                              Row(id, "Alert", t, None)}
        /\ bytes' = bytes \cup {id}
        /\ made' = id
  /\ UNCHANGED <<day, tenants, script, held, runs, errors>>

\* An administrator deletes the tenant.
DeleteTenant(t) ==
  /\ tenants[t] # None /\ tenants[t].deleted = None
  /\ tenants' = [tenants EXCEPT ![t].deleted = day]
  /\ UNCHANGED <<day, rows, bytes, script, held, made, runs, errors>>
-----------------------------------------------------------------------------
(* run-retention: runRetention, then sweepDeletedTenants.                  *)

\* The active tenants and their policies are read once, under bypass.
RetentionStarts(p) ==
  LET active == {t \in Tenants : tenants[t] # None /\ tenants[t].deleted = None}
  IN Starts(p, [Blank EXCEPT !.job = "retention", !.at = "tenants", !.todo = active,
                             !.policy = [t \in active |-> ReadPolicy(tenants[t].policy)]])

Days(s, k) == s.policy[s.org][k]

\* The rows of its tenant that a pass finds past their time.
Past(s, k) ==
  IF Days(s, k) = 0 THEN {}
  ELSE {x \in Reached(Run(s.org), k, None, Table(k)) : Aged(x, Days(s, k), s.now)}

\* Slip: the report is written before the work is done.
FirstStepReport == "report"

FirstStep == "list"

TakeTenant(p, t) ==
  /\ At(p, "retention", "tenants") /\ t \in script[p].todo
  /\ Writes(p, rows, [script[p] EXCEPT !.org = t, !.todo = @ \ {t}, !.at = FirstStep])

AfterFile(s) == IF s.left = {} THEN "Interchange" ELSE "object"

ListStale(p) ==
  /\ At(p, "retention", "list")
  /\ LET s == [script[p] EXCEPT !.left = {x.id : x \in {y \in Past(script[p], "RawFile") : ~y.archived}}]
     IN Writes(p, rows, [s EXCEPT !.at = AfterFile(s)])

\* The object goes before the row is told; an error is swallowed.
DropObject(p, i) ==
  /\ At(p, "retention", "object") /\ i \in script[p].left
  /\ \/ bytes' = bytes \ {i} /\ UNCHANGED <<held, errors>>
     \/ errors < MaxErrors /\ errors' = errors + 1 /\ held' = held \cup {i} /\ UNCHANGED bytes
  /\ Goes(p, [script[p] EXCEPT !.id = i, !.left = @ \ {i}, !.at = "flip"])
  /\ UNCHANGED <<day, rows, tenants, made, runs>>

\* update: it throws when the row has gone, and the process ends.
Archive(p) ==
  /\ At(p, "retention", "flip")
  /\ LET s == script[p]
         file == {x \in Reached(Run(s.org), "RawFile", None, Table("RawFile")) : x.id = s.id}
     IN Writes(p, (rows \ file) \cup {[x EXCEPT !.archived = TRUE] : x \in file},
               IF file = {} THEN None ELSE [s EXCEPT !.at = AfterFile(s)])

After == [Interchange |-> "AuditEvent", AuditEvent |-> "Alert", Alert |-> "report"]

DropPast(p, k) ==
  /\ At(p, "retention", k)
  /\ Writes(p, rows \ Past(script[p], k), [script[p] EXCEPT !.at = After[k]])

\* The audit row, one a day here; its tenant must still be there.
Report(p) ==
  /\ At(p, "retention", "report")
  /\ LET s == script[p]
         told == Stamped(Run(s.org), "AuditEvent", {Row(None, "AuditEvent", s.org, None)})
     IN IF tenants[s.org] = None THEN Writes(p, rows, None)
        ELSE Writes(p, rows \cup told, [s EXCEPT !.at = "tenants", !.org = None])

ListDue(p) ==
  /\ At(p, "retention", "tenants") /\ script[p].todo = {}
  /\ Writes(p, rows, [script[p] EXCEPT !.at = "due", !.todo = {t \in Tenants : Due(t, script[p].now)}])

TakeDue(p, t) ==
  /\ At(p, "retention", "due") /\ t \in script[p].todo
  /\ Writes(p, rows, [script[p] EXCEPT !.at = "sweep", !.org = t, !.todo = @ \ {t}, !.table = 1])

RetentionEnds(p) ==
  /\ At(p, "retention", "due") /\ script[p].todo = {}
  /\ Writes(p, rows, None)

SweepOrder  == <<"Interchange", "RawFile", "Alert", "AuditEvent">>
AttachOrder == <<"AuditEvent", "Interchange", "RawFile", "Alert">>

\* deleteMany of the next table, naming the tenant under bypass.
EmptyTable(p, job, order) ==
  /\ At(p, job, "sweep") /\ script[p].table <= Len(order)
  /\ LET s == script[p]
         gone == Reached(Bypass(None), order[s.table], s.org, Table(order[s.table]))
     IN Writes(p, rows \ (gone \cup (IF order[s.table] = "RawFile" THEN Trees(gone) ELSE {})),
               [s EXCEPT !.table = @ + 1])

\* tenant.delete: a row that points to the tenant makes it throw, and so does a
\* tenant that has gone.
DropTenant(p, job, order, next) ==
  /\ At(p, job, "sweep") /\ script[p].table > Len(order)
  /\ LET t == script[p].org
     IN IF tenants[t] = None \/ \E x \in rows : x.org = t
        THEN Goes(p, None) /\ UNCHANGED tenants
        ELSE /\ tenants' = [tenants EXCEPT ![t] = None]
             /\ Goes(p, IF next = "end" THEN None ELSE [script[p] EXCEPT !.at = next])
  /\ UNCHANGED <<day, rows, bytes, held, made, runs, errors>>

Retention(p) ==
  \/ RetentionStarts(p) \/ ListStale(p) \/ Archive(p) \/ Report(p) \/ ListDue(p) \/ RetentionEnds(p)
  \/ \E t \in Tenants : TakeTenant(p, t) \/ TakeDue(p, t)
  \/ \E i \in 1..MaxIds : DropObject(p, i)
  \/ \E k \in DOMAIN After : DropPast(p, k)
  \/ EmptyTable(p, "retention", SweepOrder)
  \/ DropTenant(p, "retention", SweepOrder, "due")
-----------------------------------------------------------------------------
(* The other scripts.                                                      *)

\* purge-raw-by-isa --yes: what matches is shown, and then deleted.
Matches == {x \in Reached(Run(PilotTenant), "RawFile", None, Table("RawFile")) : x.isa \in ToPurge}

PurgeStarts(p) ==
  /\ Matches # {}
  /\ Starts(p, [Blank EXCEPT !.job = "purge", !.at = "delete"])

PurgeDeletes(p) ==
  /\ At(p, "purge", "delete")
  /\ Writes(p, rows \ (Matches \cup Trees(Matches)), None)

\* attach-pilot-org --force: the tenant that holds the organization goes, at once
\* and whatever it has.
AttachStarts(p, t) ==
  /\ t # PilotTenant /\ tenants[t] # None
  /\ Starts(p, [Blank EXCEPT !.job = "attach", !.at = "sweep", !.org = t])

\* backfill-parse --reparse-parsed, for the tenant of the installation: the files
\* that are not archived, read once.
BackfillStarts(p) ==
  Starts(p, [Blank EXCEPT !.job = "backfill", !.at = "files", !.org = PilotTenant,
       !.left = {x.id : x \in {y \in Reached(Run(PilotTenant), "RawFile", None, Table("RawFile")) : ~y.archived}}])

\* parseAndStore reads the row, and then the object.  Without the row the file is
\* skipped; without the object the script ends.
BackfillReads(p, i) ==
  /\ At(p, "backfill", "files") /\ i \in script[p].left
  /\ LET s == [script[p] EXCEPT !.left = @ \ {i}, !.id = i]
     IN Writes(p, rows,
               IF ~ \E x \in Table("RawFile") : x.id = i THEN s
               ELSE IF i \notin bytes THEN None ELSE [s EXCEPT !.at = "store"])

\* The transaction: a new tree in the place of the old, and the row's status.  A
\* file that cannot be decomposed has its status written and keeps its tree.
BackfillStores(p) ==
  /\ At(p, "backfill", "store")
  /\ LET s == script[p]
         file == {x \in Table("RawFile") : x.id = s.id}
         told == {[x EXCEPT !.archived = FALSE] : x \in file}
         tree == {Row(x.id, "Interchange", x.org, None) : x \in file}
         next == IF file = {} THEN None ELSE [s EXCEPT !.at = "files"]
     IN \/ Writes(p, (rows \ (file \cup Trees(file))) \cup told \cup tree, next)
        \/ Writes(p, (rows \ file) \cup told, next)

BackfillEnds(p) ==
  /\ At(p, "backfill", "files") /\ script[p].left = {}
  /\ Writes(p, rows, None)

OtherScripts(p) ==
  \/ PurgeStarts(p) \/ PurgeDeletes(p)
  \/ \E t \in Tenants : AttachStarts(p, t)
  \/ EmptyTable(p, "attach", AttachOrder) \/ DropTenant(p, "attach", AttachOrder, "end")
  \/ BackfillStarts(p) \/ BackfillStores(p) \/ BackfillEnds(p)
  \/ \E i \in 1..MaxIds : BackfillReads(p, i)

KeepNext ==
  \/ DayPasses
  \/ \E t \in Tenants : DeleteTenant(t) \/ \E isa \in Controls : Arrive(t, isa)
  \/ \E p \in Scripts : Retention(p) \/ OtherScripts(p) \/ ScriptFails(p)

StoredRows(today, last) ==
  [id : 1..last \cup {None}, model : Kinds, org : Tenants, born : 0..today,
   isa : Controls \cup ToPurge \cup {None}, archived : BOOLEAN]

\* Files stored earlier, each with an id of its own and in the tenant of its tree;
\* what has been archived has no bytes any more, and no script runs.
KeepInit ==
  /\ day \in Nat /\ made \in Nat
  /\ rows \subseteq StoredRows(day, made)
  /\ \A x \in rows : tenants[x.org] # None
  /\ \A f \in Table("RawFile") :
       /\ f.id # None /\ (f.archived => f.id \notin bytes)
       /\ \A g \in Table("RawFile") : g.id = f.id => g = f
       /\ \A g \in Table("Interchange") : g.id = f.id => g.org = f.org
  /\ bytes \subseteq 1..made
  /\ tenants \in [Tenants -> TenantRows \cup {None}]
  /\ script = [p \in Scripts |-> None]
  /\ held = {} /\ runs = 0 /\ errors = 0

KeepSpec == KeepInit /\ [][KeepNext]_keepVars
-----------------------------------------------------------------------------
\* What the owner of x agreed to lose to the process that runs s: rows past the
\* time of the policy it found when it began, everything of a tenant past its
\* grace period or given up by the operator, the files the operator names.
Agreed(s, x) ==
  CASE s.job = "retention" ->
         \/ /\ x.model \in Kinds /\ x.org \in DOMAIN s.policy
            /\ s.policy[x.org][x.model] # 0 /\ Aged(x, s.policy[x.org][x.model], s.now)
         \/ Due(x.org, s.now)
    [] s.job = "purge" ->
         x.org = PilotTenant /\ \E f \in Table("RawFile") : f.id = x.id /\ f.isa \in ToPurge
    [] s.job = "attach"   -> x.org = s.org /\ x.org # PilotTenant
    [] s.job = "backfill" -> x.org = PilotTenant /\ x.model = "Interchange"

Lost(x) ==
  \/ x \notin rows' /\ ~(x.archived /\ [x EXCEPT !.archived = FALSE] \in rows')
  \/ x.model = "RawFile" /\ x.id \in bytes \ bytes'

\* Nothing is lost that its tenant had not agreed to lose: while scripts of all
\* kinds run beside each other and beside the hub, a row disappears or is archived,
\* and the bytes of a file go, only by the policy of its own tenant as a running
\* pass found it, or for one of the other reasons above (services/retention.ts:
\* 125-184, packages/db/src/tenant-extension.ts:148).
KeptAsAgreed ==
  [][\A x \in rows : Lost(x) => \E p \in Scripts : script[p] # None /\ Agreed(script[p], x)]_keepVars

\* A retention.run row tells the truth: when it is written, nothing that was past
\* its time when the pass began is left in its tenant, neither tree, audit nor alert
\* row nor the bytes of a file, except bytes whose deletion failed; and a crash
\* never leaves an archived file with bytes (services/retention.ts:126-128, 186-188).
ReportsAreEarned ==
  /\ \A x \in Table("RawFile") : x.archived /\ x.id \in bytes => x.id \in held
  /\ \A p \in Scripts : At(p, "retention", "report") =>
       LET s == script[p]
       IN /\ \A k \in DOMAIN After : Past(s, k) = {}
          /\ \A x \in Past(s, "RawFile") : x.id \in bytes => x.id \in held
=============================================================================
