------------------------------ MODULE Accounts ------------------------------
(***************************************************************************)
(* Who may use the hub: the members of a Clerk organization, the tenant    *)
(* and user rows that mirror them, the requests that act on these rows,    *)
(* and the end of a tenant (apps/api/src/routes/webhooks.ts, users.ts,     *)
(* tenants.ts, lifecycle-notes.ts; services/clerk-sync.ts, retention.ts;   *)
(* plugins/tenant.ts).                                                     *)
(*                                                                         *)
(* One organization.  Clerk changes by itself and sends one webhook per    *)
(* change; webhooks arrive in any order, late, again, or never.  A         *)
(* reconcile pages through Clerk's members.  A request is authorised       *)
(* first and writes later.  A deleted tenant is purged, table by table,    *)
(* once its grace period is over.  Row ids are not reused: whoever holds   *)
(* the id of a row that was deleted finds nothing.                         *)
(***************************************************************************)
EXTENDS Integers, Sequences, FiniteSets, FiniteSetsExt

CONSTANTS
  Persons,
  Founders,     \* the members at the start, a sequence of [person, role]
  Requests,     \* requests that may be in flight at once
  PageSize,     \* members per page of Clerk's list
  None,
  MaxStimuli    \* bound: changes in Clerk, requests, files ingested, reconciles,
                \* failing calls, lost replies and the founding, all together

ClerkRoles == {"org:admin", "org:member"}
Roles == {"admin", "ops", "viewer"}
Members == [person : Persons, role : ClerkRoles]

\* Clerk lists a member once.
OneEach(list) ==
  \A i, j \in DOMAIN list : list[i].person = list[j].person => i = j

ASSUME AccountsAssumption ==
  /\ None \notin Persons \cup Roles \cup {"active", "deleted", "due"}
  /\ Founders \in Seq(Members) /\ OneEach(Founders)
  /\ PageSize \in Nat \ {0}
  /\ MaxStimuli \in Nat

VARIABLES
  clerk,    \* the organization's members, in the order Clerk lists them
  events,   \* webhooks Clerk has yet to deliver, or delivers again
  tenant,   \* the tenant row: None, active, deleted, or due to be purged
  user,     \* the role in each person's user row, or None
  rows,     \* the tenant's other tables that are not empty
  reqs,     \* per request in flight: its operation and what it names
  sync,     \* the reconcile
  sweep,    \* the table the purge deletes next, or idle
  handled,  \* history: the newest webhook handled for each person
  muddled,  \* history: persons whose row was last written from anything but
            \* the newest change in Clerk that was heard of
  stimuli   \* how many of them there were

hub    == <<tenant, user, rows>>
past   == <<handled, muddled>>
vars   == <<clerk, events, hub, reqs, sync, sweep, past, stimuli>>

NoSync == [phase |-> "idle", offset |-> 0, total |-> 0, page |-> <<>>, seen |-> {},
           left |-> {}, gone |-> {}, lost |-> FALSE,
           clean |-> TRUE, moved |-> FALSE, changed |-> {}]

\* mapClerkRole: nobody becomes ops from Clerk.
MapClerkRole(role) == IF role = "org:admin" THEN "admin" ELSE "viewer"

Listed(p) == \E i \in DOMAIN clerk : clerk[i].person = p
Place(p) == CHOOSE i \in DOMAIN clerk : clerk[i].person = p
ClerkRole(p) == clerk[Place(p)].role

\* What the user rows should be, according to Clerk.
Mirror == [p \in Persons |-> IF Listed(p) THEN MapClerkRole(ClerkRole(p)) ELSE None]

Admins == {p \in Persons : user[p] = "admin"}

\* The requests, when the user rows of P are deleted: a row they name is gone.
Orphaned(P) == [r \in Requests |->
  IF reqs[r].target \in P THEN [reqs[r] EXCEPT !.target = None] ELSE reqs[r]]

\* The reconcile, when somebody else deletes the user rows of P or writes others.
Disturbed(P) == IF sync.phase = "idle" THEN sync
                ELSE [sync EXCEPT !.gone = @ \cup (sync.left \cap P), !.clean = FALSE]

Ops == {"none", "role", "remove", "delete", "undelete", "note"}

NoRequest == [op |-> "none", actor |-> None, target |-> None, role |-> None]

Stimulus == stimuli < MaxStimuli /\ stimuli' = stimuli + 1

Event(kind, p, role) == [no |-> stimuli + 2, kind |-> kind, person |-> p, role |-> role]
-----------------------------------------------------------------------------
\* Either the organization was just created and all its webhooks are under
\* way, or they have all been handled.
Init ==
  /\ clerk = Founders
  /\ \/ /\ tenant = None
        /\ user = [p \in Persons |-> None]
        /\ events = {[no |-> 1, kind |-> "org", person |-> None, role |-> None]}
             \cup {[no |-> 1, kind |-> "upsert", person |-> Founders[i].person,
                    role |-> Founders[i].role] : i \in DOMAIN Founders}
        /\ handled = [p \in Persons |-> 0]
        /\ stimuli = 1
     \/ /\ tenant = "active"
        /\ user = Mirror
        /\ events = {}
        /\ handled = [p \in Persons |-> IF Listed(p) THEN 1 ELSE 0]
        /\ stimuli = 0
  /\ rows = {}
  /\ reqs = [r \in Requests |-> NoRequest]
  /\ sync = NoSync
  /\ sweep = "idle"
  /\ muddled = {}

-----------------------------------------------------------------------------
(***************************************************************************)
(* Clerk.                                                                  *)
(***************************************************************************)
Changes(e) ==
  /\ Stimulus
  /\ events' = events \cup {e}
  /\ sync' = IF sync.phase = "idle" \/ e.kind = "org" THEN sync
             ELSE [sync EXCEPT !.clean = FALSE, !.changed = @ \cup {e.person},
                               !.moved = @ \/ Listed(e.person) # (e.kind = "upsert")]
  /\ UNCHANGED <<hub, reqs, sweep, past>>

\* The order of Clerk's list is its own: a new member comes first or last.
Join(p, role) ==
  LET m == [person |-> p, role |-> role]
  IN  /\ ~Listed(p)
      /\ Changes(Event("upsert", p, role))
      /\ clerk' \in {Append(clerk, m), <<m>> \o clerk}

Leave(p) ==
  /\ Listed(p)
  /\ Changes(Event("delete", p, None))
  /\ clerk' = SubSeq(clerk, 1, Place(p) - 1) \o SubSeq(clerk, Place(p) + 1, Len(clerk))

ChangeRole(p, role) ==
  /\ Listed(p) /\ ClerkRole(p) # role
  /\ Changes(Event("upsert", p, role))
  /\ clerk' = [clerk EXCEPT ![Place(p)] = [person |-> p, role |-> role]]

Rename == Changes(Event("org", None, None)) /\ UNCHANGED clerk

Clerk == \/ \E p \in Persons : Leave(p) \/ \E role \in ClerkRoles : Join(p, role) \/ ChangeRole(p, role)
         \/ Rename
-----------------------------------------------------------------------------
(***************************************************************************)
(* POST /webhooks/clerk.  When the reply is lost Clerk delivers the event  *)
(* once more.                                                              *)
(***************************************************************************)
Delivered(e) ==
  /\ e \in events
  /\ \/ events' = events \ {e} /\ UNCHANGED stimuli
     \/ UNCHANGED events /\ Stimulus

HandleOrg(e) ==
  /\ e.kind = "org"
  /\ Delivered(e)
  /\ tenant' = IF tenant = None THEN "active" ELSE tenant
  /\ sync' = Disturbed({})
  /\ UNCHANGED <<clerk, user, rows, reqs, sweep, past>>

\* A membership event of an organization without a tenant is answered, dropped.
HandleUnknownOrg(e) ==
  /\ e.kind # "org"
  /\ Delivered(e)
  /\ tenant = None
  /\ handled' = [handled EXCEPT ![e.person] = Max({@, e.no})]
  /\ muddled' = muddled \cup {e.person}
  /\ UNCHANGED <<clerk, hub, reqs, sync, sweep>>

\* The row that a membership event leaves behind.
RowAfter(e) == IF e.kind = "delete" THEN None ELSE MapClerkRole(e.role)

HandleMember(e) ==
  LET p == e.person
  IN  /\ e.kind # "org"
      /\ Delivered(e)
      /\ tenant # None
      /\ user' = [user EXCEPT ![p] = RowAfter(e)]
      /\ handled' = [handled EXCEPT ![p] = Max({@, e.no})]
      /\ muddled' = IF e.no < handled[p] THEN muddled \cup {p} ELSE muddled \ {p}
      /\ reqs' = IF e.kind = "delete" THEN Orphaned({p}) ELSE reqs
      /\ sync' = Disturbed(IF e.kind = "delete" THEN {p} ELSE {})
      /\ UNCHANGED <<clerk, tenant, rows, sweep>>

Webhook == \E e \in events :
  HandleOrg(e) \/ HandleUnknownOrg(e) \/ HandleMember(e)

-----------------------------------------------------------------------------
(***************************************************************************)
(* reconcileClerkOrganizations, run by hand or at a desktop boot.          *)
(***************************************************************************)
SyncBegin ==
  /\ sync.phase = "idle" /\ Stimulus
  /\ tenant' = IF tenant = None THEN "active" ELSE tenant
  /\ sync' = [NoSync EXCEPT !.phase = "fetch"]
  /\ UNCHANGED <<clerk, events, user, rows, reqs, sweep, past>>

\* Slip: the loop ends with the page that reaches the last member.
AfterPageEarly(s) == IF s.page # <<>> THEN "upsert"
                     ELSE IF s.offset + PageSize < s.total THEN "fetch" ELSE "list"

\* Where the loop over pages goes once a page is dealt with.
AfterPage(s) == IF s.page # <<>> THEN "upsert" ELSE IF s.offset < s.total THEN "fetch" ELSE "list"

SyncFetch ==
  LET page == SubSeq(clerk, sync.offset + 1, Min({sync.offset + PageSize, Len(clerk)}))
      next == [sync EXCEPT !.page = page, !.offset = @ + Len(page), !.total = Len(clerk)]
  IN  /\ sync.phase = "fetch"
      /\ sync' = [next EXCEPT !.phase = AfterPage(next)]
      /\ UNCHANGED <<clerk, events, hub, reqs, sweep, past, stimuli>>

\* One member of the page.  An upsert into a tenant that was purged fails.
SyncUpsert ==
  LET m == Head(sync.page)
      next == [sync EXCEPT !.page = Tail(@), !.seen = @ \cup {m.person}]
  IN  /\ sync.phase = "upsert" /\ ~sync.lost
      /\ user' = [user EXCEPT ![m.person] = MapClerkRole(m.role)]
      /\ muddled' = IF m.person \in sync.changed THEN muddled \cup {m.person}
                                                 ELSE muddled \ {m.person}
      /\ sync' = [next EXCEPT !.phase = AfterPage(next)]
      /\ UNCHANGED <<clerk, events, tenant, rows, reqs, sweep, handled, stimuli>>

\* findMany: the rows of nobody that was seen.
SyncList ==
  /\ sync.phase = "list"
  /\ sync' = [sync EXCEPT !.phase = "remove",
        !.left = IF sync.lost THEN {} ELSE {p \in Persons \ sync.seen : user[p] # None}]
  /\ UNCHANGED <<clerk, events, hub, reqs, sweep, past, stimuli>>

SyncRemove(p) ==
  /\ sync.phase = "remove" /\ p \in sync.left \ sync.gone
  /\ user' = [user EXCEPT ![p] = None]
  /\ reqs' = Orphaned({p})
  /\ muddled' = IF p \in sync.changed \/ sync.moved THEN muddled \cup {p} ELSE muddled \ {p}
  /\ sync' = [sync EXCEPT !.left = @ \ {p}]
  /\ UNCHANGED <<clerk, events, tenant, rows, sweep, handled, stimuli>>

SyncEnd ==
  /\ sync.phase = "remove" /\ sync.left = {}
  /\ sync' = NoSync
  /\ UNCHANGED <<clerk, events, hub, reqs, sweep, past, stimuli>>

\* A row to remove, or the tenant, is no longer there: the reconcile throws.
SyncThrows ==
  /\ \/ sync.phase = "upsert" /\ sync.lost
     \/ sync.phase = "remove" /\ sync.gone # {}
  /\ sync' = NoSync
  /\ UNCHANGED <<clerk, events, hub, reqs, sweep, past, stimuli>>

SyncFails ==
  /\ sync.phase # "idle" /\ Stimulus
  /\ sync' = NoSync
  /\ UNCHANGED <<clerk, events, hub, reqs, sweep, past>>

Sync == \/ SyncBegin \/ SyncFetch \/ SyncUpsert \/ SyncList \/ SyncEnd \/ SyncThrows \/ SyncFails
        \/ \E p \in Persons : SyncRemove(p)
-----------------------------------------------------------------------------
(***************************************************************************)
(* Requests.  The hooks of the tenant plugin look up tenant and user and   *)
(* compare the role; the checks at the head of the handler follow at once. *)
(* The handler's transaction commits later.                                *)
(***************************************************************************)
\* Slip: a suspended tenant lets its users in.
AuthorisedSuspended(r, p, allowed) ==
  /\ reqs[r] = NoRequest
  /\ tenant # None
  /\ user[p] \in allowed

Authorised(r, p, allowed) ==
  /\ reqs[r] = NoRequest
  /\ tenant = "active"
  /\ user[p] \in allowed

Send(r, op, p, q, role) ==
  /\ reqs' = [reqs EXCEPT ![r] = [op |-> op, actor |-> p, target |-> q, role |-> role]]
  /\ Stimulus
  /\ UNCHANGED <<clerk, events, hub, sync, sweep, past>>

\* Slip: no guard against demoting oneself.
AskRoleUnguarded(r, p, q, role) ==
  /\ Authorised(r, p, {"admin"})
  /\ user[q] # None
  /\ Send(r, "role", p, q, role)

\* PATCH /users/:id, with its guard against demoting oneself.
AskRole(r, p, q, role) ==
  /\ Authorised(r, p, {"admin"})
  /\ user[q] # None
  /\ q = p => role = "admin"
  /\ Send(r, "role", p, q, role)

\* DELETE /users/:id.
AskRemove(r, p, q) ==
  /\ Authorised(r, p, {"admin"})
  /\ user[q] # None /\ q # p
  /\ Send(r, "remove", p, q, None)

\* DELETE /tenants/me and POST /tenants/me/undelete.
AskTenant(r, p, op) ==
  /\ Authorised(r, p, {"admin"})
  /\ Send(r, op, p, None, None)

\* POST /lifecycles/:po/notes: the note names its author's row.
AskNote(r, p) ==
  /\ Authorised(r, p, {"admin", "ops"})
  /\ Send(r, "note", p, p, None)

Ask == \E r \in Requests, p \in Persons :
  \/ \E q \in Persons : AskRemove(r, p, q) \/ \E role \in Roles : AskRole(r, p, q, role)
  \/ \E op \in {"delete", "undelete"} : AskTenant(r, p, op)
  \/ AskNote(r, p)

\* The transaction of request r commits, with its audit row.
Commits(r, op) ==
  /\ reqs[r].op = op
  /\ tenant # None
  /\ op \in {"role", "remove", "note"} => reqs[r].target # None

SetRole(r) ==
  /\ Commits(r, "role")
  /\ user' = [user EXCEPT ![reqs[r].target] = reqs[r].role]
  /\ rows' = rows \cup {"audit"}
  /\ muddled' = muddled \cup {reqs[r].target}
  /\ sync' = Disturbed({})
  /\ reqs' = [reqs EXCEPT ![r] = NoRequest]
  /\ UNCHANGED <<clerk, events, tenant, sweep, handled, stimuli>>

RemoveUser(r) ==
  LET q == reqs[r].target
  IN  /\ Commits(r, "remove")
      /\ user' = [user EXCEPT ![q] = None]
      /\ rows' = rows \cup {"audit"}
      /\ muddled' = muddled \cup {q}
      /\ sync' = Disturbed({q})
      /\ reqs' = [Orphaned({q}) EXCEPT ![r] = NoRequest]
      /\ UNCHANGED <<clerk, events, tenant, sweep, handled, stimuli>>

DeleteTenant(r) ==
  /\ Commits(r, "delete")
  /\ tenant' = "deleted"
  /\ rows' = rows \cup {"audit"}
  /\ reqs' = [reqs EXCEPT ![r] = NoRequest]
  /\ UNCHANGED <<clerk, events, user, sync, sweep, past, stimuli>>

\* Without a pending delete nothing is written.
Undelete(r) ==
  /\ Commits(r, "undelete")
  /\ tenant' = "active"
  /\ rows' = IF tenant = "active" THEN rows ELSE rows \cup {"audit"}
  /\ reqs' = [reqs EXCEPT ![r] = NoRequest]
  /\ UNCHANGED <<clerk, events, user, sync, sweep, past, stimuli>>

AddNote(r) ==
  /\ Commits(r, "note")
  /\ rows' = rows \cup {"audit", "notes"}
  /\ reqs' = [reqs EXCEPT ![r] = NoRequest]
  /\ UNCHANGED <<clerk, events, tenant, user, sync, sweep, past, stimuli>>

\* The row is gone: the transaction rolls back, the reply is an error.
Refuse(r) ==
  /\ reqs[r] # NoRequest
  /\ ~Commits(r, reqs[r].op)
  /\ reqs' = [reqs EXCEPT ![r] = NoRequest]
  /\ UNCHANGED <<clerk, events, hub, sync, sweep, past, stimuli>>

Act == \E r \in Requests :
  SetRole(r) \/ RemoveUser(r) \/ DeleteTenant(r) \/ Undelete(r) \/ AddNote(r) \/ Refuse(r)

-----------------------------------------------------------------------------
(***************************************************************************)
(* The end of a tenant.                                                    *)
(***************************************************************************)
\* A drop folder feeds its tenant, suspended or not.
Ingest ==
  /\ tenant # None /\ "data" \notin rows /\ Stimulus
  /\ rows' = rows \cup {"data"}
  /\ UNCHANGED <<clerk, events, tenant, user, reqs, sync, sweep, past>>

\* Thirty days pass, and with them every request that was in flight.
GraceEnds ==
  /\ tenant = "deleted"
  /\ \A r \in Requests : reqs[r] = NoRequest
  /\ tenant' = "due"
  /\ UNCHANGED <<clerk, events, user, rows, reqs, sync, sweep, past, stimuli>>

\* sweepDeletedTenants: the tenants that are due are read once.
SweepBegin ==
  /\ sweep = "idle" /\ tenant = "due"
  /\ sweep' = "data"
  /\ UNCHANGED <<clerk, events, hub, reqs, sync, past, stimuli>>

\* Interchanges, files, alerts and partners.
SweepData ==
  /\ sweep = "data"
  /\ rows' = rows \ {"data"}
  /\ sweep' = "users"
  /\ UNCHANGED <<clerk, events, tenant, user, reqs, sync, past, stimuli>>

SweepUsers ==
  /\ sweep = "users"
  /\ user' = [p \in Persons |-> None]
  /\ reqs' = Orphaned(Persons)
  /\ sync' = Disturbed(Persons)
  /\ muddled' = Persons
  /\ sweep' = "audit"
  /\ UNCHANGED <<clerk, events, tenant, rows, handled, stimuli>>

\* Slip: the audit table is left out.
SweepAuditKept ==
  /\ sweep = "audit"
  /\ sweep' = "tenant"
  /\ UNCHANGED <<clerk, events, hub, reqs, sync, past, stimuli>>

SweepAudit ==
  /\ sweep = "audit"
  /\ rows' = rows \ {"audit"}
  /\ sweep' = "tenant"
  /\ UNCHANGED <<clerk, events, tenant, user, reqs, sync, past, stimuli>>

Unreferenced == rows = {} /\ \A p \in Persons : user[p] = None

SweepTenant ==
  /\ sweep = "tenant" /\ Unreferenced
  /\ tenant' = None
  /\ sync' = IF sync.phase = "idle" THEN sync ELSE [Disturbed({}) EXCEPT !.lost = TRUE]
  /\ sweep' = "idle"
  /\ UNCHANGED <<clerk, events, user, rows, reqs, past, stimuli>>

\* A foreign key still points to the tenant: the sweep throws.
SweepThrows ==
  /\ sweep = "tenant" /\ ~Unreferenced
  /\ sweep' = "idle"
  /\ UNCHANGED <<clerk, events, hub, reqs, sync, past, stimuli>>

SweepFails ==
  /\ sweep # "idle" /\ Stimulus
  /\ sweep' = "idle"
  /\ UNCHANGED <<clerk, events, hub, reqs, sync, past>>

SweepStep == SweepBegin \/ SweepData \/ SweepUsers \/ SweepAudit \/ SweepTenant \/ SweepThrows
-----------------------------------------------------------------------------
Next == Clerk \/ Webhook \/ Sync \/ Ask \/ Act \/ Ingest \/ GraceEnds \/ SweepStep \/ SweepFails

Spec == Init /\ [][Next]_vars

\* The retention task is started every day and its calls settle.
FairSpec == Spec /\ WF_vars(SweepStep)
-----------------------------------------------------------------------------
(***************************************************************************)
(* Properties.                                                             *)
(***************************************************************************)
\* The user rows follow Clerk's list.  When no webhook is outstanding, a person
\* has the row the list calls for, unless the last write to it was a hub edit, an
\* event overtaken by a newer one, an event without a tenant, or a reconcile that
\* ran across a change (routes/webhooks.ts:145-200); and an undisturbed reconcile
\* repairs whatever was left behind: if nobody else touched Clerk, the users or
\* the tenant while it ran, it ends with one row per member, in that member's
\* role (services/clerk-sync.ts:92-139).
RowsMirrorClerk ==
  /\ events = {} /\ sync.phase = "idle" => \A p \in Persons \ muddled : user[p] = Mirror[p]
  /\ sync.phase = "remove" /\ sync.left = {} /\ sync.clean => user = Mirror

\* The guards against demoting or deleting oneself keep an administrator: the
\* only request that can take the last one away is one whose sender is no
\* longer an administrator when it commits (routes/users.ts:132, 189).
LastAdminFallsToStaleRequests ==
  [][\A r \in Requests :
       reqs[r].op \in {"role", "remove"} /\ reqs'[r] = NoRequest
       /\ Admins # {} /\ Admins' = {}
       => reqs[r].actor \notin Admins]_vars

\* Nothing is purged before its grace period is over, and once it is over the
\* tenant does not come back to life (services/retention.ts:217-246,
\* plugins/tenant.ts:167).
DueIsFinal ==
  [][/\ tenant # None /\ tenant' = None => tenant = "due"
     /\ sweep = "data" /\ sweep' = "users" => tenant = "due"
     /\ tenant = "due" => tenant' \in {"due", None}]_vars

\* A tenant that is due is purged in the end, whatever fails or is written
\* meanwhile, unless somebody has left a note (services/retention.ts:212-246).
PurgeCompletes == tenant = "due" ~> tenant = None \/ "notes" \in rows
=============================================================================
