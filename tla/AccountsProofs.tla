--------------------------- MODULE AccountsProofs ---------------------------
(***************************************************************************)
(* Theorems about Accounts, for any persons, any members at the start, any *)
(* number of requests in flight and any bound on what happens; and about   *)
(* Orders, for any catalogue of files, any partners and any look-back.     *)
(***************************************************************************)
EXTENDS Accounts, Orders, FiniteSetTheorems, SequenceTheorems,
        NaturalsInduction, WellFoundedInduction, TLAPS

Sent == [op : Ops, actor : Persons \cup {None}, target : Persons \cup {None},
         role : Roles \cup {None}]

\* What the hooks and the head of the handler established for a request.
Checked(q) == /\ q.op \in {"role", "remove"} => q.actor \in Persons
              /\ q.op = "role" => q.role \in Roles /\ (q.target = q.actor => q.role = "admin")
              /\ q.op = "remove" => q.target # q.actor

GuardInv == /\ user \in [Persons -> Roles \cup {None}]
            /\ reqs \in [Requests -> Sent]
            /\ \A r \in Requests : Checked(reqs[r])

\* Every step but the commit of a request leaves the requests in flight as they
\* are, except that a row they name may go.
LEMMA OrphanedFacts ==
  ASSUME reqs \in [Requests -> Sent], NEW P
  PROVE  /\ Orphaned(P) \in [Requests -> Sent]
         /\ \A r \in Requests : /\ Orphaned(P)[r].op = reqs[r].op
                                /\ Orphaned(P)[r].actor = reqs[r].actor
                                /\ Orphaned(P)[r].role = reqs[r].role
                                /\ Orphaned(P)[r].target \in {None, reqs[r].target}
<1> DEFINE gone(r) == [op |-> reqs[r].op, actor |-> reqs[r].actor, target |-> None,
                       role |-> reqs[r].role]
<1>1. ASSUME NEW r \in Requests
      PROVE  [reqs[r] EXCEPT !.target = None] = gone(r) /\ gone(r) \in Sent
  BY DEF Sent
<1>2. \A r \in Requests : Orphaned(P)[r] \in {reqs[r], gone(r)}
  BY <1>1 DEF Orphaned
<1>3. Orphaned(P) = [r \in Requests |-> Orphaned(P)[r]]
  BY DEF Orphaned
<1>4. \A r \in Requests : Orphaned(P)[r] \in Sent
  BY <1>1, <1>2
<1>5. \A r \in Requests : /\ gone(r).op = reqs[r].op
                          /\ gone(r).actor = reqs[r].actor
                          /\ gone(r).role = reqs[r].role
                          /\ gone(r).target = None
  OBVIOUS
<1> HIDE DEF gone
<1>6. Orphaned(P) \in [Requests -> Sent]
  BY <1>3, <1>4
<1> QED
  BY <1>2, <1>5, <1>6

LEMMA OrphanedChecked ==
  ASSUME GuardInv, NEW P, NEW r \in Requests
  PROVE  Checked(Orphaned(P)[r])
<1>1. /\ Orphaned(P)[r].op = reqs[r].op
      /\ Orphaned(P)[r].actor = reqs[r].actor
      /\ Orphaned(P)[r].role = reqs[r].role
      /\ Orphaned(P)[r].target \in {None, reqs[r].target}
  BY OrphanedFacts DEF GuardInv
<1>2. None \notin Persons
  BY AccountsAssumption
<1> QED
  BY <1>1, <1>2 DEF GuardInv, Checked

LEMMA NoRequestFacts ==
  NoRequest \in Sent /\ Checked(NoRequest) /\ NoRequest.op = "none"
<1>1. NoRequest.op = "none"
  BY DEF NoRequest
<1>2. NoRequest \in Sent
  BY DEF NoRequest, Sent, Ops
<1> QED
  BY <1>1, <1>2 DEF Checked

LEMMA RoleType == ASSUME NEW role PROVE MapClerkRole(role) \in Roles
BY DEF MapClerkRole, Roles

\* A step that writes nothing but rows of users, or orphans requests.
Passive == \/ reqs' = reqs
           \/ \E P : reqs' = Orphaned(P)

LEMMA ClerkStep == ASSUME Clerk PROVE reqs' = reqs /\ user' = user
BY DEF Clerk, Join, Leave, ChangeRole, Rename, Changes, hub

LEMMA WebhookStep ==
  ASSUME user \in [Persons -> Roles \cup {None}], Webhook
  PROVE  Passive /\ user' \in [Persons -> Roles \cup {None}]
<1> PICK e \in events : HandleOrg(e) \/ HandleUnknownOrg(e) \/ HandleMember(e)
  BY DEF Webhook
<1>1. CASE HandleOrg(e)
  BY <1>1 DEF HandleOrg, Passive
<1>2. CASE HandleUnknownOrg(e)
  BY <1>2 DEF HandleUnknownOrg, Passive, hub
<1>3. CASE HandleMember(e)
  <2>1. RowAfter(e) \in Roles \cup {None}
    BY RoleType DEF RowAfter
  <2>2. user' = [user EXCEPT ![e.person] = RowAfter(e)]
    BY <1>3 DEF HandleMember
  <2>3. Passive
    BY <1>3 DEF HandleMember, Passive
  <2> QED
    BY <2>1, <2>2, <2>3
<1> QED
  BY <1>1, <1>2, <1>3

LEMMA SyncStep ==
  ASSUME user \in [Persons -> Roles \cup {None}], Sync
  PROVE  Passive /\ user' \in [Persons -> Roles \cup {None}]
<1>1. CASE SyncUpsert
  <2>1. PICK m : /\ user' = [user EXCEPT ![m.person] = MapClerkRole(m.role)]
                 /\ reqs' = reqs
    BY <1>1 DEF SyncUpsert
  <2> QED
    BY <2>1, RoleType DEF Passive
<1>2. CASE \E p \in Persons : SyncRemove(p)
  BY <1>2 DEF SyncRemove, Passive
<1>3. CASE SyncBegin \/ SyncFetch \/ SyncList \/ SyncEnd \/ SyncThrows \/ SyncFails
  BY <1>3 DEF SyncBegin, SyncFetch, SyncList, SyncEnd, SyncThrows, SyncFails, Passive, hub
<1> QED
  BY <1>1, <1>2, <1>3 DEF Sync

LEMMA SweepAndIngest ==
  ASSUME user \in [Persons -> Roles \cup {None}],
         Ingest \/ GraceEnds \/ SweepStep \/ SweepFails
  PROVE  Passive /\ user' \in [Persons -> Roles \cup {None}]
<1>1. CASE SweepUsers
  BY <1>1 DEF SweepUsers, Passive
<1>2. CASE Ingest \/ GraceEnds \/ SweepBegin \/ SweepData \/ SweepAudit \/ SweepTenant \/ SweepThrows \/ SweepFails
  BY <1>2 DEF Ingest, GraceEnds, SweepBegin, SweepData, SweepAudit, SweepTenant, SweepThrows, SweepFails, Passive, hub
<1> QED
  BY <1>1, <1>2 DEF SweepStep

LEMMA PassiveKeepsGuard ==
  ASSUME GuardInv, Passive
  PROVE  reqs' \in [Requests -> Sent] /\ \A r \in Requests : Checked(reqs'[r])
<1>1. CASE reqs' = reqs
  BY <1>1 DEF GuardInv
<1>2. CASE \E P : reqs' = Orphaned(P)
  <2> PICK P : reqs' = Orphaned(P)
    BY <1>2
  <2> QED
    BY OrphanedFacts, OrphanedChecked DEF GuardInv
<1> QED
  BY <1>1, <1>2 DEF Passive

\* What a request has passed when it is sent.
Begun(r, q) == /\ reqs[r] = NoRequest /\ tenant = "active"
               /\ q \in Sent /\ Checked(q) /\ q.op # "none"
               /\ reqs' = [reqs EXCEPT ![r] = q]

LEMMA AskFacts ==
  ASSUME Ask
  PROVE  user' = user /\ \E r \in Requests, q \in Sent : Begun(r, q)
<1> PICK r \in Requests, p \in Persons :
      \/ \E q \in Persons : AskRemove(r, p, q) \/ \E role \in Roles : AskRole(r, p, q, role)
      \/ \E op \in {"delete", "undelete"} : AskTenant(r, p, op)
      \/ AskNote(r, p)
  BY DEF Ask
<1>1. CASE \E q \in Persons : AskRemove(r, p, q)
  <2> PICK q \in Persons : AskRemove(r, p, q)
    BY <1>1
  <2> DEFINE s == [op |-> "remove", actor |-> p, target |-> q, role |-> None]
  <2>1. /\ user' = user /\ reqs[r] = NoRequest /\ tenant = "active"
        /\ reqs' = [reqs EXCEPT ![r] = s]
    BY DEF AskRemove, Authorised, Send, hub
  <2>2. s \in Sent
    BY DEF Sent, Ops
  <2>3. Checked(s) /\ s.op # "none"
    BY DEF AskRemove, Checked
  <2> HIDE DEF s
  <2> QED
    BY <2>1, <2>2, <2>3 DEF Begun
<1>2. CASE \E q \in Persons : \E role \in Roles : AskRole(r, p, q, role)
  <2> PICK q \in Persons, role \in Roles : AskRole(r, p, q, role)
    BY <1>2
  <2> DEFINE s == [op |-> "role", actor |-> p, target |-> q, role |-> role]
  <2>1. /\ user' = user /\ reqs[r] = NoRequest /\ tenant = "active"
        /\ reqs' = [reqs EXCEPT ![r] = s]
    BY DEF AskRole, Authorised, Send, hub
  <2>2. s \in Sent
    BY DEF Sent, Ops
  <2>3. Checked(s) /\ s.op # "none"
    BY DEF AskRole, Checked
  <2> HIDE DEF s
  <2> QED
    BY <2>1, <2>2, <2>3 DEF Begun
<1>3. CASE \E op \in {"delete", "undelete"} : AskTenant(r, p, op)
  <2> PICK op \in {"delete", "undelete"} : AskTenant(r, p, op)
    BY <1>3
  <2> DEFINE s == [op |-> op, actor |-> p, target |-> None, role |-> None]
  <2>1. /\ user' = user /\ reqs[r] = NoRequest /\ tenant = "active"
        /\ reqs' = [reqs EXCEPT ![r] = s]
    BY DEF AskTenant, Authorised, Send, hub
  <2>2. s \in Sent
    BY DEF Sent, Ops
  <2>3. Checked(s) /\ s.op # "none"
    BY DEF AskTenant, Checked
  <2> HIDE DEF s
  <2> QED
    BY <2>1, <2>2, <2>3 DEF Begun
<1>4. CASE AskNote(r, p)
  <2> DEFINE s == [op |-> "note", actor |-> p, target |-> p, role |-> None]
  <2>1. /\ user' = user /\ reqs[r] = NoRequest /\ tenant = "active"
        /\ reqs' = [reqs EXCEPT ![r] = s]
    BY <1>4 DEF AskNote, Authorised, Send, hub
  <2>2. s \in Sent
    BY DEF Sent, Ops
  <2>3. Checked(s) /\ s.op # "none"
    BY <1>4 DEF AskNote, Checked
  <2> HIDE DEF s
  <2> QED
    BY <2>1, <2>2, <2>3 DEF Begun
<1> QED
  BY <1>1, <1>2, <1>3, <1>4

\* A commit or refusal ends one request, and orphans or keeps the others.
LEMMA ActFacts ==
  ASSUME GuardInv, NEW r \in Requests,
         SetRole(r) \/ RemoveUser(r) \/ DeleteTenant(r) \/ Undelete(r) \/ AddNote(r) \/ Refuse(r)
  PROVE  /\ reqs[r] # NoRequest
         /\ user' \in [Persons -> Roles \cup {None}]
         /\ \E P : reqs' = [Orphaned(P) EXCEPT ![r] = NoRequest]
<1>1. Orphaned({}) = reqs
  BY DEF Orphaned, GuardInv
<1>2. CASE SetRole(r)
  <2>1. reqs[r].role \in Roles /\ reqs[r].op = "role"
    BY <1>2 DEF SetRole, Commits, GuardInv, Checked
  <2>2. /\ user' = [user EXCEPT ![reqs[r].target] = reqs[r].role]
        /\ reqs' = [reqs EXCEPT ![r] = NoRequest]
    BY <1>2 DEF SetRole
  <2> QED
    BY <1>1, <2>1, <2>2, NoRequestFacts DEF GuardInv
<1>3. CASE RemoveUser(r)
  <2>1. /\ user' = [user EXCEPT ![reqs[r].target] = None]
        /\ reqs' = [Orphaned({reqs[r].target}) EXCEPT ![r] = NoRequest]
        /\ reqs[r].op = "remove"
    BY <1>3 DEF RemoveUser, Commits
  <2> QED
    BY <2>1, NoRequestFacts DEF GuardInv
<1>4. CASE DeleteTenant(r) \/ Undelete(r) \/ AddNote(r)
  <2>1. /\ user' = user
        /\ reqs' = [reqs EXCEPT ![r] = NoRequest]
        /\ reqs[r].op \in {"delete", "undelete", "note"}
    BY <1>4 DEF DeleteTenant, Undelete, AddNote, Commits
  <2> QED
    BY <1>1, <2>1, NoRequestFacts DEF GuardInv
<1>5. CASE Refuse(r)
  BY <1>1, <1>5 DEF Refuse, hub, GuardInv
<1> QED
  BY <1>2, <1>3, <1>4, <1>5

LEMMA InitGuard == ASSUME Init PROVE GuardInv
<1>1. user \in [Persons -> Roles \cup {None}]
  <2>1. [p \in Persons |-> None] \in [Persons -> Roles \cup {None}]
    OBVIOUS
  <2>2. Mirror \in [Persons -> Roles \cup {None}]
    BY RoleType DEF Mirror
  <2> QED
    BY <2>1, <2>2 DEF Init
<1>2. reqs = [r \in Requests |-> NoRequest]
  BY DEF Init
<1> QED
  BY <1>1, <1>2, NoRequestFacts DEF GuardInv

LEMMA ActOnOthers ==
  ASSUME GuardInv, NEW r \in Requests, NEW P,
         reqs' = [Orphaned(P) EXCEPT ![r] = NoRequest]
  PROVE  /\ reqs' \in [Requests -> Sent]
         /\ \A q \in Requests : Checked(reqs'[q])
         /\ \A q \in Requests \ {r} : reqs'[q].op = reqs[q].op
<1>1. Orphaned(P) \in [Requests -> Sent]
  BY OrphanedFacts DEF GuardInv
<1>2. /\ reqs' \in [Requests -> Sent]
      /\ reqs'[r] = NoRequest
      /\ \A q \in Requests \ {r} : reqs'[q] = Orphaned(P)[q]
  BY <1>1, NoRequestFacts
<1> QED
  BY <1>2, OrphanedFacts, OrphanedChecked, NoRequestFacts DEF GuardInv

LEMMA NextGuard == ASSUME GuardInv, [Next]_vars PROVE GuardInv'
<1>1. CASE Clerk
  BY <1>1, ClerkStep DEF GuardInv
<1>2. CASE Webhook \/ Sync \/ Ingest \/ GraceEnds \/ SweepStep \/ SweepFails
  <2>1. Passive /\ user' \in [Persons -> Roles \cup {None}]
    BY <1>2, WebhookStep, SyncStep, SweepAndIngest DEF GuardInv
  <2> QED
    BY <2>1, PassiveKeepsGuard DEF GuardInv
<1>3. CASE Ask
  <2> PICK r \in Requests, q \in Sent : Begun(r, q)
    BY <1>3, AskFacts
  <2>1. user' = user
    BY <1>3, AskFacts
  <2> QED
    BY <2>1 DEF Begun, GuardInv
<1>4. CASE Act
  <2> PICK r \in Requests :
        SetRole(r) \/ RemoveUser(r) \/ DeleteTenant(r) \/ Undelete(r) \/ AddNote(r) \/ Refuse(r)
    BY <1>4 DEF Act
  <2>1. user' \in [Persons -> Roles \cup {None}] /\ \E P : reqs' = [Orphaned(P) EXCEPT ![r] = NoRequest]
    BY ActFacts
  <2> QED
    BY <2>1, ActOnOthers DEF GuardInv
<1>5. CASE UNCHANGED vars
  BY <1>5 DEF vars, hub, GuardInv
<1> QED
  BY <1>1, <1>2, <1>3, <1>4, <1>5 DEF Next

\* What LastAdminFallsToStaleRequests says of request r in one step.
LEMMA LastAdminStep ==
  ASSUME GuardInv, [Next]_vars, NEW r \in Requests,
         reqs[r].op \in {"role", "remove"}, reqs'[r] = NoRequest,
         Admins # {}, Admins' = {}, reqs[r].actor \in Admins
  PROVE  FALSE
<1>0. reqs'[r].op # reqs[r].op /\ reqs[r] # NoRequest
  BY NoRequestFacts
<1>1. CASE Clerk \/ UNCHANGED vars
  BY <1>0, <1>1, ClerkStep DEF vars
<1>2. CASE Webhook \/ Sync \/ Ingest \/ GraceEnds \/ SweepStep \/ SweepFails
  <2>1. Passive
    BY <1>2, WebhookStep, SyncStep, SweepAndIngest DEF GuardInv
  <2> QED
    BY <1>0, <2>1, OrphanedFacts DEF Passive, GuardInv
<1>3. CASE Ask
  <2>1. user' = user
    BY <1>3, AskFacts
  <2> QED
    BY <2>1 DEF Admins
<1>4. CASE Act
  <2> PICK q \in Requests :
        SetRole(q) \/ RemoveUser(q) \/ DeleteTenant(q) \/ Undelete(q) \/ AddNote(q) \/ Refuse(q)
    BY <1>4 DEF Act
  <2>1. q = r
    BY <1>0, ActFacts, ActOnOthers
  <2>2. reqs[r].actor \in Persons /\ user[reqs[r].actor] = "admin"
    BY DEF Admins
  <2>3. CASE SetRole(r)
    <3>1. user' = [user EXCEPT ![reqs[r].target] = reqs[r].role] /\ reqs[r].op = "role"
      BY <2>3 DEF SetRole, Commits
    <3>2. user'[reqs[r].actor] = "admin"
      BY <2>2, <3>1 DEF GuardInv, Checked
    <3> QED
      BY <2>2, <3>2 DEF Admins
  <2>4. CASE RemoveUser(r)
    <3>1. user' = [user EXCEPT ![reqs[r].target] = None] /\ reqs[r].op = "remove"
      BY <2>4 DEF RemoveUser, Commits
    <3>2. user'[reqs[r].actor] = "admin"
      BY <2>2, <3>1 DEF GuardInv, Checked
    <3> QED
      BY <2>2, <3>2 DEF Admins
  <2>5. CASE DeleteTenant(r) \/ Undelete(r) \/ AddNote(r)
    BY <2>5 DEF DeleteTenant, Undelete, AddNote, Commits
  <2>6. CASE Refuse(r)
    BY <2>6 DEF Refuse, hub, Admins
  <2> QED
    BY <2>1, <2>3, <2>4, <2>5, <2>6
<1> QED
  BY <1>1, <1>2, <1>3, <1>4 DEF Next

\* No request takes the last administrator away while its sender is one: the
\* guards of PATCH and DELETE /users/:id (routes/users.ts:132, 189) suffice,
\* whatever Clerk, the reconcile and other requests do in between.
THEOREM LastAdminIsGuarded == Spec => LastAdminFallsToStaleRequests
<1>1. Init => GuardInv
  BY InitGuard
<1>2. GuardInv /\ [Next]_vars => GuardInv'
  BY NextGuard
<1>3. GuardInv /\ [Next]_vars =>
        [\A r \in Requests :
           reqs[r].op \in {"role", "remove"} /\ reqs'[r] = NoRequest
           /\ Admins # {} /\ Admins' = {}
           => reqs[r].actor \notin Admins]_vars
  BY LastAdminStep
<1> QED
  BY <1>1, <1>2, <1>3, PTL DEF Spec, LastAdminFallsToStaleRequests

-----------------------------------------------------------------------------
(***************************************************************************)
(* The end of a tenant.                                                    *)
(***************************************************************************)
\* Nobody is served while the tenant is due, and only a tenant that is due is
\* swept.
DueInv == /\ tenant = "due" => \A r \in Requests : reqs[r] = NoRequest
          /\ sweep # "idle" => tenant = "due"

LEMMA OrphanedIdle ==
  ASSUME NEW P, NEW r \in Requests, reqs[r] = NoRequest
  PROVE  Orphaned(P)[r] = NoRequest
<1>1. [NoRequest EXCEPT !.target = None] = NoRequest
  BY DEF NoRequest
<1> QED
  BY <1>1 DEF Orphaned

LEMMA PassiveKeepsIdle ==
  ASSUME Passive, NEW r \in Requests, reqs[r] = NoRequest
  PROVE  reqs'[r] = NoRequest
BY OrphanedIdle DEF Passive

LEMMA NoneIsNoState == None \notin {"active", "deleted", "due"}
BY AccountsAssumption

\* The step of each part of the system, as far as the tenant is concerned.
TenantStep ==
  /\ tenant = "due" => tenant' \in {"due", None}
  /\ tenant # None /\ tenant' = None => tenant = "due"
  /\ sweep = "data" /\ sweep' = "users" => tenant = "due"

LEMMA NextDue ==
  ASSUME GuardInv, DueInv, [Next]_vars
  PROVE  DueInv' /\ TenantStep
<1> USE NoneIsNoState
<1>1. CASE Clerk \/ UNCHANGED vars
  <2>1. UNCHANGED <<tenant, reqs, sweep>>
    BY <1>1 DEF Clerk, Join, Leave, ChangeRole, Rename, Changes, hub, vars
  <2> QED
    BY <2>1 DEF DueInv, TenantStep
<1>2. CASE Webhook \/ Sync
  <2>1. tenant' = tenant \/ (tenant = None /\ tenant' = "active")
    BY <1>2 DEF Webhook, HandleOrg, HandleUnknownOrg, HandleMember, Sync, SyncBegin, SyncFetch,
                SyncUpsert, SyncList, SyncRemove, SyncEnd, SyncThrows, SyncFails, hub
  <2>2. sweep' = sweep
    BY <1>2 DEF Webhook, HandleOrg, HandleUnknownOrg, HandleMember, Sync, SyncBegin, SyncFetch,
                SyncUpsert, SyncList, SyncRemove, SyncEnd, SyncThrows, SyncFails
  <2>3. Passive
    BY <1>2, WebhookStep, SyncStep DEF GuardInv
  <2>4. tenant' = "due" => \A r \in Requests : reqs'[r] = NoRequest
    BY <2>1, <2>3, PassiveKeepsIdle DEF DueInv
  <2> QED
    BY <2>1, <2>2, <2>4 DEF DueInv, TenantStep
<1>3. CASE Ask
  <2>1. tenant = "active" /\ tenant' = tenant /\ sweep' = sweep
    BY <1>3 DEF Ask, AskRemove, AskRole, AskTenant, AskNote, Authorised, Send, hub
  <2> QED
    BY <2>1 DEF DueInv, TenantStep
<1>4. CASE Act
  <2> PICK r \in Requests :
        SetRole(r) \/ RemoveUser(r) \/ DeleteTenant(r) \/ Undelete(r) \/ AddNote(r) \/ Refuse(r)
    BY <1>4 DEF Act
  <2>1. tenant # "due" /\ sweep = "idle"
    BY ActFacts DEF DueInv
  <2>2. sweep' = sweep /\ (tenant' = tenant \/ tenant' \in {"active", "deleted"})
    BY DEF SetRole, RemoveUser, DeleteTenant, Undelete, AddNote, Refuse, hub
  <2> QED
    BY <2>1, <2>2 DEF DueInv, TenantStep
<1>5. CASE Ingest \/ SweepBegin \/ SweepData \/ SweepAudit \/ SweepThrows \/ SweepFails
  <2>1. UNCHANGED <<tenant, reqs>>
    BY <1>5 DEF Ingest, SweepBegin, SweepData, SweepAudit, SweepThrows, SweepFails, hub
  <2>2. sweep' # "idle" => tenant = "due"
    BY <1>5 DEF Ingest, SweepBegin, SweepData, SweepAudit, SweepThrows, SweepFails, DueInv
  <2> QED
    BY <2>1, <2>2 DEF DueInv, TenantStep
<1>6. CASE GraceEnds
  BY <1>6 DEF GraceEnds, DueInv, TenantStep
<1>7. CASE SweepUsers
  <2>1. tenant' = tenant /\ sweep = "users" /\ reqs' = Orphaned(Persons)
    BY <1>7 DEF SweepUsers
  <2> QED
    BY <2>1, OrphanedIdle DEF DueInv, TenantStep
<1>8. CASE SweepTenant
  <2>1. tenant' = None /\ sweep' = "idle" /\ sweep = "tenant"
    BY <1>8 DEF SweepTenant
  <2> QED
    BY <2>1 DEF DueInv, TenantStep
<1> QED
  BY <1>1, <1>2, <1>3, <1>4, <1>5, <1>6, <1>7, <1>8 DEF Next, SweepStep

\* A tenant leaves only when it is due, and once due it does nothing else: what
\* the retention task read stays true while it deletes table by table
\* (services/retention.ts:217-246, plugins/tenant.ts:167).
THEOREM DueTenantsStayDue == Spec => DueIsFinal
<1>1. Init => GuardInv /\ DueInv
  BY InitGuard, NoneIsNoState DEF Init, DueInv
<1>2. GuardInv /\ DueInv /\ [Next]_vars => (GuardInv /\ DueInv)'
  BY NextGuard, NextDue
<1>3. GuardInv /\ DueInv /\ [Next]_vars =>
        [/\ tenant # None /\ tenant' = None => tenant = "due"
         /\ sweep = "data" /\ sweep' = "users" => tenant = "due"
         /\ tenant = "due" => tenant' \in {"due", None}]_vars
  BY NextDue DEF TenantStep
<1> QED
  BY <1>1, <1>2, <1>3, PTL DEF Spec, DueIsFinal
-----------------------------------------------------------------------------
(***************************************************************************)
(* The user rows follow Clerk.                                             *)
(*                                                                         *)
(* Of the changes of a person, the newest one known, be it handled or on   *)
(* its way, says what the list says; so a row last written from it is      *)
(* right once everything is heard.  The reconcile has seen whom Clerk      *)
(* lists up to its offset, unless somebody joined or left; so whoever is   *)
(* left over at the end is no member.                                      *)
(***************************************************************************)
\* A list without its order.
Listing(list) == {list[i] : i \in DOMAIN list}

Phases == {"idle", "fetch", "upsert", "list", "remove"}

Reconciles == [phase : Phases, offset : Nat, total : Nat, page : Seq(Members),
               seen : SUBSET Persons, left : SUBSET Persons, gone : SUBSET Persons,
               lost : BOOLEAN, clean : BOOLEAN, moved : BOOLEAN, changed : SUBSET Persons]

\* The webhooks, by kind.
Events == [no : Nat, kind : {"org"}, person : {None}, role : {None}]
            \cup [no : Nat, kind : {"upsert"}, person : Persons, role : ClerkRoles]
            \cup [no : Nat, kind : {"delete"}, person : Persons, role : {None}]

RowTypes == /\ clerk \in Seq(Members) /\ OneEach(clerk)
            /\ events \subseteq Events
            /\ handled \in [Persons -> Nat]
            /\ stimuli \in Nat
            /\ sync \in Reconciles

\* The events about p, and the newest change of a person that is known.
About(p) == {e \in events : e.kind # "org" /\ e.person = p}

Newest(e) == /\ e \in About(e.person)
             /\ handled[e.person] <= e.no
             /\ \A f \in About(e.person) : f.no <= e.no

\* Nothing newer about p is outstanding.
HeardAll(p) == \A e \in About(p) : e.no <= handled[p]

\* Clerk numbers its changes upwards, and the newest one tells the truth.
EventsInv == /\ \A e \in events : e.no <= stimuli + 1
             /\ \A p \in Persons : handled[p] <= stimuli + 1
             /\ \A e \in events : Newest(e) => RowAfter(e) = Mirror[e.person]

MirrorInv == \A p \in Persons \ muddled : HeardAll(p) => user[p] = Mirror[p]

InPage(p) == \E i \in DOMAIN sync.page : sync.page[i].person = p

\* Whoever has not changed since the page was fetched is listed as on the page.
PageInv == /\ sync.phase # "upsert" <=> sync.page = <<>>
           /\ \A i \in DOMAIN sync.page :
                sync.page[i].person \notin sync.changed => sync.page[i] \in Listing(clerk)

\* As long as nobody joins or leaves, the reconcile has seen the members up to
\* its offset.
WalkedInv == sync.phase # "idle" /\ ~sync.moved =>
  /\ sync.offset <= Len(clerk)
  /\ sync.phase # "fetch" => sync.total = Len(clerk)
  /\ sync.phase \in {"list", "remove"} => sync.total <= sync.offset
  /\ \A i \in 1..sync.offset : clerk[i].person \in sync.seen \/ InPage(clerk[i].person)

\* Nobody that was seen is removed.
LeftInv == sync.phase = "remove" => sync.left \cap sync.seen = {}

\* An undisturbed reconcile leaves the rows of those it has seen right, and has
\* in hand every row of anybody else.
CleanInv == sync.phase # "idle" /\ sync.clean =>
  /\ ~sync.moved /\ sync.changed = {} /\ ~sync.lost
  /\ \A p \in sync.seen : user[p] = Mirror[p]
  /\ sync.phase = "remove" => \A p \in Persons \ sync.seen : user[p] # None => p \in sync.left

SyncInv == PageInv /\ WalkedInv /\ LeftInv /\ CleanInv

RowsInv == GuardInv /\ RowTypes /\ EventsInv /\ MirrorInv /\ SyncInv
-----------------------------------------------------------------------------
LEMMA MirrorIs ==
  ASSUME OneEach(clerk), NEW p \in Persons
  PROVE  /\ \A i \in DOMAIN clerk : clerk[i].person = p =>
              Mirror[p] = MapClerkRole(clerk[i].role) /\ Place(p) = i /\ Listed(p)
         /\ ~Listed(p) => Mirror[p] = None
         /\ Listed(p) => Place(p) \in DOMAIN clerk /\ clerk[Place(p)].person = p
<1>1. ASSUME NEW i \in DOMAIN clerk, clerk[i].person = p
      PROVE  Place(p) = i
  BY <1>1 DEF Place, OneEach
<1> QED
  BY <1>1 DEF Mirror, Listed, ClerkRole, Place

\* Mirror says of a person what the one entry about that person says.
MirrorReads ==
  OneEach(clerk) => \A p \in Persons :
    /\ \A m \in Listing(clerk) : m.person = p => Mirror[p] = MapClerkRole(m.role)
    /\ (\A m \in Listing(clerk) : m.person # p) => Mirror[p] = None
    /\ Listed(p) <=> \E m \in Listing(clerk) : m.person = p

LEMMA MirrorIsRead == MirrorReads
BY MirrorIs DEF MirrorReads, Listing, Listed

LEMMA MirrorIsReadNext == MirrorReads'
BY MirrorIsRead, PTL

\* What one change in Clerk leaves alone.
OnlyAbout(p) == \A m \in Members : m.person # p => (m \in Listing(clerk) <=> m \in Listing(clerk'))

LEMMA EntriesAreMembers ==
  ASSUME NEW s \in Seq(Members)
  PROVE  Listing(s) \subseteq Members
BY DEF Listing

LEMMA OthersMirrored ==
  ASSUME RowTypes, RowTypes', NEW p, OnlyAbout(p), NEW q \in Persons, q # p
  PROVE  Mirror'[q] = Mirror[q] /\ (Listed(q)' <=> Listed(q))
<1>0. Listing(clerk) \subseteq Members /\ Listing(clerk') \subseteq Members
  BY EntriesAreMembers DEF RowTypes
<1>1. \A m : m.person = q => (m \in Listing(clerk) <=> m \in Listing(clerk'))
  BY <1>0 DEF OnlyAbout
<1> QED
  BY <1>1, MirrorIsRead, MirrorIsReadNext DEF RowTypes, MirrorReads
-----------------------------------------------------------------------------
\* A member more, and a member less.
LEMMA AfterJoining ==
  ASSUME NEW s \in Seq(Members), OneEach(s), NEW m \in Members,
         \A i \in DOMAIN s : s[i].person # m.person,
         NEW t \in {Append(s, m), <<m>> \o s}
  PROVE  t \in Seq(Members) /\ OneEach(t) /\ Listing(t) = Listing(s) \cup {m}
<1>0. Len(s) \in Nat /\ DOMAIN s = 1..Len(s)
  BY LenProperties
<1>1. CASE t = Append(s, m)
  <2>1. /\ t \in Seq(Members) /\ DOMAIN t = 1..(Len(s) + 1)
        /\ t[Len(s) + 1] = m /\ \A i \in 1..Len(s) : t[i] = s[i]
    BY <1>1, AppendProperties, LenProperties
  <2>2. Len(s) + 1 \in DOMAIN t /\ \A i \in DOMAIN t : i \in DOMAIN s \/ i = Len(s) + 1
    BY <1>0, <2>1
  <2>3. \A i \in DOMAIN s : i \in DOMAIN t /\ t[i] = s[i]
    BY <1>0, <2>1
  <2>4. OneEach(t)
    BY <2>1, <2>2, <2>3 DEF OneEach
  <2>5. \A x : x \in Listing(t) <=> x \in Listing(s) \/ x = m
    <3>1. ASSUME NEW x \in Listing(t)
          PROVE  x \in Listing(s) \/ x = m
      BY <2>1, <2>2, <2>3 DEF Listing
    <3>2. ASSUME NEW x, x \in Listing(s) \/ x = m
          PROVE  x \in Listing(t)
      BY <2>1, <2>2, <2>3, <3>2 DEF Listing
    <3> QED
      BY <3>1, <3>2
  <2> QED
    BY <2>1, <2>4, <2>5
<1>2. CASE t = <<m>> \o s
  <2>1. /\ t \in Seq(Members) /\ DOMAIN t = 1..(Len(s) + 1)
        /\ t[1] = m /\ \A i \in 2..(Len(s) + 1) : t[i] = s[i - 1]
    <3>1. <<m>> \in Seq(Members) /\ Len(<<m>>) = 1 /\ <<m>>[1] = m
      OBVIOUS
    <3>2. /\ t \in Seq(Members) /\ Len(t) = 1 + Len(s)
          /\ \A i \in 1..(1 + Len(s)) : t[i] = IF i <= 1 THEN <<m>>[i] ELSE s[i - 1]
      BY <1>2, <3>1, ConcatProperties
    <3> QED
      BY <1>0, <3>1, <3>2, LenProperties
  <2>2. 1 \in DOMAIN t /\ \A i \in DOMAIN t : i = 1 \/ (i - 1 \in DOMAIN s /\ t[i] = s[i - 1])
    BY <1>0, <2>1
  <2>3. \A i \in DOMAIN s : i + 1 \in DOMAIN t /\ t[i + 1] = s[i]
    BY <1>0, <2>1
  <2>4. OneEach(t)
    <3> SUFFICES ASSUME NEW i \in DOMAIN t, NEW j \in DOMAIN t, t[i].person = t[j].person
                 PROVE  i = j
      BY DEF OneEach
    <3>1. CASE i = 1 \/ j = 1
      BY <2>1, <2>2, <3>1
    <3>2. CASE i # 1 /\ j # 1
      <4>1. i - 1 = j - 1
        BY <2>2, <3>2 DEF OneEach
      <4> QED
        BY <1>0, <2>1, <4>1
    <3> QED
      BY <3>1, <3>2
  <2>5. \A x : x \in Listing(t) <=> x \in Listing(s) \/ x = m
    <3>1. ASSUME NEW x \in Listing(t)
          PROVE  x \in Listing(s) \/ x = m
      BY <2>1, <2>2 DEF Listing
    <3>2. ASSUME NEW x \in Listing(s)
          PROVE  x \in Listing(t)
      BY <2>3 DEF Listing
    <3>3. m \in Listing(t)
      BY <2>1, <2>2 DEF Listing
    <3> QED
      BY <3>1, <3>2, <3>3
  <2> QED
    BY <2>1, <2>4, <2>5
<1> QED
  BY <1>1, <1>2

LEMMA ShiftFacts ==
  ASSUME NEW n \in Nat, NEW k \in 1..n, NEW i \in 1..(n - 1), i >= k
  PROVE  /\ ~(i <= k - 1) /\ i - (k - 1) \in 1..(n - k)
         /\ k + (i - (k - 1)) = i + 1 /\ i + 1 \in 1..n
OBVIOUS

LEMMA AfterLeaving ==
  ASSUME NEW s \in Seq(Members), OneEach(s), NEW k \in DOMAIN s,
         NEW t, t = SubSeq(s, 1, k - 1) \o SubSeq(s, k + 1, Len(s))
  PROVE  /\ t \in Seq(Members) /\ OneEach(t)
         /\ Listing(t) = {m \in Listing(s) : m.person # s[k].person}
<1> DEFINE front == SubSeq(s, 1, k - 1)
           back == SubSeq(s, k + 1, Len(s))
<1>0. Len(s) \in Nat /\ DOMAIN s = 1..Len(s) /\ \A i \in 1..Len(s) : s[i] \in Members
  BY LenProperties
<1>1. k \in 1..Len(s)
  BY <1>0
<1>2. front \in Seq(Members) /\ Len(front) = k - 1 /\ \A i \in 1..(k - 1) : front[i] = s[i]
  <2>1. /\ 1 \in Int /\ k - 1 \in Int /\ \A i \in 1..(k - 1) : s[i] \in Members
        /\ (IF 1 <= k - 1 THEN (k - 1) - 1 + 1 ELSE 0) = k - 1 /\ (k - 1) - 1 + 1 = k - 1
    BY <1>0, <1>1
  <2>2. /\ front \in Seq(Members) /\ Len(front) = k - 1
        /\ \A i \in 1..(k - 1) : front[i] = s[1 + i - 1]
    BY <2>1, SubSeqProperties
  <2> QED
    BY <1>1, <2>2
<1>3. back \in Seq(Members) /\ Len(back) = Len(s) - k /\ \A i \in 1..(Len(s) - k) : back[i] = s[k + i]
  <2>1. /\ k + 1 \in Int /\ Len(s) \in Int /\ \A i \in (k + 1)..Len(s) : s[i] \in Members
        /\ (IF k + 1 <= Len(s) THEN Len(s) - (k + 1) + 1 ELSE 0) = Len(s) - k
        /\ Len(s) - (k + 1) + 1 = Len(s) - k
    BY <1>0, <1>1
  <2>2. /\ back \in Seq(Members) /\ Len(back) = Len(s) - k
        /\ \A i \in 1..(Len(s) - k) : back[i] = s[k + 1 + i - 1]
    BY <2>1, SubSeqProperties
  <2> QED
    BY <1>1, <2>2
<1>4. t = front \o back
  OBVIOUS
<1> HIDE DEF front, back
<1>5. /\ t \in Seq(Members) /\ DOMAIN t = 1..(Len(s) - 1)
      /\ \A i \in 1..(Len(s) - 1) : t[i] = IF i <= k - 1 THEN front[i] ELSE back[i - (k - 1)]
  <2>1. (k - 1) + (Len(s) - k) = Len(s) - 1
    BY <1>0, <1>1
  <2>2. /\ t \in Seq(Members) /\ Len(t) = Len(front) + Len(back)
        /\ \A i \in 1..(Len(front) + Len(back)) :
             t[i] = IF i <= Len(front) THEN front[i] ELSE back[i - Len(front)]
    <3>1. /\ front \o back \in Seq(Members) /\ Len(front \o back) = Len(front) + Len(back)
          /\ \A i \in 1..(Len(front) + Len(back)) : (front \o back)[i] =
               IF i <= Len(front) THEN front[i] ELSE back[i - Len(front)]
      BY <1>2, <1>3, ConcatProperties
    <3> QED
      BY <1>4, <3>1
  <2> QED
    BY <1>2, <1>3, <2>1, <2>2, LenProperties
<1>6. \A i \in DOMAIN t : /\ i < k => i \in DOMAIN s /\ t[i] = s[i]
                          /\ i >= k => i + 1 \in DOMAIN s /\ t[i] = s[i + 1]
  <2> SUFFICES ASSUME NEW i \in 1..(Len(s) - 1)
               PROVE  /\ i < k => i \in 1..Len(s) /\ t[i] = s[i]
                      /\ i >= k => i + 1 \in 1..Len(s) /\ t[i] = s[i + 1]
    BY <1>0, <1>5
  <2>1. ASSUME i < k PROVE i \in 1..Len(s) /\ t[i] = s[i]
    BY <1>0, <1>1, <1>2, <1>5, <2>1
  <2>2. ASSUME i >= k PROVE i + 1 \in 1..Len(s) /\ t[i] = s[i + 1]
    <3>1. /\ ~(i <= k - 1) /\ i - (k - 1) \in 1..(Len(s) - k)
          /\ k + (i - (k - 1)) = i + 1 /\ i + 1 \in 1..Len(s)
      BY <1>0, <1>1, <2>2, ShiftFacts
    <3>2. t[i] = back[i - (k - 1)]
      BY <1>5, <3>1
    <3>3. back[i - (k - 1)] = s[k + (i - (k - 1))]
      BY <1>3, <3>1
    <3> QED
      BY <3>1, <3>2, <3>3
  <2> QED
    BY <2>1, <2>2
<1>7. \A i \in DOMAIN s : /\ i < k => i \in DOMAIN t /\ t[i] = s[i]
                          /\ i > k => i - 1 \in DOMAIN t /\ t[i - 1] = s[i]
  <2> SUFFICES ASSUME NEW i \in 1..Len(s)
               PROVE  /\ i < k => i \in DOMAIN t /\ t[i] = s[i]
                      /\ i > k => i - 1 \in DOMAIN t /\ t[i - 1] = s[i]
    BY <1>0
  <2>1. i < k => i \in DOMAIN t
    BY <1>0, <1>1, <1>5
  <2>2. i > k => i - 1 \in DOMAIN t /\ i - 1 >= k /\ (i - 1) + 1 = i
    BY <1>0, <1>1, <1>5
  <2> QED
    BY <1>6, <2>1, <2>2
<1>8. DOMAIN s \subseteq Nat /\ DOMAIN t \subseteq Nat /\ k \in Nat
  BY <1>0, <1>1, <1>5
<1>9. OneEach(t)
  <2> SUFFICES ASSUME NEW i \in DOMAIN t, NEW j \in DOMAIN t, t[i].person = t[j].person
               PROVE  i = j
    BY DEF OneEach
  <2>1. \A x \in DOMAIN t : x < k \/ x >= k
    BY <1>8
  <2>2. CASE i < k /\ j < k
    BY <1>6, <2>2 DEF OneEach
  <2>3. CASE i >= k /\ j >= k
    <3>1. i + 1 \in DOMAIN s /\ j + 1 \in DOMAIN s /\ s[i + 1].person = s[j + 1].person
      BY <1>6, <2>3
    <3>2. i + 1 = j + 1
      BY <3>1, Zenon DEF OneEach
    <3> QED
      BY <1>8, <3>2
  <2>4. CASE i < k /\ j >= k
    <3>1. i \in DOMAIN s /\ j + 1 \in DOMAIN s /\ s[i].person = s[j + 1].person
      BY <1>6, <2>4
    <3>2. i = j + 1
      BY <3>1, Zenon DEF OneEach
    <3> QED
      BY <1>8, <2>4, <3>2
  <2>5. CASE i >= k /\ j < k
    <3>1. i + 1 \in DOMAIN s /\ j \in DOMAIN s /\ s[i + 1].person = s[j].person
      BY <1>6, <2>5
    <3>2. i + 1 = j
      BY <3>1, Zenon DEF OneEach
    <3> QED
      BY <1>8, <2>5, <3>2
  <2> QED
    BY <2>1, <2>2, <2>3, <2>4, <2>5
<1>10. ASSUME NEW x \in Listing(s), x.person # s[k].person
       PROVE  x \in Listing(t)
  <2> PICK i \in DOMAIN s : x = s[i]
    BY DEF Listing
  <2>1. i < k \/ i > k
    BY <1>8, <1>10
  <2> QED
    BY <1>7, <2>1 DEF Listing
<1>11. ASSUME NEW x \in Listing(t)
       PROVE  x \in Listing(s) /\ x.person # s[k].person
  <2> PICK i \in DOMAIN t : x = t[i]
    BY DEF Listing
  <2>1. \E j \in DOMAIN s : j # k /\ x = s[j]
    <3>1. CASE i < k
      BY <1>6, <1>8, <3>1
    <3>2. CASE i >= k
      <4>1. i + 1 \in DOMAIN s /\ x = s[i + 1]
        BY <1>6, <3>2
      <4>2. i + 1 # k
        BY <1>8, <3>2
      <4> QED
        BY <4>1, <4>2
    <3>3. i < k \/ i >= k
      BY <1>8
    <3> QED
      BY <3>1, <3>2, <3>3
  <2> QED
    BY <2>1 DEF Listing, OneEach
<1> QED
  BY <1>5, <1>9, <1>10, <1>11

-----------------------------------------------------------------------------
\* What a change in Clerk does to the list: everything else stays as it is, and
\* the event says what the list says now.
Tells(e) ==
  /\ clerk' \in Seq(Members) /\ OneEach(clerk')
  /\ e.kind = "org" => clerk' = clerk
  /\ e.kind # "org" => OnlyAbout(e.person) /\ RowAfter(e) = Mirror'[e.person]
  /\ e.kind # "org" /\ (Listed(e.person) <=> e.kind = "upsert") =>
       Len(clerk') = Len(clerk) /\ \A i \in DOMAIN clerk : clerk'[i].person = clerk[i].person

LEMMA ClerkTells ==
  ASSUME RowTypes, Clerk
  PROVE  \E e \in Events : Changes(e) /\ e.no = stimuli + 2 /\ Tells(e)
<1> USE MirrorIsReadNext DEF RowTypes
<1>0. Listing(clerk) \subseteq Members
  BY EntriesAreMembers
<1>1. ASSUME NEW p \in Persons, NEW role \in ClerkRoles, Join(p, role)
      PROVE  \E e \in Events : Changes(e) /\ e.no = stimuli + 2 /\ Tells(e)
  <2> DEFINE m == [person |-> p, role |-> role]
             e == Event("upsert", p, role)
  <2>1. /\ e \in Events /\ e.no = stimuli + 2 /\ e.kind = "upsert" /\ e.person = p /\ e.role = role
        /\ m \in Members /\ m.person = p /\ m.role = role
    BY DEF Event, Events, Members
  <2>2. Changes(e) /\ clerk' \in {Append(clerk, m), <<m>> \o clerk} /\ ~Listed(p)
    BY <1>1 DEF Join
  <2> HIDE DEF m, e
  <2>3. clerk' \in Seq(Members) /\ OneEach(clerk') /\ Listing(clerk') = Listing(clerk) \cup {m}
    BY <2>1, <2>2, AfterJoining DEF Listed
  <2>4. OnlyAbout(p)
    BY <2>1, <2>3 DEF OnlyAbout
  <2>5. RowAfter(e) = Mirror'[p]
    BY <2>1, <2>3 DEF MirrorReads, RowAfter
  <2>6. Tells(e)
    BY <2>1, <2>2, <2>3, <2>4, <2>5 DEF Tells
  <2> QED
    BY <2>1, <2>2, <2>6
<1>2. ASSUME NEW p \in Persons, Leave(p)
      PROVE  \E e \in Events : Changes(e) /\ e.no = stimuli + 2 /\ Tells(e)
  <2> DEFINE e == Event("delete", p, None)
  <2>1. /\ e \in Events /\ e.no = stimuli + 2 /\ e.kind = "delete" /\ e.person = p
    BY DEF Event, Events
  <2>2. /\ Changes(e) /\ Listed(p)
        /\ clerk' = SubSeq(clerk, 1, Place(p) - 1) \o SubSeq(clerk, Place(p) + 1, Len(clerk))
    BY <1>2 DEF Leave
  <2> HIDE DEF e
  <2>3. Place(p) \in DOMAIN clerk /\ clerk[Place(p)].person = p
    BY <2>2, MirrorIs
  <2>4. /\ clerk' \in Seq(Members) /\ OneEach(clerk')
        /\ Listing(clerk') = {m \in Listing(clerk) : m.person # p}
    <3>1. \A k \in DOMAIN clerk :
            clerk' = SubSeq(clerk, 1, k - 1) \o SubSeq(clerk, k + 1, Len(clerk)) =>
              /\ clerk' \in Seq(Members) /\ OneEach(clerk')
              /\ Listing(clerk') = {m \in Listing(clerk) : m.person # clerk[k].person}
      BY AfterLeaving
    <3> QED
      BY <2>2, <2>3, <3>1
  <2>5. OnlyAbout(p)
    BY <2>4 DEF OnlyAbout
  <2>6. RowAfter(e) = Mirror'[p]
    BY <2>1, <2>4 DEF MirrorReads, RowAfter
  <2>7. Tells(e)
    BY <2>1, <2>2, <2>4, <2>5, <2>6 DEF Tells
  <2> QED
    BY <2>1, <2>2, <2>7
<1>3. ASSUME NEW p \in Persons, NEW role \in ClerkRoles, ChangeRole(p, role)
      PROVE  \E e \in Events : Changes(e) /\ e.no = stimuli + 2 /\ Tells(e)
  <2> DEFINE m == [person |-> p, role |-> role]
             e == Event("upsert", p, role)
  <2>1. /\ e \in Events /\ e.no = stimuli + 2 /\ e.kind = "upsert" /\ e.person = p /\ e.role = role
        /\ m \in Members /\ m.person = p /\ m.role = role
    BY DEF Event, Events, Members
  <2>2. Changes(e) /\ clerk' = [clerk EXCEPT ![Place(p)] = m] /\ Listed(p)
    BY <1>3 DEF ChangeRole
  <2> HIDE DEF m, e
  <2>3. Place(p) \in DOMAIN clerk /\ clerk[Place(p)].person = p
    BY <2>2, MirrorIs
  <2>4. /\ clerk' \in Seq(Members) /\ OneEach(clerk')
        /\ Len(clerk') = Len(clerk) /\ \A i \in DOMAIN clerk : clerk'[i].person = clerk[i].person
        /\ \A x : x \in Listing(clerk') <=> (x \in Listing(clerk) /\ x.person # p) \/ x = m
    <3> DEFINE k == Place(p)
    <3>1. clerk \in Seq(Members) /\ k \in 1..Len(clerk) /\ k \in DOMAIN clerk
      BY <2>3
    <3>2. m.person = clerk[k].person /\ m \in Members /\ clerk' = [clerk EXCEPT ![k] = m]
      BY <2>1, <2>2, <2>3
    <3> HIDE DEF k
    <3>3. /\ clerk' \in Seq(Members) /\ Len(clerk') = Len(clerk)
          /\ \A i \in 1..Len(clerk) : clerk'[i] = IF i = k THEN m ELSE clerk[i]
      <4>1. /\ [clerk EXCEPT ![k] = m] \in Seq(Members)
            /\ Len([clerk EXCEPT ![k] = m]) = Len(clerk)
            /\ \A i \in 1..Len(clerk) :
                 [clerk EXCEPT ![k] = m][i] = IF i = k THEN m ELSE clerk[i]
        BY <3>1, <3>2, ExceptSeq
      <4> QED
        BY <3>2, <4>1
    <3>4. /\ OneEach(clerk') /\ \A i \in DOMAIN clerk : clerk'[i].person = clerk[i].person
          /\ \A x : x \in Listing(clerk') <=>
               (x \in Listing(clerk) /\ x.person # clerk[k].person) \/ x = m
      <4>1. /\ DOMAIN clerk' = DOMAIN clerk /\ clerk'[k] = m
            /\ \A i \in DOMAIN clerk : i # k => clerk'[i] = clerk[i]
        BY <3>1, <3>3, LenProperties
      <4>2. \A i \in DOMAIN clerk : clerk'[i].person = clerk[i].person
        BY <3>2, <4>1
      <4>3. OneEach(clerk')
        BY <4>1, <4>2 DEF OneEach
      <4>4. \A i \in DOMAIN clerk : clerk[i].person = clerk[k].person => i = k
        BY <3>1 DEF OneEach
      <4>5. ASSUME NEW x
            PROVE  x \in Listing(clerk') <=>
                     (x \in Listing(clerk) /\ x.person # clerk[k].person) \/ x = m
        BY <3>1, <4>1, <4>4 DEF Listing
      <4> QED
        BY <4>2, <4>3, <4>5
    <3> QED
      BY <2>3, <3>3, <3>4 DEF k
  <2>5. OnlyAbout(p)
    BY <2>1, <2>4 DEF OnlyAbout
  <2>6. RowAfter(e) = Mirror'[p]
    BY <2>1, <2>4 DEF MirrorReads, RowAfter
  <2>7. Tells(e)
    BY <2>1, <2>2, <2>4, <2>5, <2>6 DEF Tells
  <2> QED
    BY <2>1, <2>2, <2>7
<1>4. ASSUME Rename
      PROVE  \E e \in Events : Changes(e) /\ e.no = stimuli + 2 /\ Tells(e)
  <2> DEFINE e == Event("org", None, None)
  <2>1. /\ e \in Events /\ e.no = stimuli + 2 /\ e.kind = "org"
    BY DEF Event, Events
  <2>2. Changes(e) /\ clerk' = clerk
    BY <1>4 DEF Rename
  <2> HIDE DEF e
  <2>3. Tells(e)
    BY <2>1, <2>2 DEF Tells
  <2> QED
    BY <2>1, <2>2, <2>3
<1> QED
  BY <1>1, <1>2, <1>3, <1>4 DEF Clerk
-----------------------------------------------------------------------------
\* What is said of the reconcile survives when somebody else writes, and holds
\* of none.
LEMMA DisturbedFacts ==
  ASSUME sync \in Reconciles, NEW P \in SUBSET Persons, NEW d, d = Disturbed(P)
  PROVE  /\ d \in Reconciles
         /\ d.phase = sync.phase /\ d.offset = sync.offset /\ d.total = sync.total
         /\ d.page = sync.page /\ d.seen = sync.seen /\ d.left = sync.left
         /\ d.moved = sync.moved /\ d.changed = sync.changed
         /\ sync.phase # "idle" => ~d.clean
BY DEF Disturbed, Reconciles

LEMMA SyncDisturbed ==
  ASSUME sync \in Reconciles, SyncInv, NEW P \in SUBSET Persons,
         sync' = Disturbed(P), clerk' = clerk
  PROVE  sync' \in Reconciles /\ SyncInv'
<1>1. /\ sync' \in Reconciles
      /\ sync'.phase = sync.phase /\ sync'.offset = sync.offset /\ sync'.total = sync.total
      /\ sync'.page = sync.page /\ sync'.seen = sync.seen /\ sync'.left = sync.left
      /\ sync'.moved = sync.moved /\ sync'.changed = sync.changed
      /\ sync.phase # "idle" => ~sync'.clean
  BY DisturbedFacts
<1>2. PageInv'
  BY <1>1 DEF SyncInv, PageInv
<1>3. WalkedInv'
  BY <1>1 DEF SyncInv, WalkedInv, InPage
<1>4. LeftInv'
  BY <1>1 DEF SyncInv, LeftInv
<1>5. CleanInv'
  BY <1>1 DEF CleanInv
<1> QED
  BY <1>1, <1>2, <1>3, <1>4, <1>5 DEF SyncInv

LEMMA SyncUndisturbed ==
  ASSUME SyncInv, UNCHANGED <<clerk, user, sync>>
  PROVE  SyncInv'
<1>1. PageInv'
  BY DEF SyncInv, PageInv
<1>2. WalkedInv'
  BY DEF SyncInv, WalkedInv, InPage
<1>3. LeftInv'
  BY DEF SyncInv, LeftInv
<1>4. Mirror' = Mirror
  BY DEF Mirror, Listed, ClerkRole, Place
<1>5. CleanInv'
  BY <1>4 DEF SyncInv, CleanInv
<1> QED
  BY <1>1, <1>2, <1>3, <1>5 DEF SyncInv

LEMMA NoSyncFacts ==
  /\ NoSync \in Reconciles
  /\ NoSync.phase = "idle" /\ NoSync.page = <<>> /\ NoSync.offset = 0 /\ NoSync.total = 0
  /\ NoSync.seen = {} /\ NoSync.left = {} /\ NoSync.changed = {}
  /\ ~NoSync.lost /\ NoSync.clean /\ ~NoSync.moved
BY DEF NoSync, Reconciles, Phases

LEMMA SyncOver ==
  ASSUME sync' = NoSync
  PROVE  sync' \in Reconciles /\ SyncInv'
<1>1. sync' \in Reconciles /\ sync'.phase = "idle" /\ sync'.page = <<>>
  BY NoSyncFacts
<1>2. DOMAIN <<>> = {}
  OBVIOUS
<1> QED
  BY <1>1, <1>2 DEF SyncInv, PageInv, WalkedInv, LeftInv, CleanInv

-----------------------------------------------------------------------------
\* A step in which Clerk is silent and nothing is heard.
Silent == UNCHANGED <<clerk, events, handled>> /\ stimuli' \in {stimuli, stimuli + 1}

LEMMA SilentEvents ==
  ASSUME RowTypes, EventsInv, Silent
  PROVE  EventsInv' /\ \A p : HeardAll(p)' <=> HeardAll(p)
<1>1. UNCHANGED <<clerk, events, handled>> /\ stimuli' \in Nat /\ stimuli <= stimuli'
  BY DEF Silent, RowTypes
<1>2. \A e \in events' : e.no <= stimuli' + 1
  BY <1>1 DEF RowTypes, EventsInv, Events
<1>3. \A p \in Persons : handled'[p] <= stimuli' + 1
  BY <1>1 DEF RowTypes, EventsInv
<1>4. \A e \in events' : Newest(e)' => RowAfter(e) = Mirror'[e.person]
  BY <1>1 DEF EventsInv, Newest, About, Mirror, Listed, ClerkRole, Place
<1>5. \A p : HeardAll(p)' <=> HeardAll(p)
  BY <1>1 DEF HeardAll, About
<1> QED
  BY <1>2, <1>3, <1>4, <1>5 DEF EventsInv

LEMMA SilentMirror ==
  ASSUME clerk' = clerk
  PROVE  Mirror' = Mirror /\ \A p : Listed(p)' <=> Listed(p)
BY DEF Mirror, Listed, ClerkRole, Place

\* A step that writes no user rows.
LEMMA RowsUntouched ==
  ASSUME RowTypes, EventsInv, MirrorInv, Silent, UNCHANGED <<user, muddled>>
  PROVE  EventsInv' /\ MirrorInv'
<1>1. MirrorInv'
  BY SilentEvents, SilentMirror DEF MirrorInv, Silent
<1> QED
  BY <1>1, SilentEvents

LEMMA SilentTypes ==
  ASSUME RowTypes, Silent, sync' \in Reconciles
  PROVE  RowTypes'
BY DEF RowTypes, Silent
-----------------------------------------------------------------------------
\* A change in Clerk.
LEMMA ChangesSync ==
  ASSUME RowTypes, SyncInv, NEW e \in Events, Changes(e), Tells(e)
  PROVE  sync' \in Reconciles /\ SyncInv'
<1>0. UNCHANGED user /\ sync \in Reconciles
  BY DEF Changes, hub, RowTypes
<1>1. CASE e.kind = "org"
  <2>1. UNCHANGED <<clerk, sync>>
    BY <1>1 DEF Changes, Tells
  <2> QED
    BY <1>0, <2>1, SyncUndisturbed
<1>2. CASE sync.phase = "idle"
  <2>1. sync' = sync
    BY <1>2 DEF Changes
  <2>2. sync'.phase = "idle" /\ sync'.page = <<>> /\ DOMAIN <<>> = {}
    BY <1>2, <2>1 DEF SyncInv, PageInv
  <2> QED
    BY <1>0, <2>1, <2>2 DEF SyncInv, PageInv, WalkedInv, LeftInv, CleanInv
<1>3. CASE e.kind # "org" /\ sync.phase # "idle"
  <2> DEFINE moves == Listed(e.person) # (e.kind = "upsert")
  <2>0. e.person \in Persons
    BY <1>3 DEF Events
  <2>1. sync' = [sync EXCEPT !.clean = FALSE, !.changed = @ \cup {e.person},
                             !.moved = @ \/ moves]
    BY <1>3 DEF Changes
  <2>2. moves \in BOOLEAN
    OBVIOUS
  <2> HIDE DEF moves
  <2>3. /\ sync' \in Reconciles
        /\ sync'.phase = sync.phase /\ sync'.offset = sync.offset /\ sync'.total = sync.total
        /\ sync'.page = sync.page /\ sync'.seen = sync.seen /\ sync'.left = sync.left
        /\ sync'.changed = sync.changed \cup {e.person} /\ ~sync'.clean
    BY <1>0, <2>0, <2>1, <2>2 DEF Reconciles
  <2>4. ~sync'.moved => ~sync.moved /\ ~moves
    BY <1>0, <2>1, <2>2 DEF Reconciles
  <2>5. PageInv'
    <3>1. ASSUME NEW i \in DOMAIN sync.page, sync.page[i].person \notin sync'.changed
          PROVE  sync.page[i] \in Listing(clerk')
      <4>1. sync.page[i] \in Listing(clerk) /\ sync.page[i].person # e.person
        BY <2>3, <3>1 DEF SyncInv, PageInv
      <4>2. sync.page[i] \in Members
        BY <1>0 DEF Reconciles
      <4> QED
        BY <1>3, <4>1, <4>2 DEF Tells, OnlyAbout
    <3> QED
      BY <2>3, <3>1 DEF SyncInv, PageInv
  <2>6. WalkedInv'
    <3>1. ASSUME ~sync'.moved
          PROVE  Len(clerk') = Len(clerk) /\ \A i \in DOMAIN clerk : clerk'[i].person = clerk[i].person
      BY <1>3, <2>4, <3>1 DEF Tells, moves
    <3> SUFFICES ASSUME ~sync'.moved
                 PROVE  WalkedInv'
      BY DEF WalkedInv
    <3>2. Len(clerk) \in Nat /\ DOMAIN clerk = 1..Len(clerk) /\ sync.offset \in Nat
      BY <1>0 DEF RowTypes, Reconciles
    <3>3. /\ sync.offset <= Len(clerk)
          /\ sync.phase # "fetch" => sync.total = Len(clerk)
          /\ sync.phase \in {"list", "remove"} => sync.total <= sync.offset
          /\ \A i \in 1..sync.offset : clerk[i].person \in sync.seen \/ InPage(clerk[i].person)
      BY <1>3, <2>4 DEF SyncInv, WalkedInv
    <3>4. \A i \in 1..sync.offset : clerk'[i].person = clerk[i].person
      BY <3>1, <3>2, <3>3
    <3>5. \A p : InPage(p)' <=> InPage(p)
      BY <2>3 DEF InPage
    <3>6. \A i \in 1..sync'.offset : (clerk[i].person \in sync.seen \/ InPage(clerk[i].person))'
      BY <2>3, <3>3, <3>4, <3>5
    <3> QED
      BY <2>3, <3>1, <3>3, <3>6 DEF WalkedInv
  <2>7. LeftInv'
    BY <2>3 DEF SyncInv, LeftInv
  <2>8. CleanInv'
    BY <2>3 DEF CleanInv
  <2> QED
    BY <2>3, <2>5, <2>6, <2>7, <2>8 DEF SyncInv
<1> QED
  BY <1>1, <1>2, <1>3

LEMMA ChangesEvents ==
  ASSUME RowTypes, RowTypes', EventsInv, MirrorInv,
         NEW e \in Events, Changes(e), e.no = stimuli + 2, Tells(e)
  PROVE  EventsInv' /\ MirrorInv'
<1>1. /\ events' = events \cup {e} /\ stimuli' = stimuli + 1
      /\ UNCHANGED <<user, handled, muddled>>
  BY DEF Changes, Stimulus, hub, past
<1>2. \A f \in events : f.no \in Nat /\ f.no <= stimuli + 1 /\ (f.kind # "org" => f.person \in Persons)
  BY DEF RowTypes, EventsInv, Events
<1>3. \A p \in Persons : handled[p] \in Nat /\ handled[p] <= stimuli + 1
  BY DEF RowTypes, EventsInv
<1>4. stimuli \in Nat
  BY DEF RowTypes
<1>5. \A f \in events' : f.no <= stimuli' + 1
  BY <1>1, <1>2, <1>4
<1>6. \A p \in Persons : handled'[p] <= stimuli' + 1
  BY <1>1, <1>3, <1>4
<1>7. ASSUME NEW p \in Persons, ~(e.kind # "org" /\ e.person = p)
      PROVE  About(p)' = About(p) /\ Mirror'[p] = Mirror[p]
  <2>1. About(p)' = About(p)
    BY <1>1, <1>7 DEF About
  <2>2. CASE e.kind = "org"
    <3>1. clerk' = clerk
      BY <2>2 DEF Tells
    <3> QED
      BY <2>1, <3>1, SilentMirror
  <2>3. CASE e.kind # "org"
    BY <1>7, <2>1, <2>3, OthersMirrored DEF Tells
  <2> QED
    BY <2>2, <2>3
<1>8. ASSUME NEW f \in events', Newest(f)'
      PROVE  RowAfter(f) = Mirror'[f.person]
  <2>1. CASE f = e
    <3>1. e.kind # "org"
      BY <1>8, <2>1 DEF Newest, About
    <3> QED
      BY <2>1, <3>1 DEF Tells
  <2>2. CASE f # e
    <3>1. f \in events /\ f.kind # "org" /\ f.person \in Persons /\ f.no <= stimuli + 1 /\ f.no \in Nat
      BY <1>1, <1>2, <1>8, <2>2 DEF Newest, About
    <3>2. ~(e.kind # "org" /\ e.person = f.person)
      <4> SUFFICES ASSUME e.kind # "org", e.person = f.person
                   PROVE  FALSE
        OBVIOUS
      <4>1. e \in About(f.person)'
        BY <1>1 DEF About
      <4>2. e.no <= f.no
        BY <1>8, <4>1 DEF Newest
      <4> QED
        BY <1>4, <3>1, <4>2
    <3>3. About(f.person)' = About(f.person) /\ Mirror'[f.person] = Mirror[f.person]
      BY <1>7, <3>1, <3>2
    <3>4. Newest(f)
      BY <1>1, <1>8, <3>3 DEF Newest
    <3> QED
      BY <3>1, <3>3, <3>4 DEF EventsInv
  <2> QED
    BY <2>1, <2>2
<1>9. ASSUME NEW p \in Persons \ muddled', HeardAll(p)'
      PROVE  user'[p] = Mirror'[p]
  <2>1. ~(e.kind # "org" /\ e.person = p)
    <3> SUFFICES ASSUME e.kind # "org", e.person = p
                 PROVE  FALSE
      OBVIOUS
    <3>1. e \in About(p)'
      BY <1>1 DEF About
    <3>2. e.no <= handled[p]
      BY <1>1, <1>9, <3>1 DEF HeardAll
    <3> QED
      BY <1>3, <1>4, <1>9, <3>2
  <2>2. About(p)' = About(p) /\ Mirror'[p] = Mirror[p]
    BY <1>7, <1>9, <2>1
  <2>3. HeardAll(p)
    BY <1>1, <1>9, <2>2 DEF HeardAll
  <2> QED
    BY <1>1, <1>9, <2>2, <2>3 DEF MirrorInv
<1> QED
  BY <1>5, <1>6, <1>8, <1>9 DEF EventsInv, MirrorInv

LEMMA ClerkKeepsRows ==
  ASSUME RowTypes, EventsInv, MirrorInv, SyncInv, Clerk
  PROVE  RowTypes' /\ EventsInv' /\ MirrorInv' /\ SyncInv'
<1>1. PICK e \in Events : Changes(e) /\ e.no = stimuli + 2 /\ Tells(e)
  BY ClerkTells
<1>2. sync' \in Reconciles /\ SyncInv'
  BY <1>1, ChangesSync
<1>3. RowTypes'
  <2>1. clerk' \in Seq(Members) /\ OneEach(clerk')
    BY <1>1 DEF Tells
  <2>2. events' = events \cup {e} /\ stimuli' = stimuli + 1 /\ handled' = handled
    BY <1>1 DEF Changes, Stimulus, past
  <2> QED
    BY <1>2, <2>1, <2>2 DEF RowTypes
<1>4. EventsInv' /\ MirrorInv'
  BY <1>1, <1>3, ChangesEvents
<1> QED
  BY <1>2, <1>3, <1>4
-----------------------------------------------------------------------------
(***************************************************************************)
(* Webhooks.                                                               *)
(***************************************************************************)
LEMMA MaxOfTwo ==
  ASSUME NEW x \in Nat, NEW y \in Nat
  PROVE  /\ Max({x, y}) \in Nat /\ x <= Max({x, y}) /\ y <= Max({x, y})
         /\ x <= y => Max({x, y}) = y
         /\ Max({x, y}) \in {x, y}
<1> DEFINE m == IF x <= y THEN y ELSE x
<1>1. m \in {x, y} /\ \A z \in {x, y} : m >= z
  OBVIOUS
<1>2. Max({x, y}) \in {x, y} /\ \A z \in {x, y} : Max({x, y}) >= z
  BY <1>1, Zenon DEF Max
<1> QED
  BY <1>2

\* A delivery of e: e may stay to be delivered again.
LEMMA DeliveredFacts ==
  ASSUME RowTypes, NEW e \in events, Delivered(e)
  PROVE  /\ events' \in SUBSET events /\ \A f \in events : f # e => f \in events'
         /\ stimuli' \in {stimuli, stimuli + 1} /\ stimuli' \in Nat
BY DEF Delivered, Stimulus, RowTypes

LEMMA HearingEvents ==
  ASSUME RowTypes, EventsInv, NEW e \in events, e.kind # "org", Delivered(e), clerk' = clerk,
         handled' = [handled EXCEPT ![e.person] = Max({@, e.no})]
  PROVE  /\ handled' \in [Persons -> Nat]
         /\ EventsInv'
         /\ \A q \in Persons : q # e.person => (HeardAll(q)' <=> HeardAll(q))
         /\ handled[e.person] <= e.no /\ HeardAll(e.person)' => Newest(e)
<1>0. /\ events' \in SUBSET events /\ \A f \in events : f # e => f \in events'
      /\ stimuli \in Nat /\ stimuli' \in Nat /\ stimuli <= stimuli'
  BY DeliveredFacts DEF RowTypes
<1>1. /\ e.person \in Persons
      /\ \A f \in events : f.no \in Nat /\ f.no <= stimuli + 1
  BY DEF RowTypes, Events, EventsInv
<1>2. handled \in [Persons -> Nat] /\ handled[e.person] \in Nat
  BY <1>1 DEF RowTypes
<1>3. /\ handled' \in [Persons -> Nat]
      /\ \A q \in Persons : q # e.person => handled'[q] = handled[q]
      /\ handled'[e.person] = Max({handled[e.person], e.no})
  BY <1>1, <1>2, MaxOfTwo
<1>4. /\ handled[e.person] <= handled'[e.person] /\ e.no <= handled'[e.person]
      /\ handled[e.person] <= e.no => handled'[e.person] = e.no
      /\ handled'[e.person] \in {handled[e.person], e.no}
  BY <1>1, <1>2, <1>3, MaxOfTwo
<1>5. \A q \in Persons : q # e.person => About(q)' = About(q)
  BY <1>0 DEF About
<1>6. /\ About(e.person)' \in SUBSET About(e.person)
      /\ \A f \in About(e.person) : f # e => f \in About(e.person)'
  BY <1>0 DEF About
<1>7. \A f \in events' : f.no <= stimuli' + 1
  BY <1>0, <1>1
<1>8. \A q \in Persons : handled'[q] <= stimuli' + 1
  <2>1. \A q \in Persons : handled[q] <= stimuli + 1
    BY DEF EventsInv
  <2>2. \A q \in Persons : handled'[q] <= stimuli + 1
    BY <1>1, <1>3, <1>4, <2>1
  <2>3. \A x, a, b \in Nat : x <= a + 1 /\ a <= b => x <= b + 1
    OBVIOUS
  <2> QED
    BY <1>0, <1>3, <2>2, <2>3
<1>9. ASSUME NEW f \in events', Newest(f)'
      PROVE  RowAfter(f) = Mirror'[f.person]
  <2>1. f \in events /\ f.kind # "org" /\ f.person \in Persons /\ f.no \in Nat
    BY <1>0, <1>1, <1>9 DEF Newest, About, RowTypes, Events
  <2>2. Newest(f)
    <3>1. CASE f.person # e.person
      BY <1>3, <1>5, <1>9, <2>1, <3>1 DEF Newest
    <3>2. CASE f.person = e.person
      <4>1. handled'[e.person] <= f.no /\ f \in About(e.person)'
        BY <1>9, <3>2 DEF Newest
      <4>2. handled[e.person] <= f.no /\ e.no <= f.no
        BY <1>1, <1>2, <1>3, <1>4, <2>1, <4>1
      <4>3. \A g \in About(e.person) : g.no <= f.no
        BY <1>6, <1>9, <3>2, <4>2 DEF Newest
      <4> QED
        BY <1>6, <3>2, <4>1, <4>2, <4>3 DEF Newest
    <3> QED
      BY <3>1, <3>2
  <2> QED
    BY <2>1, <2>2, SilentMirror DEF EventsInv
<1>10. ASSUME NEW q \in Persons, q # e.person
       PROVE  HeardAll(q)' <=> HeardAll(q)
  BY <1>3, <1>5, <1>10 DEF HeardAll
<1>11. ASSUME handled[e.person] <= e.no, HeardAll(e.person)'
       PROVE  Newest(e)
  <2>1. \A f \in About(e.person) : f.no <= e.no
    BY <1>1, <1>4, <1>6, <1>11 DEF HeardAll, About
  <2> QED
    BY <1>11, <2>1 DEF Newest, About
<1> QED
  BY <1>3, <1>7, <1>8, <1>9, <1>10, <1>11 DEF EventsInv

LEMMA WebhookKeepsRows ==
  ASSUME GuardInv, RowTypes, EventsInv, MirrorInv, SyncInv, Webhook
  PROVE  RowTypes' /\ EventsInv' /\ MirrorInv' /\ SyncInv'
<1> PICK e \in events : HandleOrg(e) \/ HandleUnknownOrg(e) \/ HandleMember(e)
  BY DEF Webhook
<1>0. Delivered(e) /\ clerk' = clerk
  BY DEF HandleOrg, HandleUnknownOrg, HandleMember
<1>1. /\ events' \in SUBSET events /\ \A f \in events : f # e => f \in events'
      /\ stimuli \in Nat /\ stimuli' \in Nat /\ stimuli <= stimuli'
  BY <1>0, DeliveredFacts DEF RowTypes
<1>2. sync \in Reconciles /\ {} \in SUBSET Persons
  BY DEF RowTypes
<1>3. CASE HandleOrg(e)
  <2>1. /\ sync' = Disturbed({}) /\ UNCHANGED <<clerk, user, handled, muddled>> /\ e.kind = "org"
    BY <1>3 DEF HandleOrg, past
  <2>2. sync' \in Reconciles /\ SyncInv'
    BY <1>2, <2>1, SyncDisturbed
  <2>3. RowTypes'
    BY <1>1, <2>1, <2>2 DEF RowTypes
  <2>4. \A q : About(q)' = About(q)
    BY <1>1, <2>1 DEF About
  <2>5. EventsInv'
    <3>1. \A f \in events' : f.no <= stimuli' + 1
      BY <1>1 DEF EventsInv, RowTypes, Events
    <3>2. \A p \in Persons : handled'[p] <= stimuli' + 1
      BY <1>1, <2>1 DEF EventsInv, RowTypes
    <3>3. \A f \in events' : Newest(f)' => RowAfter(f) = Mirror'[f.person]
      BY <1>1, <2>1, <2>4, SilentMirror DEF EventsInv, Newest
    <3> QED
      BY <3>1, <3>2, <3>3 DEF EventsInv
  <2>6. MirrorInv'
    BY <2>1, <2>4, SilentMirror DEF MirrorInv, HeardAll
  <2> QED
    BY <2>2, <2>3, <2>5, <2>6
<1>4. CASE HandleUnknownOrg(e)
  <2>1. /\ e.kind # "org" /\ UNCHANGED <<clerk, user, sync>> /\ muddled' = muddled \cup {e.person}
        /\ handled' = [handled EXCEPT ![e.person] = Max({@, e.no})]
    BY <1>4 DEF HandleUnknownOrg, hub
  <2>2. /\ handled' \in [Persons -> Nat] /\ EventsInv'
        /\ \A q \in Persons : q # e.person => (HeardAll(q)' <=> HeardAll(q))
    BY <1>0, <2>1, HearingEvents
  <2>3. RowTypes'
    BY <1>1, <2>1, <2>2 DEF RowTypes
  <2>4. MirrorInv'
    BY <2>1, <2>2, SilentMirror DEF MirrorInv
  <2> QED
    BY <2>1, <2>2, <2>3, <2>4, SyncUndisturbed
<1>5. CASE HandleMember(e)
  <2> DEFINE p == e.person
             P == IF e.kind = "delete" THEN {p} ELSE {}
  <2>1. /\ e.kind # "org" /\ user' = [user EXCEPT ![p] = RowAfter(e)]
        /\ muddled' = IF e.no < handled[p] THEN muddled \cup {p} ELSE muddled \ {p}
        /\ handled' = [handled EXCEPT ![p] = Max({@, e.no})]
        /\ sync' = Disturbed(P)
    BY <1>5 DEF HandleMember
  <2>2. p \in Persons /\ e.no \in Nat /\ handled[p] \in Nat
    BY <2>1 DEF RowTypes, Events
  <2>3. P \in SUBSET Persons
    BY <2>2
  <2> HIDE DEF P
  <2>4. sync' \in Reconciles /\ SyncInv'
    BY <1>0, <1>2, <2>1, <2>3, SyncDisturbed
  <2>5. /\ handled' \in [Persons -> Nat] /\ EventsInv'
        /\ \A q \in Persons : q # p => (HeardAll(q)' <=> HeardAll(q))
        /\ handled[p] <= e.no /\ HeardAll(e.person)' => Newest(e)
    BY <1>0, <2>1, HearingEvents
  <2>6. RowTypes'
    BY <1>0, <1>1, <2>4, <2>5 DEF RowTypes
  <2>7. ASSUME NEW q \in Persons \ muddled', HeardAll(q)'
        PROVE  user'[q] = Mirror'[q]
    <3>1. CASE q # p
      BY <1>0, <2>1, <2>5, <2>7, <3>1, SilentMirror DEF MirrorInv, GuardInv
    <3>2. CASE q = p
      <4>1. handled[p] <= e.no
        BY <2>1, <2>2, <2>7, <3>2
      <4>2. Newest(e)
        BY <2>5, <2>7, <3>2, <4>1
      <4>3. RowAfter(e) = Mirror[p]
        BY <4>2 DEF EventsInv
      <4>4. user'[p] = RowAfter(e)
        BY <2>1, <2>2 DEF GuardInv
      <4> QED
        BY <1>0, <3>2, <4>3, <4>4, SilentMirror
    <3> QED
      BY <3>1, <3>2
  <2> QED
    BY <2>4, <2>5, <2>6, <2>7 DEF MirrorInv
<1> QED
  BY <1>3, <1>4, <1>5
-----------------------------------------------------------------------------
(***************************************************************************)
(* The reconcile.                                                          *)
(***************************************************************************)
LEMMA AfterPageFacts ==
  ASSUME NEW s \in Reconciles
  PROVE  /\ AfterPage(s) \in {"upsert", "fetch", "list"}
         /\ AfterPage(s) = "upsert" <=> s.page # <<>>
         /\ AfterPage(s) = "list" => s.total <= s.offset
<1>1. s.total \in Nat /\ s.offset \in Nat
  BY DEF Reconciles
<1> QED
  BY <1>1 DEF AfterPage

LEMMA BeginFacts ==
  ASSUME SyncBegin
  PROVE  /\ sync' \in Reconciles /\ sync'.phase = "fetch" /\ sync'.page = <<>>
         /\ sync'.offset = 0 /\ sync'.seen = {} /\ sync'.changed = {}
         /\ ~sync'.lost /\ ~sync'.moved
BY NoSyncFacts DEF SyncBegin, Reconciles, Phases

LEMMA SyncBegins ==
  ASSUME RowTypes, SyncBegin
  PROVE  sync' \in Reconciles /\ SyncInv'
<1>1. /\ sync' \in Reconciles /\ sync'.phase = "fetch" /\ sync'.page = <<>>
      /\ sync'.offset = 0 /\ sync'.seen = {} /\ sync'.changed = {}
      /\ ~sync'.lost /\ ~sync'.moved
  BY BeginFacts
<1>2. DOMAIN <<>> = {} /\ 1..0 = {}
  OBVIOUS
<1>3. PageInv'
  BY <1>1, <1>2 DEF PageInv
<1>4. clerk' = clerk /\ Len(clerk) \in Nat
  BY DEF SyncBegin, RowTypes
<1>5. WalkedInv'
  BY <1>1, <1>2, <1>4 DEF WalkedInv
<1>6. LeftInv' /\ CleanInv'
  BY <1>1 DEF LeftInv, CleanInv
<1> QED
  BY <1>1, <1>3, <1>5, <1>6 DEF SyncInv

LEMMA SpanFacts ==
  ASSUME NEW from \in Nat, NEW to \in Nat, NEW n \in Nat, to <= n
  PROVE  /\ from + 1 \in Int /\ to \in Int /\ to - (from + 1) + 1 = to - from
         /\ \A i \in (from + 1)..to : i \in 1..n
         /\ \A i \in 1..(to - from) : from + 1 + i - 1 = from + i /\ from + i \in 1..n
OBVIOUS

LEMMA CutFacts ==
  ASSUME NEW from \in Nat, NEW to \in Nat, NEW n \in Nat, to <= n,
         NEW l, l = IF from + 1 <= to THEN to - from ELSE 0
  PROVE  /\ l \in Nat /\ \A i \in 1..l : i \in 1..(to - from)
         /\ from <= n => from + l <= n
OBVIOUS

\* The page that is fetched: the members from the offset on.
LEMMA PageFacts ==
  ASSUME RowTypes, NEW page,
         page = SubSeq(clerk, sync.offset + 1, Min({sync.offset + PageSize, Len(clerk)}))
  PROVE  /\ page \in Seq(Members) /\ Len(page) \in Nat
         /\ \A i \in 1..Len(page) : sync.offset + i \in 1..Len(clerk) /\ page[i] = clerk[sync.offset + i]
         /\ sync.offset <= Len(clerk) => sync.offset + Len(page) <= Len(clerk)
<1> DEFINE from == sync.offset
           to == Min({sync.offset + PageSize, Len(clerk)})
<1>1. /\ from \in Nat /\ Len(clerk) \in Nat /\ PageSize \in Nat
      /\ DOMAIN clerk = 1..Len(clerk) /\ \A i \in 1..Len(clerk) : clerk[i] \in Members
  BY AccountsAssumption DEF RowTypes, Reconciles
<1>2. to \in {from + PageSize, Len(clerk)} /\ to <= Len(clerk) /\ to \in Nat
  <2> DEFINE m == IF from + PageSize <= Len(clerk) THEN from + PageSize ELSE Len(clerk)
  <2>1. m \in {from + PageSize, Len(clerk)} /\ \A z \in {from + PageSize, Len(clerk)} : m <= z
    BY <1>1
  <2>2. to \in {from + PageSize, Len(clerk)} /\ \A z \in {from + PageSize, Len(clerk)} : to <= z
    BY <2>1, Zenon DEF Min
  <2> QED
    BY <1>1, <2>2
<1>3. page = SubSeq(clerk, from + 1, to)
  OBVIOUS
<1> HIDE DEF from, to
<1>4. /\ from + 1 \in Int /\ to \in Int /\ to - (from + 1) + 1 = to - from
      /\ \A i \in (from + 1)..to : i \in 1..Len(clerk)
      /\ \A i \in 1..(to - from) : from + 1 + i - 1 = from + i /\ from + i \in 1..Len(clerk)
  <2>1. from \in Nat /\ to \in Nat /\ Len(clerk) \in Nat /\ to <= Len(clerk)
    BY <1>1, <1>2, Zenon
  <2> QED
    BY <2>1, SpanFacts, Zenon
<1>5. /\ page \in Seq(Members) /\ Len(page) = IF from + 1 <= to THEN to - from ELSE 0
      /\ \A i \in 1..(to - from) : page[i] = clerk[from + i]
  <2>1. \A i \in (from + 1)..to : clerk[i] \in Members
    BY <1>1, <1>4
  <2>2. /\ SubSeq(clerk, from + 1, to) \in Seq(Members)
        /\ Len(SubSeq(clerk, from + 1, to)) = IF from + 1 <= to THEN to - (from + 1) + 1 ELSE 0
        /\ \A i \in 1..(to - (from + 1) + 1) :
             SubSeq(clerk, from + 1, to)[i] = clerk[from + 1 + i - 1]
    BY <1>4, <2>1, SubSeqProperties
  <2> QED
    BY <1>3, <1>4, <2>2
<1>6. /\ Len(page) \in Nat /\ \A i \in 1..Len(page) : i \in 1..(to - from)
      /\ from <= Len(clerk) => from + Len(page) <= Len(clerk)
  BY <1>1, <1>2, <1>5, CutFacts, Zenon
<1> QED
  BY <1>4, <1>5, <1>6, Zenon DEF from

LEMMA SyncFetches ==
  ASSUME RowTypes, SyncInv, SyncFetch
  PROVE  sync' \in Reconciles /\ SyncInv'
<1> DEFINE page == SubSeq(clerk, sync.offset + 1, Min({sync.offset + PageSize, Len(clerk)}))
           next == [sync EXCEPT !.page = page, !.offset = @ + Len(page), !.total = Len(clerk)]
<1>0. sync \in Reconciles /\ Len(clerk) \in Nat /\ sync.offset \in Nat
  BY DEF RowTypes, Reconciles
<1>1. /\ page \in Seq(Members) /\ Len(page) \in Nat
      /\ \A i \in 1..Len(page) : sync.offset + i \in 1..Len(clerk) /\ page[i] = clerk[sync.offset + i]
      /\ sync.offset <= Len(clerk) => sync.offset + Len(page) <= Len(clerk)
  BY PageFacts
<1>2. /\ sync.phase = "fetch" /\ UNCHANGED <<clerk, user>>
      /\ sync' = [next EXCEPT !.phase = AfterPage(next)]
  BY DEF SyncFetch, hub
<1> HIDE DEF page
<1> DEFINE onward == sync.offset + Len(page)
<1>2a. onward \in Nat
  BY <1>0, <1>1
<1> HIDE DEF onward
<1>2b. next = [sync EXCEPT !.page = page, !.offset = onward, !.total = Len(clerk)]
  BY DEF onward
<1>2c. /\ next \in Reconciles /\ next.page = page /\ next.offset = onward
      /\ next.total = Len(clerk) /\ next.seen = sync.seen /\ next.lost = sync.lost
      /\ next.clean = sync.clean /\ next.moved = sync.moved /\ next.changed = sync.changed
  BY <1>0, <1>1, <1>2a, <1>2b DEF Reconciles
<1>3. /\ next \in Reconciles /\ next.page = page /\ next.offset = sync.offset + Len(page)
      /\ next.total = Len(clerk) /\ next.seen = sync.seen /\ next.lost = sync.lost
      /\ next.clean = sync.clean /\ next.moved = sync.moved /\ next.changed = sync.changed
  BY <1>2c DEF onward
<1> HIDE DEF next
<1>4. /\ sync' \in Reconciles /\ sync'.phase = AfterPage(next)
      /\ sync'.page = page /\ sync'.offset = sync.offset + Len(page)
      /\ sync'.total = Len(clerk) /\ sync'.seen = sync.seen /\ sync'.lost = sync.lost
      /\ sync'.clean = sync.clean /\ sync'.moved = sync.moved /\ sync'.changed = sync.changed
  BY <1>2, <1>3, AfterPageFacts DEF Reconciles, Phases
<1>5. /\ sync'.phase \in {"upsert", "fetch", "list"}
      /\ sync'.phase = "upsert" <=> page # <<>>
      /\ sync'.phase = "list" => Len(clerk) <= sync'.offset
  BY <1>3, <1>4, AfterPageFacts
<1>6. DOMAIN page = 1..Len(page) /\ DOMAIN clerk = 1..Len(clerk)
  BY <1>1, LenProperties DEF RowTypes
<1>7. PageInv'
  <2>1. \A i \in DOMAIN page : page[i] \in Listing(clerk)
    BY <1>1, <1>6 DEF Listing
  <2> QED
    BY <1>2, <1>4, <1>5, <2>1 DEF PageInv
<1>8. WalkedInv'
  <2> SUFFICES ASSUME ~sync.moved
               PROVE  WalkedInv'
    BY <1>4 DEF WalkedInv
  <2>1. /\ sync.offset <= Len(clerk) /\ sync.page = <<>>
        /\ \A i \in 1..sync.offset : clerk[i].person \in sync.seen \/ InPage(clerk[i].person)
    BY <1>2 DEF SyncInv, WalkedInv, PageInv
  <2>2. \A p : ~InPage(p)
    BY <2>1 DEF InPage
  <2>3. ASSUME NEW i \in 1..(sync.offset + Len(page))
        PROVE  (clerk[i].person \in sync.seen \/ InPage(clerk[i].person))'
    <3>1. CASE i <= sync.offset
      BY <1>0, <1>1, <1>2, <1>4, <2>1, <2>2, <3>1
    <3>2. CASE i > sync.offset
      <4>1. i - sync.offset \in 1..Len(page) /\ sync.offset + (i - sync.offset) = i
        BY <1>0, <1>1, <3>2
      <4>2. page[i - sync.offset] = clerk[i]
        BY <1>1, <4>1
      <4> QED
        BY <1>2, <1>4, <1>6, <4>1, <4>2 DEF InPage
    <3> QED
      BY <1>0, <1>1, <3>1, <3>2
  <2> QED
    BY <1>1, <1>2, <1>4, <1>5, <2>1, <2>3 DEF WalkedInv
<1>9. LeftInv'
  BY <1>5 DEF LeftInv
<1>10. CleanInv'
  BY <1>2, <1>4, <1>5, SilentMirror DEF SyncInv, CleanInv
<1> QED
  BY <1>4, <1>7, <1>8, <1>9, <1>10 DEF SyncInv

\* What is true of a member on the page that nobody has touched since.
LEMMA PageIsCurrent ==
  ASSUME RowTypes, SyncInv, NEW i \in DOMAIN sync.page, sync.page[i].person \notin sync.changed
  PROVE  Mirror[sync.page[i].person] = MapClerkRole(sync.page[i].role)
<1>1. sync.page[i] \in Listing(clerk)
  BY DEF SyncInv, PageInv
<1>2. sync.page[i].person \in Persons
  <2>1. sync.page \in Seq(Members)
    BY DEF RowTypes, Reconciles
  <2>2. sync.page[i] \in Members
    BY <2>1
  <2> QED
    BY <2>2 DEF Members
<1> QED
  BY <1>1, <1>2, MirrorIsRead DEF MirrorReads, RowTypes

LEMMA SyncUpserts ==
  ASSUME GuardInv, RowTypes, SyncInv, MirrorInv, SyncUpsert
  PROVE  /\ sync' \in Reconciles /\ SyncInv'
         /\ \A p \in Persons \ muddled' : HeardAll(p) => user'[p] = Mirror[p]
<1> DEFINE m == Head(sync.page)
           next == [sync EXCEPT !.page = Tail(@), !.seen = @ \cup {m.person}]
<1>0. sync \in Reconciles /\ sync.page \in Seq(Members) /\ sync.offset \in Nat
  BY DEF RowTypes, Reconciles
<1>1. /\ sync.phase = "upsert" /\ UNCHANGED clerk
      /\ user' = [user EXCEPT ![m.person] = MapClerkRole(m.role)]
      /\ muddled' = IF m.person \in sync.changed THEN muddled \cup {m.person}
                                                 ELSE muddled \ {m.person}
      /\ sync' = [next EXCEPT !.phase = AfterPage(next)]
  BY DEF SyncUpsert
<1>2. sync.page # <<>>
  BY <1>1 DEF SyncInv, PageInv
<1>3. /\ m = sync.page[1] /\ m \in Members /\ 1 \in DOMAIN sync.page
      /\ Tail(sync.page) \in Seq(Members)
      /\ \A i \in DOMAIN Tail(sync.page) :
           i + 1 \in DOMAIN sync.page /\ Tail(sync.page)[i] = sync.page[i + 1]
      /\ \A i \in DOMAIN sync.page : i = 1 \/ (i - 1 \in DOMAIN Tail(sync.page)
                                               /\ Tail(sync.page)[i - 1] = sync.page[i])
  <2> DEFINE n == Len(sync.page)
             rest == Tail(sync.page)
  <2>1. /\ n \in Nat /\ n # 0 /\ DOMAIN sync.page = 1..n /\ m = sync.page[1]
        /\ \A i \in 1..n : sync.page[i] \in Members
    BY <1>0, <1>2
  <2>2. /\ rest \in Seq(Members) /\ Len(rest) = n - 1
        /\ \A i \in 1..Len(rest) : rest[i] = sync.page[i + 1]
    BY <1>0, <1>2, HeadTailProperties
  <2>3. DOMAIN rest = 1..(n - 1) /\ \A i \in 1..(n - 1) : rest[i] = sync.page[i + 1]
    BY <2>2, LenProperties
  <2> HIDE DEF n, rest
  <2>4. 1 \in 1..n /\ \A i \in 1..(n - 1) : i + 1 \in 1..n
    BY <2>1
  <2>5. \A i \in 1..n : i = 1 \/ (i - 1 \in 1..(n - 1) /\ (i - 1) + 1 = i)
    BY <2>1
  <2>6. \A i \in 1..n : i = 1 \/ (i - 1 \in 1..(n - 1) /\ rest[i - 1] = sync.page[i])
    BY <2>3, <2>5, Zenon
  <2> QED
    BY <2>1, <2>2, <2>3, <2>4, <2>6 DEF rest
<1>4. m.person \in Persons
  BY <1>3 DEF Members
<1> HIDE DEF m
<1>5. /\ next \in Reconciles /\ next.page = Tail(sync.page) /\ next.offset = sync.offset
      /\ next.total = sync.total /\ next.seen = sync.seen \cup {m.person} /\ next.lost = sync.lost
      /\ next.clean = sync.clean /\ next.moved = sync.moved /\ next.changed = sync.changed
  BY <1>0, <1>3, <1>4 DEF Reconciles
<1> HIDE DEF next
<1>6. /\ sync' \in Reconciles /\ sync'.phase = AfterPage(next)
      /\ sync'.page = Tail(sync.page) /\ sync'.offset = sync.offset
      /\ sync'.total = sync.total /\ sync'.seen = sync.seen \cup {m.person} /\ sync'.lost = sync.lost
      /\ sync'.clean = sync.clean /\ sync'.moved = sync.moved /\ sync'.changed = sync.changed
  BY <1>1, <1>5, AfterPageFacts DEF Reconciles, Phases
<1>7. /\ sync'.phase \in {"upsert", "fetch", "list"}
      /\ sync'.phase = "upsert" <=> sync'.page # <<>>
      /\ sync'.phase = "list" => sync'.total <= sync'.offset
  BY <1>5, <1>6, AfterPageFacts
<1>8. m.person \notin sync.changed => Mirror[m.person] = MapClerkRole(m.role)
  BY <1>3, PageIsCurrent
<1>9. PageInv'
  <2>1. ASSUME NEW i \in DOMAIN sync'.page, sync'.page[i].person \notin sync.changed
        PROVE  sync'.page[i] \in Listing(clerk)
    BY <1>3, <1>6, <2>1 DEF SyncInv, PageInv
  <2> QED
    BY <1>1, <1>6, <1>7, <2>1 DEF PageInv
<1>10. WalkedInv'
  <2> SUFFICES ASSUME ~sync.moved
               PROVE  WalkedInv'
    BY <1>6 DEF WalkedInv
  <2>1. /\ sync.offset <= Len(clerk) /\ sync.total = Len(clerk)
        /\ \A i \in 1..sync.offset : clerk[i].person \in sync.seen \/ InPage(clerk[i].person)
    BY <1>1 DEF SyncInv, WalkedInv
  <2>2. ASSUME NEW p, InPage(p)
        PROVE  p \in sync'.seen \/ InPage(p)'
    <3> PICK i \in DOMAIN sync.page : sync.page[i].person = p
      BY <2>2 DEF InPage
    <3>1. CASE i = 1
      BY <1>3, <1>6, <3>1
    <3>2. CASE i # 1
      <4>1. i - 1 \in DOMAIN sync'.page /\ sync'.page[i - 1].person = p
        BY <1>3, <1>6, <3>2
      <4> QED
        BY <4>1 DEF InPage
    <3> QED
      BY <3>1, <3>2
  <2>3. \A i \in 1..sync.offset : (clerk[i].person \in sync.seen \/ InPage(clerk[i].person))'
    BY <1>1, <1>6, <2>1, <2>2
  <2> QED
    BY <1>1, <1>6, <1>7, <2>1, <2>3 DEF WalkedInv
<1>11. LeftInv'
  BY <1>7 DEF LeftInv
<1>12. CleanInv'
  <2> SUFFICES ASSUME sync.clean
               PROVE  CleanInv'
    BY <1>6 DEF CleanInv
  <2>1. /\ ~sync.moved /\ sync.changed = {} /\ ~sync.lost
        /\ \A p \in sync.seen : user[p] = Mirror[p]
    BY <1>1 DEF SyncInv, CleanInv
  <2>2. \A p \in sync.seen \cup {m.person} : user'[p] = Mirror[p]
    BY <1>0, <1>1, <1>4, <1>8, <2>1 DEF GuardInv, Reconciles
  <2> QED
    BY <1>1, <1>6, <1>7, <2>1, <2>2, SilentMirror DEF CleanInv
<1>13. ASSUME NEW p \in Persons \ muddled', HeardAll(p)
       PROVE  user'[p] = Mirror[p]
  <2>1. CASE p = m.person
    BY <1>1, <1>4, <1>8, <1>13, <2>1 DEF GuardInv
  <2>2. CASE p # m.person
    BY <1>1, <1>13, <2>2 DEF GuardInv, MirrorInv
  <2> QED
    BY <2>1, <2>2
<1> QED
  BY <1>6, <1>9, <1>10, <1>11, <1>12, <1>13 DEF SyncInv

LEMMA SyncLists ==
  ASSUME RowTypes, SyncInv, SyncList
  PROVE  sync' \in Reconciles /\ SyncInv'
<1> DEFINE left == IF sync.lost THEN {} ELSE {p \in Persons \ sync.seen : user[p] # None}
<1>1. /\ sync.phase = "list" /\ UNCHANGED <<clerk, user>>
      /\ sync' = [sync EXCEPT !.phase = "remove", !.left = left]
  BY DEF SyncList, hub
<1>2. left \in SUBSET Persons /\ left \cap sync.seen = {}
  OBVIOUS
<1>3. ~sync.lost => \A p \in Persons \ sync.seen : user[p] # None => p \in left
  OBVIOUS
<1> HIDE DEF left
<1>4. /\ sync' \in Reconciles /\ sync'.phase = "remove" /\ sync'.left = left
      /\ sync'.page = sync.page /\ sync'.offset = sync.offset
      /\ sync'.total = sync.total /\ sync'.seen = sync.seen /\ sync'.lost = sync.lost
      /\ sync'.clean = sync.clean /\ sync'.moved = sync.moved /\ sync'.changed = sync.changed
  BY <1>1, <1>2 DEF RowTypes, Reconciles, Phases
<1>5. PageInv'
  BY <1>1, <1>4 DEF SyncInv, PageInv
<1>6. WalkedInv'
  BY <1>1, <1>4 DEF SyncInv, WalkedInv, InPage
<1>7. LeftInv'
  BY <1>2, <1>4 DEF LeftInv
<1>8. CleanInv'
  BY <1>1, <1>3, <1>4, SilentMirror DEF SyncInv, CleanInv
<1> QED
  BY <1>4, <1>5, <1>6, <1>7, <1>8 DEF SyncInv

\* Whoever is left over when nobody joined or left is no member.
LEMMA LeftAreUnlisted ==
  ASSUME RowTypes, SyncInv, sync.phase = "remove", ~sync.moved, NEW p \in Persons, p \notin sync.seen
  PROVE  Mirror[p] = None
<1>1. /\ sync.page = <<>> /\ Len(clerk) <= sync.offset
      /\ \A i \in 1..sync.offset : clerk[i].person \in sync.seen \/ InPage(clerk[i].person)
  BY DEF SyncInv, PageInv, WalkedInv
<1>2. \A q : ~InPage(q)
  BY <1>1 DEF InPage
<1>3. DOMAIN clerk = 1..Len(clerk) /\ Len(clerk) \in Nat /\ sync.offset \in Nat
  BY DEF RowTypes, Reconciles
<1>4. \A i \in DOMAIN clerk : clerk[i].person \in sync.seen
  BY <1>1, <1>2, <1>3
<1>5. ~Listed(p)
  BY <1>4 DEF Listed
<1> QED
  BY <1>5, MirrorIs DEF RowTypes

LEMMA SyncRemoves ==
  ASSUME GuardInv, RowTypes, SyncInv, MirrorInv, NEW p \in Persons, SyncRemove(p)
  PROVE  /\ sync' \in Reconciles /\ SyncInv'
         /\ \A q \in Persons \ muddled' : HeardAll(q) => user'[q] = Mirror[q]
<1>1. /\ sync.phase = "remove" /\ p \in sync.left /\ UNCHANGED clerk
      /\ user' = [user EXCEPT ![p] = None]
      /\ muddled' = IF p \in sync.changed \/ sync.moved THEN muddled \cup {p} ELSE muddled \ {p}
      /\ sync' = [sync EXCEPT !.left = @ \ {p}]
  BY DEF SyncRemove
<1>2. /\ sync' \in Reconciles /\ sync'.phase = sync.phase /\ sync'.left = sync.left \ {p}
      /\ sync'.page = sync.page /\ sync'.offset = sync.offset
      /\ sync'.total = sync.total /\ sync'.seen = sync.seen /\ sync'.lost = sync.lost
      /\ sync'.clean = sync.clean /\ sync'.moved = sync.moved /\ sync'.changed = sync.changed
  BY <1>1 DEF RowTypes, Reconciles
<1>3. p \notin sync.seen
  BY <1>1 DEF SyncInv, LeftInv
<1>4. user'[p] = None /\ \A q \in Persons : q # p => user'[q] = user[q]
  BY <1>1 DEF GuardInv
<1>5. PageInv'
  BY <1>1, <1>2 DEF SyncInv, PageInv
<1>6. WalkedInv'
  BY <1>1, <1>2 DEF SyncInv, WalkedInv, InPage
<1>7. LeftInv'
  BY <1>1, <1>2 DEF SyncInv, LeftInv
<1>8. CleanInv'
  <2> SUFFICES ASSUME sync.clean
               PROVE  CleanInv'
    BY <1>2 DEF CleanInv
  <2>1. /\ ~sync.moved /\ sync.changed = {} /\ ~sync.lost
        /\ \A q \in sync.seen : user[q] = Mirror[q]
        /\ \A q \in Persons \ sync.seen : user[q] # None => q \in sync.left
    BY <1>1 DEF SyncInv, CleanInv
  <2>2. sync.seen \in SUBSET Persons
    BY DEF RowTypes, Reconciles
  <2>3. \A q \in sync.seen : user'[q] = Mirror[q]
    BY <1>3, <1>4, <2>1, <2>2
  <2>4. \A q \in Persons \ sync.seen : user'[q] # None => q \in sync.left \ {p}
    BY <1>4, <2>1
  <2> QED
    BY <1>1, <1>2, <2>1, <2>3, <2>4, SilentMirror DEF CleanInv
<1>9. ASSUME NEW q \in Persons \ muddled', HeardAll(q)
      PROVE  user'[q] = Mirror[q]
  <2>1. CASE q = p
    <3>1. ~sync.moved
      BY <1>1, <1>9, <2>1
    <3> QED
      BY <1>1, <1>3, <1>4, <2>1, <3>1, LeftAreUnlisted
  <2>2. CASE q # p
    BY <1>1, <1>4, <1>9, <2>2 DEF MirrorInv
  <2> QED
    BY <2>1, <2>2
<1> QED
  BY <1>2, <1>5, <1>6, <1>7, <1>8, <1>9 DEF SyncInv

LEMMA SyncKeepsRows ==
  ASSUME GuardInv, RowTypes, EventsInv, MirrorInv, SyncInv, Sync
  PROVE  RowTypes' /\ EventsInv' /\ MirrorInv' /\ SyncInv'
<1>1. Silent
  BY DEF Sync, Silent, SyncBegin, SyncFetch, SyncUpsert, SyncList, SyncRemove, SyncEnd, SyncThrows,
         SyncFails, Stimulus, past
<1>2. CASE SyncBegin \/ SyncFetch \/ SyncList \/ SyncEnd \/ SyncThrows \/ SyncFails
  <2>1. UNCHANGED <<user, muddled>>
    BY <1>2 DEF SyncBegin, SyncFetch, SyncList, SyncEnd, SyncThrows, SyncFails, hub, past
  <2>2. sync' \in Reconciles /\ SyncInv'
    <3>1. CASE SyncEnd \/ SyncThrows \/ SyncFails
      <4>1. sync' = NoSync
        BY <3>1 DEF SyncEnd, SyncThrows, SyncFails
      <4> QED
        BY <4>1, SyncOver
    <3> QED
      BY <1>2, <3>1, SyncBegins, SyncFetches, SyncLists
  <2> QED
    BY <1>1, <2>1, <2>2, RowsUntouched, SilentTypes
<1>3. CASE SyncUpsert \/ \E p \in Persons : SyncRemove(p)
  <2>1. /\ sync' \in Reconciles /\ SyncInv'
        /\ \A p \in Persons \ muddled' : HeardAll(p) => user'[p] = Mirror[p]
    BY <1>3, SyncUpserts, SyncRemoves
  <2>2. EventsInv' /\ \A p : HeardAll(p)' <=> HeardAll(p)
    BY <1>1, SilentEvents
  <2>3. MirrorInv'
    BY <1>1, <2>1, <2>2, SilentMirror DEF MirrorInv, Silent
  <2> QED
    BY <1>1, <2>1, <2>2, <2>3, SilentTypes
<1> QED
  BY <1>2, <1>3 DEF Sync

-----------------------------------------------------------------------------
(***************************************************************************)
(* Requests, and the end of a tenant.                                      *)
(***************************************************************************)
\* Whoever writes rows by hand muddles them.
LEMMA MuddledRows ==
  ASSUME GuardInv, GuardInv', RowTypes, EventsInv, MirrorInv, SyncInv, Silent,
         NEW P \in SUBSET Persons, NEW D \in SUBSET Persons, sync' = Disturbed(D),
         \A p \in Persons \ P : user'[p] = user[p],
         P \in SUBSET muddled', \A p \in Persons \ muddled' : p \notin muddled
  PROVE  RowTypes' /\ EventsInv' /\ MirrorInv' /\ SyncInv'
<1>1. sync' \in Reconciles /\ SyncInv'
  BY SyncDisturbed DEF RowTypes, Silent
<1>2. MirrorInv'
  BY SilentEvents, SilentMirror DEF MirrorInv, Silent
<1> QED
  BY <1>1, <1>2, SilentEvents, SilentTypes

LEMMA OthersKeepRows ==
  ASSUME GuardInv, GuardInv', RowTypes, EventsInv, MirrorInv, SyncInv,
         Ask \/ Act \/ Ingest \/ GraceEnds \/ SweepStep \/ SweepFails \/ UNCHANGED vars
  PROVE  RowTypes' /\ EventsInv' /\ MirrorInv' /\ SyncInv'
<1>1. CASE UNCHANGED <<clerk, events, user, sync, handled, muddled>> /\ stimuli' \in {stimuli, stimuli + 1}
  <2>1. Silent /\ sync \in Reconciles
    BY <1>1 DEF Silent, RowTypes
  <2> QED
    BY <1>1, <2>1, RowsUntouched, SilentTypes, SyncUndisturbed
<1>2. CASE Ask
  BY <1>1, <1>2 DEF Ask, AskRemove, AskRole, AskTenant, AskNote, Send, Stimulus, hub, past
<1>3. CASE Act
  <2> PICK r \in Requests :
        SetRole(r) \/ RemoveUser(r) \/ DeleteTenant(r) \/ Undelete(r) \/ AddNote(r) \/ Refuse(r)
    BY <1>3 DEF Act
  <2>1. CASE SetRole(r) \/ RemoveUser(r)
    <3>1. reqs[r].target \in Persons
      BY <2>1 DEF SetRole, RemoveUser, Commits, GuardInv, Sent
    <3>2. /\ Silent /\ muddled' = muddled \cup {reqs[r].target}
          /\ \A p \in Persons : p # reqs[r].target => user'[p] = user[p]
          /\ \/ sync' = Disturbed({})
             \/ sync' = Disturbed({reqs[r].target})
      BY <2>1 DEF SetRole, RemoveUser, Silent, GuardInv
    <3> QED
      BY <3>1, <3>2, MuddledRows
  <2>2. CASE DeleteTenant(r) \/ Undelete(r) \/ AddNote(r) \/ Refuse(r)
    BY <1>1, <2>2 DEF DeleteTenant, Undelete, AddNote, Refuse, hub, past
  <2> QED
    BY <2>1, <2>2
<1>4. CASE Ingest \/ GraceEnds \/ SweepBegin \/ SweepData \/ SweepAudit \/ SweepThrows \/ SweepFails
  BY <1>1, <1>4 DEF Ingest, GraceEnds, SweepBegin, SweepData, SweepAudit, SweepThrows, SweepFails,
                    Stimulus, hub, past
<1>5. CASE SweepUsers
  <2>1. Silent /\ muddled' = Persons /\ sync' = Disturbed(Persons)
    BY <1>5 DEF SweepUsers, Silent
  <2> QED
    BY <2>1, MuddledRows
<1>6. CASE SweepTenant
  <2>1. /\ Silent /\ UNCHANGED <<user, muddled>>
        /\ sync' = IF sync.phase = "idle" THEN sync ELSE [Disturbed({}) EXCEPT !.lost = TRUE]
    BY <1>6 DEF SweepTenant, Silent, past
  <2>2. sync' \in Reconciles /\ SyncInv'
    <3>1. CASE sync.phase = "idle"
      BY <2>1, <3>1, SyncUndisturbed DEF Silent, RowTypes
    <3>2. CASE sync.phase # "idle"
      <4>1. /\ sync' \in Reconciles
            /\ sync'.phase = sync.phase /\ sync'.offset = sync.offset /\ sync'.total = sync.total
            /\ sync'.page = sync.page /\ sync'.seen = sync.seen /\ sync'.left = sync.left
            /\ sync'.moved = sync.moved /\ sync'.changed = sync.changed /\ ~sync'.clean
        <5> DEFINE d == Disturbed({})
        <5>1. /\ d \in Reconciles
              /\ d.phase = sync.phase /\ d.offset = sync.offset /\ d.total = sync.total
              /\ d.page = sync.page /\ d.seen = sync.seen /\ d.left = sync.left
              /\ d.moved = sync.moved /\ d.changed = sync.changed /\ ~d.clean
          BY <3>2, DisturbedFacts DEF RowTypes
        <5>2. sync' = [d EXCEPT !.lost = TRUE]
          BY <2>1, <3>2
        <5> HIDE DEF d
        <5> QED
          BY <5>1, <5>2 DEF Reconciles
      <4>2. clerk' = clerk
        BY <2>1 DEF Silent
      <4>3. PageInv' /\ WalkedInv'
        BY <4>1, <4>2 DEF SyncInv, PageInv, WalkedInv, InPage
      <4>4. LeftInv' /\ CleanInv'
        BY <4>1 DEF SyncInv, LeftInv, CleanInv
      <4> QED
        BY <4>1, <4>3, <4>4 DEF SyncInv
    <3> QED
      BY <3>1, <3>2
  <2> QED
    BY <2>1, <2>2, RowsUntouched, SilentTypes
<1>7. CASE UNCHANGED vars
  BY <1>1, <1>7 DEF vars, hub, past
<1> QED
  BY <1>2, <1>3, <1>4, <1>5, <1>6, <1>7 DEF SweepStep

LEMMA InitRows == Init => RowsInv
<1> SUFFICES ASSUME Init
             PROVE  RowsInv
  OBVIOUS
<1>1. clerk \in Seq(Members) /\ OneEach(clerk) /\ clerk = Founders
  BY AccountsAssumption DEF Init
<1>2. GuardInv
  BY InitGuard
<1>3. sync \in Reconciles /\ SyncInv
  <2>1. sync.phase = "idle" /\ sync.page = <<>> /\ DOMAIN <<>> = {}
    BY NoSyncFacts DEF Init
  <2> QED
    BY <2>1, NoSyncFacts DEF Init, SyncInv, PageInv, WalkedInv, LeftInv, CleanInv
<1>4. CASE tenant = None
  <2>1. tenant # "active"
    BY <1>4, NoneIsNoState
  <2>2. /\ user = [p \in Persons |-> None] /\ handled = [p \in Persons |-> 0] /\ stimuli = 1
        /\ muddled = {}
        /\ events = {[no |-> 1, kind |-> "org", person |-> None, role |-> None]}
             \cup {[no |-> 1, kind |-> "upsert", person |-> Founders[i].person,
                    role |-> Founders[i].role] : i \in DOMAIN Founders}
    BY <1>4, <2>1 DEF Init
  <2>3. \A e \in events : \/ e.kind = "org" /\ e \in Events /\ e.no = 1
                          \/ \E i \in DOMAIN clerk : /\ e \in Events /\ e.no = 1 /\ e.kind = "upsert"
                                                     /\ e.person = clerk[i].person
                                                     /\ e.role = clerk[i].role
    <3>1. \A i \in DOMAIN Founders : Founders[i] \in Members
      BY <1>1
    <3> QED
      BY <1>1, <2>2, <3>1 DEF Events, Members
  <2>4. ASSUME NEW i \in DOMAIN clerk
        PROVE  \E e \in About(clerk[i].person) : e.no = 1
    <3> DEFINE e == [no |-> 1, kind |-> "upsert", person |-> Founders[i].person,
                     role |-> Founders[i].role]
    <3>1. e \in events /\ e.kind # "org" /\ e.person = clerk[i].person /\ e.no = 1
      BY <1>1, <2>2
    <3> QED
      BY <3>1 DEF About
  <2>5. RowTypes
    BY <1>1, <1>3, <2>2, <2>3 DEF RowTypes
  <2>6. EventsInv
    <3>1. \A e \in events : e.no <= stimuli + 1
      BY <2>2, <2>3
    <3>2. \A p \in Persons : handled[p] <= stimuli + 1
      BY <2>2
    <3>3. ASSUME NEW e \in events, Newest(e)
          PROVE  RowAfter(e) = Mirror[e.person]
      <4>1. e.kind # "org"
        BY <3>3 DEF Newest, About
      <4>2. PICK i \in DOMAIN clerk : /\ e \in Events /\ e.kind = "upsert"
                                      /\ e.person = clerk[i].person /\ e.role = clerk[i].role
        BY <2>3, <4>1
      <4>3. e.person \in Persons
        BY <4>2 DEF Events
      <4> QED
        BY <1>1, <4>2, <4>3, MirrorIs DEF RowAfter
    <3> QED
      BY <3>1, <3>2, <3>3 DEF EventsInv
  <2>7. MirrorInv
    <3> SUFFICES ASSUME NEW p \in Persons, HeardAll(p)
                 PROVE  user[p] = Mirror[p]
      BY DEF MirrorInv
    <3>1. ~Listed(p)
      <4> SUFFICES ASSUME NEW i \in DOMAIN clerk, clerk[i].person = p
                   PROVE  FALSE
        BY DEF Listed
      <4>1. PICK e \in About(p) : e.no = 1
        BY <2>4
      <4> QED
        BY <2>2, <4>1 DEF HeardAll
    <3> QED
      BY <1>1, <2>2, <3>1, MirrorIs
  <2> QED
    BY <1>2, <1>3, <2>5, <2>6, <2>7 DEF RowsInv
<1>5. CASE tenant # None
  <2>1. /\ user = Mirror /\ events = {} /\ stimuli = 0
        /\ handled = [p \in Persons |-> IF Listed(p) THEN 1 ELSE 0]
    BY <1>5 DEF Init
  <2>2. handled \in [Persons -> Nat] /\ \A p \in Persons : handled[p] <= 1
    BY <2>1
  <2>3. RowTypes
    BY <1>1, <1>3, <2>1, <2>2 DEF RowTypes
  <2>4. EventsInv /\ MirrorInv
    BY <2>1, <2>2 DEF EventsInv, MirrorInv
  <2> QED
    BY <1>2, <1>3, <2>3, <2>4 DEF RowsInv
<1> QED
  BY <1>4, <1>5

LEMMA NextRows == RowsInv /\ [Next]_vars => RowsInv'
<1> SUFFICES ASSUME RowsInv, [Next]_vars
             PROVE  RowsInv'
  OBVIOUS
<1>1. GuardInv /\ RowTypes /\ EventsInv /\ MirrorInv /\ SyncInv
  BY DEF RowsInv
<1>2. GuardInv'
  BY <1>1, NextGuard
<1>3. CASE Clerk
  BY <1>1, <1>2, <1>3, ClerkKeepsRows DEF RowsInv
<1>4. CASE Webhook
  BY <1>1, <1>2, <1>4, WebhookKeepsRows DEF RowsInv
<1>5. CASE Sync
  BY <1>1, <1>2, <1>5, SyncKeepsRows DEF RowsInv
<1>6. CASE Ask \/ Act \/ Ingest \/ GraceEnds \/ SweepStep \/ SweepFails \/ UNCHANGED vars
  BY <1>1, <1>2, <1>6, OthersKeepRows DEF RowsInv
<1> QED
  BY <1>3, <1>4, <1>5, <1>6 DEF Next

\* The user rows follow Clerk's list, whatever order webhooks come in, however
\* often, and whatever else is under way; and a reconcile that ran undisturbed
\* leaves one row per member, in that member's role (routes/webhooks.ts:145-200,
\* services/clerk-sync.ts:92-139).
THEOREM RowsFollowClerk == Spec => []RowsMirrorClerk
<1>1. RowsInv => RowsMirrorClerk
  <2> SUFFICES ASSUME RowsInv
               PROVE  RowsMirrorClerk
    OBVIOUS
  <2>1. ASSUME events = {}, NEW p \in Persons \ muddled
        PROVE  user[p] = Mirror[p]
    BY <2>1 DEF RowsInv, MirrorInv, HeardAll, About
  <2>2. ASSUME sync.phase = "remove", sync.left = {}, sync.clean
        PROVE  user = Mirror
    <3>1. /\ ~sync.moved /\ \A p \in sync.seen : user[p] = Mirror[p]
          /\ \A p \in Persons \ sync.seen : user[p] = None
      BY <2>2 DEF RowsInv, SyncInv, CleanInv
    <3>2. \A p \in Persons \ sync.seen : Mirror[p] = None
      BY <2>2, <3>1, LeftAreUnlisted DEF RowsInv
    <3>3. \A p \in Persons : user[p] = Mirror[p]
      BY <3>1, <3>2
    <3>4. DOMAIN Mirror = Persons /\ Mirror = [p \in Persons |-> Mirror[p]]
      BY DEF Mirror
    <3>5. user = [p \in Persons |-> user[p]]
      BY DEF RowsInv, GuardInv
    <3> QED
      BY <3>3, <3>4, <3>5
  <2> QED
    BY <2>1, <2>2 DEF RowsMirrorClerk
<1> QED
  BY <1>1, InitRows, NextRows, PTL DEF Spec

-----------------------------------------------------------------------------
(* Numbers, and the rank of what a key orders.                             *)

Less == {p \in Nat \X Nat : p[1] < p[2]}

LEMMA LessIsWellFounded == IsWellFoundedOn(Less, Nat)
BY NatLessThanWellFounded, SMT DEF OpToRel, Less

LEMMA LeastNumber ==
  ASSUME NEW S, S \subseteq Nat, S # {}
  PROVE  \E n \in S : \A m \in S : n <= m
<1>1. PICK n \in S : \A m \in S : ~ (<<m, n>> \in Less)
  BY LessIsWellFounded, WFMin
<1>2. \A m \in S : ~ (m < n)
  BY <1>1 DEF Less
<1> QED BY <1>2

\* One of finitely many numbers is the greatest: else take the first of them up
\* to which none is.
LEMMA GreatestNumber ==
  ASSUME NEW N \in Nat \ {0}, NEW f, \A n \in 1..N : f[n] \in Nat
  PROVE  \E m \in 1..N : \A n \in 1..N : f[n] <= f[m]
<1>1. PICK fails : fails = {k \in 1..N : \A m \in 1..k : \E n \in 1..k : ~ (f[n] <= f[m])}
  OBVIOUS
<1>2. CASE fails = {}
  <2>1. N \in 1..N /\ N \notin fails
    BY <1>2
  <2> QED BY <1>1, <2>1
<1>3. CASE fails # {}
  <2>1. fails \subseteq Nat
    BY <1>1
  <2>2. PICK k \in fails : \A j \in fails : k <= j
    BY <1>3, <2>1, LeastNumber
  <2>3. k \in 1..N /\ \A m \in 1..k : \E n \in 1..k : ~ (f[n] <= f[m])
    BY <1>1, <2>2
  <2>4. k # 1
    <3>1. ASSUME k = 1
          PROVE  \A n \in 1..k : n = 1 /\ f[n] <= f[1]
      BY <3>1
    <3> QED BY <2>3, <3>1
  <2>5. PICK j : j = k - 1
    OBVIOUS
  <2>6. j \in 1..N /\ j \notin fails
    BY <2>2, <2>3, <2>4, <2>5
  <2>7. PICK m \in 1..j : \A n \in 1..j : f[n] <= f[m]
    BY <1>1, <2>6
  <2>8. \A n \in 1..k : n \in 1..j \/ n = k
    BY <2>3, <2>5, <2>6
  <2>9. m \in 1..k /\ k \in 1..k /\ f[m] \in Nat /\ f[k] \in Nat
    BY <2>3, <2>5, <2>6, <2>7
  <2>10. CASE f[k] <= f[m]
    BY <2>3, <2>7, <2>8, <2>9, <2>10
  <2>11. CASE f[m] < f[k]
    <3>1. \A n \in 1..j : f[n] \in Nat /\ f[n] <= f[k]
      BY <2>6, <2>7, <2>9, <2>11
    <3> QED BY <2>3, <2>8, <2>9, <3>1
  <2> QED BY <2>9, <2>10, <2>11
<1> QED BY <1>2, <1>3

Below(L, K, x) == {y \in L : K[y] < K[x]}

\* The ranks of a finite set, by a key no two have in common, follow the key.
LEMMA RanksFollow ==
  ASSUME NEW L, IsFiniteSet(L), NEW K \in [L -> Nat]
  PROVE  /\ \A x \in L : IsFiniteSet(Below(L, K, x)) /\ Cardinality(Below(L, K, x)) \in Nat
         /\ \A x, y \in L : K[x] < K[y] => Cardinality(Below(L, K, x)) < Cardinality(Below(L, K, y))
<1>1. ASSUME NEW x \in L
      PROVE  IsFiniteSet(Below(L, K, x)) /\ Cardinality(Below(L, K, x)) \in Nat
  <2>1. Below(L, K, x) \in SUBSET L
    BY DEF Below
  <2>2. IsFiniteSet(Below(L, K, x))
    BY <2>1, FS_Subset
  <2> QED BY <2>2, FS_CardinalityType
<1>2. ASSUME NEW x \in L, NEW y \in L, K[x] < K[y]
      PROVE  Cardinality(Below(L, K, x)) < Cardinality(Below(L, K, y))
  <2>1. Below(L, K, x) \in SUBSET Below(L, K, y)
    BY <1>2 DEF Below
  <2>2. Below(L, K, x) # Below(L, K, y)
    BY <1>2 DEF Below
  <2>3. /\ Cardinality(Below(L, K, x)) <= Cardinality(Below(L, K, y))
        /\ Cardinality(Below(L, K, y)) # Cardinality(Below(L, K, x))
    BY <1>1, <2>1, <2>2, FS_Subset
  <2> QED BY <1>1, <2>3
<1> QED BY <1>1, <1>2

\* And no rank is left out: of those ranked n or more the first has rank n.
LEMMA RanksAreDense ==
  ASSUME NEW L, IsFiniteSet(L), NEW K \in [L -> Nat], \A x, y \in L : K[x] = K[y] => x = y,
         NEW n \in Nat, NEW z \in L, n <= Cardinality(Below(L, K, z))
  PROVE  \E x \in L : Cardinality(Below(L, K, x)) = n
<1> DEFINE R(x) == Cardinality(Below(L, K, x))
<1>0. \A x \in L : IsFiniteSet(Below(L, K, x)) /\ R(x) \in Nat
  BY RanksFollow
<1>00. \A x, y \in L : K[x] < K[y] => R(x) < R(y)
  BY RanksFollow
<1>1. PICK keys : keys = {K[x] : x \in {y \in L : n <= R(y)}}
  OBVIOUS
<1>2. PICK k \in keys : \A j \in keys : k <= j
  <2>1. keys \subseteq Nat /\ keys # {}
    BY <1>1
  <2> QED BY <2>1, LeastNumber
<1>3. PICK x \in L : n <= R(x) /\ K[x] = k
  BY <1>1, <1>2
<1>4. \A y \in Below(L, K, x) : R(y) < n
  <2>1. ASSUME NEW y \in L, K[y] < K[x], n <= R(y)
        PROVE  FALSE
    <3>1. K[y] \in keys
      BY <1>1, <2>1
    <3> QED BY <1>2, <1>3, <2>1, <3>1
  <2>2. \A y \in Below(L, K, x) : y \in L /\ K[y] < K[x]
    BY DEF Below
  <2> QED BY <1>0, <2>1, <2>2
<1>5. R(x) <= n
  <2>1. PICK f : f = [y \in Below(L, K, x) |-> R(y)]
    OBVIOUS
  <2>2. \A y \in Below(L, K, x) : y \in L /\ R(y) \in 0..(n - 1)
    <3>1. \A y \in Below(L, K, x) : y \in L
      BY DEF Below
    <3> QED BY <1>0, <1>4, <3>1
  <2>3. f \in [Below(L, K, x) -> 0..(n - 1)]
    BY <2>1, <2>2
  <2>4. ASSUME NEW y \in Below(L, K, x), NEW w \in Below(L, K, x), f[y] = f[w]
        PROVE  y = w
    <3>1. y \in L /\ w \in L /\ R(y) = R(w) /\ R(y) \in Nat /\ R(w) \in Nat
      BY <1>0, <2>1, <2>2, <2>4
    <3>2. ~ (K[y] < K[w]) /\ ~ (K[w] < K[y])
      BY <1>00, <3>1
    <3>3. K[y] = K[w]
      BY <3>1, <3>2
    <3> QED BY <3>1, <3>3
  <2>5. f \in Injection(Below(L, K, x), 0..(n - 1))
    BY <2>3, <2>4 DEF Injection, IsInjective
  <2>6. IsFiniteSet(0..(n - 1)) /\ Cardinality(0..(n - 1)) = n
    <3>1. PICK m \in Int : m = n - 1
      OBVIOUS
    <3>2. IsFiniteSet(0..m) /\ Cardinality(0..m) = IF 0 > m THEN 0 ELSE m - 0 + 1
      <4>1. \A a, b \in Int : IsFiniteSet(a..b) /\ Cardinality(a..b) = IF a > b THEN 0 ELSE b - a + 1
        BY FS_Interval, Zenon
      <4>2. 0 \in Int
        OBVIOUS
      <4> QED BY <4>1, <4>2, Zenon
    <3> QED BY <3>1, <3>2
  <2>7. R(x) <= Cardinality(0..(n - 1))
    BY <2>5, <2>6, FS_Injection
  <2> QED BY <2>6, <2>7
<1> QED BY <1>0, <1>3, <1>5
-----------------------------------------------------------------------------
(* What is stored, and the lists an administrator may write.               *)

Directions == {"inbound", "outbound", "unknown"}

Stored(d) == \E f \in Catalogue : \E at \in 0..Horizon : \E dir \in Directions :
               d = Document(f, at, dir)

DocsInv == IsFiniteSet(docs) /\ \A d \in docs : Stored(d)

PartnersInv ==
  /\ now \in 0..Horizon
  /\ DOMAIN partner = PartnerIds /\ \A i \in PartnerIds : partner[i] \in Inputs \cup {Null}
  /\ \A i \in DOMAIN pass.rows : pass.rows[i] \in Inputs
  /\ pass.now \in 0..Horizon

LEMMA StoredFacts ==
  ASSUME NEW d, Stored(d)
  PROVE  /\ d.at \in 0..Horizon /\ d.dir \in Directions
         /\ d.entries # {} => IsAck(d)
         /\ \E f \in Catalogue : d.id = f.id /\ d.po = f.po
<1>1. PICK f \in Catalogue, at \in 0..Horizon, dir \in Directions : d = Document(f, at, dir)
  BY DEF Stored
<1>2. /\ d.at = at /\ d.dir = dir /\ d.id = f.id /\ d.po = f.po
      /\ d.entries = f.entries /\ d.set = f.set
  BY <1>1 DEF Document
<1>3. f.entries # {} => IsAck(f)
  BY OrdersAssumption
<1> QED BY <1>2, <1>3 DEF IsAck

\* A parse replaces what the file stored by a document of the same order.
LEMMA ParseStores ==
  ASSUME DocsInv, PartnersInv, NEW f \in Catalogue, NEW at \in {0, now}, Parse(f, at)
  PROVE  /\ DocsInv'
         /\ \E d : /\ d.id = f.id /\ d.po = f.po
                   /\ docs' = {x \in docs : x.id # f.id} \cup {d}
         /\ \A x \in docs : x.id = f.id => x.po = f.po
<1> DEFINE stored == {x \in docs : x.id = f.id}
           time == IF stored = {} THEN at ELSE (CHOOSE x \in stored : TRUE).at
           dir == ComputeDirection(f.from, f.to, ours)
<1>1. docs' = (docs \ stored) \cup {Document(f, time, dir)}
  BY DEF Parse
<1>2. time \in 0..Horizon
  <2>1. at \in 0..Horizon
    BY OrdersAssumption DEF PartnersInv
  <2>2. ASSUME stored # {}
        PROVE  time \in 0..Horizon
    <3>1. PICK x \in docs : x = CHOOSE y \in stored : TRUE
      BY <2>2
    <3>2. x.at \in 0..Horizon
      BY StoredFacts DEF DocsInv
    <3> QED BY <2>2, <3>1, <3>2
  <2> QED BY <2>1, <2>2
<1>3. dir \in Directions
  BY DEF ComputeDirection, Directions
<1> HIDE DEF time, dir
<1>4. PICK d : d = Document(f, time, dir)
  OBVIOUS
<1>5. Stored(d)
  BY <1>2, <1>3, <1>4 DEF Stored
<1>6. d.id = f.id /\ d.po = f.po
  BY <1>4 DEF Document
<1>7. docs' = {x \in docs : x.id # f.id} \cup {d}
  BY <1>1, <1>4
<1>8. IsFiniteSet(docs')
  <2>1. {x \in docs : x.id # f.id} \in SUBSET docs /\ IsFiniteSet(docs)
    BY DEF DocsInv
  <2>2. IsFiniteSet({x \in docs : x.id # f.id})
    BY <2>1, FS_Subset
  <2> QED BY <1>7, <2>2, FS_AddElement
<1>9. DocsInv'
  BY <1>5, <1>7, <1>8 DEF DocsInv, Stored
<1>10. ASSUME NEW x \in docs, x.id = f.id
       PROVE  x.po = f.po
  <2>1. PICK g \in Catalogue : x.id = g.id /\ x.po = g.po
    BY StoredFacts DEF DocsInv
  <2> QED BY <1>10, <2>1, OrdersAssumption
<1> QED BY <1>6, <1>7, <1>9, <1>10

\* So no order leaves the list.
LEMMA ParseLists ==
  ASSUME DocsInv, PartnersInv, NEW f \in Catalogue, NEW at \in {0, now}, Parse(f, at)
  PROVE  ListedIn(docs) \subseteq ListedIn(docs')
<1>1. PICK d : d.id = f.id /\ d.po = f.po /\ docs' = {x \in docs : x.id # f.id} \cup {d}
  BY ParseStores
<1>2. \A x \in docs : x.id = f.id => x.po = f.po
  BY ParseStores
<1>3. \A x \in docs : \E y \in docs' : y.po = x.po
  BY <1>1, <1>2
<1> QED BY <1>3 DEF ListedIn
-----------------------------------------------------------------------------
(* When an order began, and its place on the list.                         *)

LEMMA BeganFacts ==
  ASSUME NEW stored, \A d \in stored : d.at \in 0..Horizon, NEW po \in ListedIn(stored)
  PROVE  Began(stored, po) \in 0..Horizon
<1>1. PICK times : times = {d.at : d \in PoDocs(stored, po)}
  OBVIOUS
<1>2. times \subseteq 0..Horizon /\ times # {}
  BY <1>1 DEF PoDocs, ListedIn
<1>3. PICK t \in times : \A m \in times : t <= m
  <2>1. times \subseteq Nat
    BY <1>2, OrdersAssumption
  <2> QED BY <1>2, <2>1, LeastNumber
<1>4. \E d \in PoDocs(stored, po) : d.at = t
  BY <1>1
<1>5. \A d \in PoDocs(stored, po) : t <= d.at
  BY <1>1, <1>3
<1>6. t \in 0..Horizon
  BY <1>2
<1> QED BY <1>4, <1>5, <1>6 DEF Began

LEMMA StartsBegan ==
  /\ DOMAIN Starts = ListedIn(docs)
  /\ \A po \in ListedIn(docs) : Starts[po] = Began(docs, po)
BY DEF Starts, Began, ListedIn

LEMMA ListIsFinite ==
  ASSUME NEW stored, IsFiniteSet(stored)
  PROVE  IsFiniteSet(ListedIn(stored))
<1> DEFINE g == [d \in stored |-> d.po]
<1>1. PICK pos : pos = {d.po : d \in stored}
  OBVIOUS
<1>2. g \in Surjection(stored, pos)
  BY <1>1 DEF Surjection
<1>3. IsFiniteSet(pos)
  BY <1>2, FS_Surjection
<1>4. ListedIn(stored) \in SUBSET pos
  BY <1>1 DEF ListedIn
<1> QED BY <1>3, <1>4, FS_Subset

Key(asc) == [po \in ListedIn(docs) |-> IF asc THEN Starts[po] ELSE Horizon - Starts[po]]

LEMMA KeyFacts ==
  ASSUME DocsInv, NEW asc \in BOOLEAN
  PROVE  /\ Key(asc) \in [ListedIn(docs) -> Nat]
         /\ \A po \in ListedIn(docs) : Ahead(po, asc) = Below(ListedIn(docs), Key(asc), po)
         /\ Untied(docs) => /\ \A po, qo \in ListedIn(docs) : Key(asc)[po] = Key(asc)[qo] => po = qo
                            /\ \A po \in ListedIn(docs) : Level(po) = {po}
<1>1. \A po \in ListedIn(docs) : Starts[po] = Began(docs, po) /\ Starts[po] \in 0..Horizon
  <2>1. \A d \in docs : d.at \in 0..Horizon
    BY StoredFacts DEF DocsInv
  <2> QED BY <2>1, BeganFacts, StartsBegan
<1>2. PICK S : S = Starts /\ DOMAIN S = ListedIn(docs)
  BY StartsBegan
<1>3. PICK L : L = ListedIn(docs)
  OBVIOUS
<1>4. \A po \in L : S[po] \in 0..Horizon
  BY <1>1, <1>2, <1>3
<1>5. Key(asc) \in [L -> Nat]
  BY <1>2, <1>3, <1>4, OrdersAssumption DEF Key
<1>6. \A po \in L : Key(asc)[po] = IF asc THEN S[po] ELSE Horizon - S[po]
  BY <1>2, <1>3 DEF Key
<1>7. ASSUME NEW po \in L
      PROVE  Ahead(po, asc) = Below(L, Key(asc), po)
  <2>1. Ahead(po, asc) = {qo \in L : IF asc THEN S[qo] < S[po] ELSE S[qo] > S[po]}
    BY <1>2, <1>3 DEF Ahead
  <2>2. ASSUME NEW qo \in L
        PROVE  (Key(asc)[qo] < Key(asc)[po]) <=> (IF asc THEN S[qo] < S[po] ELSE S[qo] > S[po])
    <3>1. S[po] \in Nat /\ S[qo] \in Nat /\ Horizon \in Nat
      BY <1>4, OrdersAssumption
    <3>2. CASE asc = TRUE
      BY <1>6, <3>1, <3>2
    <3>3. CASE asc = FALSE
      BY <1>6, <3>1, <3>3
    <3> QED BY <3>2, <3>3
  <2> QED BY <2>1, <2>2 DEF Below
<1>8. ASSUME Untied(docs), NEW po \in L, NEW qo \in L, S[po] = S[qo]
      PROVE  po = qo
  BY <1>1, <1>2, <1>3, <1>8 DEF Untied
<1>9. ASSUME Untied(docs)
      PROVE  /\ \A po, qo \in L : Key(asc)[po] = Key(asc)[qo] => po = qo
             /\ \A po \in L : Level(po) = {po}
  <2>1. ASSUME NEW po \in L, NEW qo \in L, Key(asc)[po] = Key(asc)[qo]
        PROVE  S[po] = S[qo]
    BY <1>4, <1>6, <2>1, OrdersAssumption
  <2>2. \A po \in L : Level(po) = {qo \in L : S[qo] = S[po]}
    BY <1>2, <1>3 DEF Level
  <2> QED BY <1>8, <1>9, <2>1, <2>2
<1> QED BY <1>3, <1>5, <1>7, <1>9

Rank(po, asc) == Cardinality(Ahead(po, asc))

\* On a list without ties a page shows the order of its rank, and while a page
\* is empty no order is ranked that far.
LEMMA PagesByRank ==
  ASSUME DocsInv, Untied(docs), NEW asc \in BOOLEAN, NEW n \in Nat
  PROVE  /\ OnPage(n, asc) = {po \in ListedIn(docs) : Rank(po, asc) = n}
         /\ \A po \in ListedIn(docs) : Rank(po, asc) \in Nat
         /\ \A po, qo \in ListedIn(docs) : Rank(po, asc) = Rank(qo, asc) => po = qo
         /\ OnPage(n, asc) = {} => \A po \in ListedIn(docs) : Rank(po, asc) < n
<1>1. PICK L : L = ListedIn(docs) /\ IsFiniteSet(L) /\ DOMAIN Starts = L
  BY ListIsFinite, StartsBegan DEF DocsInv
<1>2. PICK K : K = Key(asc) /\ K \in [L -> Nat]
  BY <1>1, KeyFacts
<1>3. \A po, qo \in L : K[po] = K[qo] => po = qo
  BY <1>1, <1>2, KeyFacts
<1>4. \A po \in L : Ahead(po, asc) = Below(L, K, po) /\ Level(po) = {po}
  BY <1>1, <1>2, KeyFacts
<1>5. \A po \in L : Rank(po, asc) = Cardinality(Below(L, K, po))
  BY <1>4 DEF Rank
<1>6. /\ \A x \in L : IsFiniteSet(Below(L, K, x)) /\ Cardinality(Below(L, K, x)) \in Nat
      /\ \A x, y \in L : K[x] < K[y] => Cardinality(Below(L, K, x)) < Cardinality(Below(L, K, y))
  BY <1>1, <1>2, RanksFollow
<1>7. ASSUME NEW po \in L
      PROVE  Cardinality(Ahead(po, asc) \cup Level(po)) = Rank(po, asc) + 1
  <2>1. K[po] \in Nat /\ po \notin Below(L, K, po)
    BY <1>2 DEF Below
  <2>2. Cardinality(Below(L, K, po) \cup {po}) = Cardinality(Below(L, K, po)) + 1
    BY <1>6, <2>1, FS_AddElement
  <2> QED BY <1>4, <1>5, <2>2
<1>8. \A po \in L : Rank(po, asc) \in Nat
  BY <1>5, <1>6
<1>9. OnPage(n, asc) = {po \in L : Rank(po, asc) = n}
  <2>1. \A po : po \in OnPage(n, asc) <=>
               po \in L /\ Rank(po, asc) <= n /\ n < Cardinality(Ahead(po, asc) \cup Level(po))
    <3>1. DOMAIN Starts = L
      BY <1>1
    <3> HIDE DEF Starts, Ahead, Level
    <3> QED BY <3>1 DEF OnPage, Rank
  <2>2. ASSUME NEW po \in L
        PROVE  (Rank(po, asc) <= n /\ n < Cardinality(Ahead(po, asc) \cup Level(po))) <=> Rank(po, asc) = n
    <3>1. Rank(po, asc) \in Nat /\ Cardinality(Ahead(po, asc) \cup Level(po)) = Rank(po, asc) + 1
      BY <1>7, <1>8
    <3> QED BY <3>1
  <2>3. \A po : po \in OnPage(n, asc) <=> po \in L /\ Rank(po, asc) = n
    BY <2>1, <2>2
  <2> HIDE DEF OnPage
  <2> QED BY <2>3
<1>10. ASSUME NEW po \in L, NEW qo \in L, Rank(po, asc) = Rank(qo, asc)
       PROVE  po = qo
  <2>1. K[po] \in Nat /\ K[qo] \in Nat
    BY <1>2
  <2>2. ~ (K[po] < K[qo]) /\ ~ (K[qo] < K[po])
    BY <1>5, <1>6, <1>10
  <2>3. K[po] = K[qo]
    BY <2>1, <2>2
  <2> QED BY <1>3, <2>3
<1>11. ASSUME OnPage(n, asc) = {}, NEW po \in L, ~ (Rank(po, asc) < n)
       PROVE  FALSE
  <2>1. n <= Cardinality(Below(L, K, po))
    BY <1>5, <1>8, <1>11
  <2>2. \E x \in L : Cardinality(Below(L, K, x)) = n
    BY <1>1, <1>2, <1>3, <2>1, RanksAreDense
  <2> QED BY <1>5, <1>9, <1>11, <2>2
<1> QED BY <1>1, <1>8, <1>9, <1>10, <1>11

\* What arrives moves no order forward, if it moves none that was listed.
LEMMA RankGrows ==
  ASSUME DocsInv, DocsInv', ListedIn(docs) \subseteq ListedIn(docs'), Calm(docs, docs'),
         NEW asc \in BOOLEAN, NEW po \in ListedIn(docs)
  PROVE  /\ Rank(po, asc) \in Nat /\ Rank(po, asc)' \in Nat
         /\ Rank(po, asc) <= Rank(po, asc)'
<1>1. DOMAIN Starts = ListedIn(docs) /\ \A qo \in ListedIn(docs) : Starts[qo] = Began(docs, qo)
  BY StartsBegan
<1>2. /\ DOMAIN Starts' = ListedIn(docs')
      /\ \A qo \in ListedIn(docs') : Starts'[qo] = Began(docs', qo)
  BY DEF Starts, Began, ListedIn
<1>3. \A qo \in ListedIn(docs) : Starts'[qo] = Starts[qo]
  BY <1>1, <1>2 DEF Calm
<1>4. Ahead(po, asc)' = {qo \in DOMAIN Starts' : IF asc THEN Starts'[qo] < Starts'[po]
                                                       ELSE Starts'[qo] > Starts'[po]}
  BY DEF Ahead
<1>5. Ahead(po, asc) \subseteq ListedIn(docs) /\ Ahead(po, asc)' \subseteq ListedIn(docs')
  BY <1>1, <1>2, <1>4 DEF Ahead
<1>6. Ahead(po, asc) \subseteq Ahead(po, asc)'
  <2>1. ASSUME NEW qo \in ListedIn(docs), qo \in Ahead(po, asc)
        PROVE  qo \in Ahead(po, asc)'
    <3>1. Starts'[qo] = Starts[qo] /\ Starts'[po] = Starts[po] /\ qo \in DOMAIN Starts'
      BY <1>2, <1>3
    <3>2. IF asc THEN Starts[qo] < Starts[po] ELSE Starts[qo] > Starts[po]
      BY <2>1 DEF Ahead
    <3>3. IF asc THEN Starts'[qo] < Starts'[po] ELSE Starts'[qo] > Starts'[po]
      BY <3>1, <3>2
    <3> QED BY <1>4, <3>1, <3>3
  <2> QED BY <1>5, <2>1
<1>7. IsFiniteSet(ListedIn(docs)) /\ IsFiniteSet(ListedIn(docs'))
  BY ListIsFinite DEF DocsInv
<1>8. PICK A, B : A = Ahead(po, asc) /\ B = Ahead(po, asc)'
  OBVIOUS
<1>9. IsFiniteSet(A) /\ IsFiniteSet(B) /\ A \in SUBSET B
  BY <1>5, <1>6, <1>7, <1>8, FS_Subset
<1>10. Cardinality(A) \in Nat /\ Cardinality(B) \in Nat /\ Cardinality(A) <= Cardinality(B)
  BY <1>9, FS_Subset, FS_CardinalityType
<1>11. Rank(po, asc) = Cardinality(A) /\ Rank(po, asc)' = Cardinality(B)
  BY <1>8 DEF Rank
<1> QED BY <1>10, <1>11
-----------------------------------------------------------------------------
(* A walk.  While it is calm no order moves forward past the reader: what   *)
(* was wanted and ranks below the next page has been shown.                 *)

Passed(asc) == \A po \in walk.want : Rank(po, asc) < walk.page => po \in walk.seen

WalkInv ==
  /\ DOMAIN walk = {"at", "asc", "page", "seen", "want", "calm"}
  /\ walk.at \in {"idle", "walking"} /\ walk.page \in Nat /\ walk.asc \in BOOLEAN
  /\ walk.at = "walking" /\ walk.calm =>
       /\ Untied(docs) /\ walk.want \subseteq ListedIn(docs)
       /\ \A asc \in BOOLEAN : asc = walk.asc => Passed(asc)

OrdersInv == DocsInv /\ PartnersInv /\ WalkInv

LEMMA ParseWalk ==
  ASSUME OrdersInv, NEW f \in Catalogue, NEW at \in {0, now}, Parse(f, at)
  PROVE  WalkInv'
<1> USE DEF OrdersInv
<1>1. DocsInv' /\ ListedIn(docs) \subseteq ListedIn(docs')
  BY ParseStores, ParseLists
<1>2. PICK c : c = StillCalm(docs, docs')
  OBVIOUS
<1>3. walk' = [walk EXCEPT !.calm = c]
  BY <1>2 DEF Parse
<1>4. /\ DOMAIN walk' = DOMAIN walk /\ walk'.calm = c
      /\ walk'.at = walk.at /\ walk'.page = walk.page /\ walk'.asc = walk.asc
      /\ walk'.seen = walk.seen /\ walk'.want = walk.want
  BY <1>3 DEF WalkInv
<1>5. ASSUME walk'.at = "walking", walk'.calm
      PROVE  /\ Untied(docs') /\ walk'.want \subseteq ListedIn(docs')
             /\ \A asc \in BOOLEAN : asc = walk'.asc => Passed(asc)'
  <2>1. StillCalm(docs, docs')
    BY <1>2, <1>4, <1>5
  <2>2. walk.calm /\ Calm(docs, docs')
    BY <1>4, <1>5, <2>1 DEF StillCalm
  <2>3. /\ walk.want \subseteq ListedIn(docs)
        /\ \A asc \in BOOLEAN : asc = walk.asc => Passed(asc)
    BY <1>4, <1>5, <2>2 DEF WalkInv
  <2>4. ASSUME NEW asc \in BOOLEAN, asc = walk.asc
        PROVE  Passed(asc)'
    <3>1. ASSUME NEW po \in walk.want, Rank(po, asc)' < walk.page
          PROVE  po \in walk.seen
      <4>1. Rank(po, asc) \in Nat /\ Rank(po, asc)' \in Nat /\ Rank(po, asc) <= Rank(po, asc)'
        BY <1>1, <2>2, <2>3, RankGrows
      <4>2. Rank(po, asc) < walk.page
        BY <3>1, <4>1 DEF WalkInv
      <4> QED BY <2>3, <2>4, <4>2 DEF Passed
    <3> QED BY <1>4, <3>1 DEF Passed
  <2>5. Untied(docs')
    BY <2>2 DEF Calm
  <2> QED BY <1>1, <1>4, <2>3, <2>4, <2>5
<1> QED BY <1>4, <1>5 DEF WalkInv

LEMMA PageWalk ==
  ASSUME OrdersInv, WalkPage
  PROVE  WalkInv'
<1> USE DEF OrdersInv
<1>1. PICK po \in OnPage(walk.page, walk.asc) :
        walk' = [at |-> "walking", asc |-> walk.asc, page |-> walk.page + 1,
                 seen |-> walk.seen \cup {po}, want |-> walk.want, calm |-> walk.calm]
  BY DEF WalkPage
<1>2. /\ DOMAIN walk' = DOMAIN walk /\ walk'.calm = walk.calm
      /\ walk'.at = "walking" /\ walk'.page = walk.page + 1 /\ walk'.asc = walk.asc
      /\ walk'.seen = walk.seen \cup {po} /\ walk'.want = walk.want
      /\ walk.at = "walking" /\ docs' = docs
  BY <1>1 DEF WalkInv, WalkPage
<1>3. ASSUME walk.calm
      PROVE  /\ Untied(docs') /\ walk'.want \subseteq ListedIn(docs')
             /\ \A asc \in BOOLEAN : asc = walk'.asc => Passed(asc)'
  <2>1. Untied(docs) /\ walk.want \subseteq ListedIn(docs)
    BY <1>2, <1>3 DEF WalkInv
  <2>2. ASSUME NEW asc \in BOOLEAN, asc = walk.asc
        PROVE  Passed(asc)'
    <3>1. Passed(asc) /\ walk.page \in Nat
      BY <1>2, <1>3, <2>2 DEF WalkInv
    <3>2. /\ po \in ListedIn(docs) /\ Rank(po, asc) = walk.page
          /\ \A qo \in ListedIn(docs) : Rank(qo, asc) \in Nat
          /\ \A qo \in ListedIn(docs) : Rank(po, asc) = Rank(qo, asc) => po = qo
      BY <2>1, <2>2, <3>1, PagesByRank
    <3>3. \A qo : Rank(qo, asc)' = Rank(qo, asc)
      BY <1>2 DEF Rank, Ahead, Starts
    <3>4. ASSUME NEW qo \in walk.want, Rank(qo, asc) < walk.page + 1
          PROVE  qo \in walk.seen \cup {po}
      <4>1. Rank(qo, asc) \in Nat
        BY <2>1, <3>2
      <4>2. CASE Rank(qo, asc) < walk.page
        BY <3>1, <4>2 DEF Passed
      <4>3. CASE Rank(qo, asc) = walk.page
        BY <2>1, <3>2, <4>3
      <4> QED BY <3>1, <3>4, <4>1, <4>2, <4>3
    <3> QED BY <1>2, <3>3, <3>4 DEF Passed
  <2> QED BY <1>2, <2>1, <2>2
<1> QED BY <1>2, <1>3 DEF WalkInv

LEMMA StillOrders ==
  ASSUME OrdersInv, ONext \/ UNCHANGED orderVars
  PROVE  OrdersInv'
<1> USE DEF OrdersInv
<1>1. ASSUME UNCHANGED <<docs, walk>>
      PROVE  DocsInv' /\ WalkInv'
  <2>1. \A po, asc : Rank(po, asc)' = Rank(po, asc)
    BY <1>1 DEF Rank, Ahead, Starts
  <2>2. \A asc : Passed(asc) => Passed(asc)'
    BY <1>1, <2>1 DEF Passed
  <2> QED BY <1>1, <2>2 DEF DocsInv, WalkInv, Stored
<1>2. CASE Advance
  BY <1>1, <1>2, OrdersAssumption DEF Advance, readers, PartnersInv
<1>3. CASE SetOurs
  BY <1>1, <1>3 DEF SetOurs, readers, PartnersInv
<1>4. ASSUME NEW i \in PartnerIds, NEW row \in Inputs \cup {Null}, Configure(i, row)
      PROVE  OrdersInv'
  BY <1>1, <1>4 DEF Configure, PartnersInv
<1>5. ASSUME NEW f \in Catalogue, NEW at \in {0, now}, Parse(f, at)
      PROVE  OrdersInv'
  <2>1. PartnersInv'
    BY <1>5 DEF Parse, PartnersInv
  <2> QED BY <1>5, <2>1, ParseStores, ParseWalk
<1>6. CASE PassBegin
  <2>1. PICK them : them = [i \in {j \in PartnerIds : partner[j] # Null /\ partner[j].active} |-> partner[i]]
    OBVIOUS
  <2>2. pass' = [at |-> "read", now |-> now, rows |-> them] /\ UNCHANGED <<now, partner, docs, walk>>
    BY <1>6, <2>1 DEF PassBegin
  <2>3. \A i \in DOMAIN them : i \in PartnerIds /\ partner[i] # Null /\ them[i] = partner[i]
    BY <2>1
  <2> QED BY <1>1, <2>2, <2>3 DEF PartnersInv
<1>7. CASE PassEnd
  <2>1. pass'.rows = <<>> /\ pass'.now = 0 /\ UNCHANGED <<now, partner, docs, walk>>
    BY <1>7 DEF PassEnd, NoPass
  <2> QED BY <1>1, <2>1, OrdersAssumption DEF PartnersInv
<1>8. ASSUME NEW asc \in BOOLEAN, WalkBegin(asc)
      PROVE  OrdersInv'
  <2>1. /\ walk' = [at |-> "walking", asc |-> asc, page |-> 0, seen |-> {},
                    want |-> ListedIn(docs), calm |-> Untied(docs)]
        /\ UNCHANGED <<now, partner, docs, pass>>
    BY <1>8 DEF WalkBegin
  <2>2. PICK c : c = Untied(docs)
    OBVIOUS
  <2>3. /\ DOMAIN walk' = {"at", "asc", "page", "seen", "want", "calm"}
        /\ walk'.at = "walking" /\ walk'.asc = asc /\ walk'.page = 0
        /\ walk'.want = ListedIn(docs) /\ walk'.calm = c
    BY <2>1, <2>2
  <2>4. ASSUME walk'.calm
        PROVE  Untied(docs') /\ Passed(asc)'
    <3>1. Untied(docs)
      BY <2>2, <2>3, <2>4
    <3>2. \A po \in ListedIn(docs) : Rank(po, asc) \in Nat
      BY <3>1, PagesByRank
    <3>3. \A po : Rank(po, asc)' = Rank(po, asc)
      BY <2>1 DEF Rank, Ahead, Starts
    <3> QED BY <2>1, <2>3, <3>1, <3>2, <3>3 DEF Passed
  <2>5. WalkInv'
    BY <2>1, <2>3, <2>4 DEF WalkInv
  <2> QED BY <2>1, <2>5 DEF PartnersInv, DocsInv, Stored
<1>9. CASE WalkPage
  BY <1>9, PageWalk DEF WalkPage, PartnersInv, DocsInv, Stored
<1>10. CASE WalkEnd
  <2>1. walk' = NoWalk /\ UNCHANGED <<now, partner, docs, pass>>
    BY <1>10 DEF WalkEnd
  <2> QED BY <2>1 DEF PartnersInv, DocsInv, Stored, WalkInv, NoWalk
<1>11. CASE UNCHANGED orderVars
  BY <1>1, <1>11 DEF orderVars, PartnersInv
<1> QED BY <1>2, <1>3, <1>4, <1>5, <1>6, <1>7, <1>8, <1>9, <1>10, <1>11 DEF ONext

LEMMA InitOrders == OInit => OrdersInv
<1> SUFFICES ASSUME OInit
             PROVE  OrdersInv
  OBVIOUS
<1>1. DocsInv
  BY FS_EmptySet DEF OInit, DocsInv
<1>2. PartnersInv
  BY OrdersAssumption DEF OInit, PartnersInv, NoPass
<1>3. WalkInv
  BY DEF OInit, WalkInv, NoWalk
<1> QED BY <1>1, <1>2, <1>3 DEF OrdersInv

\* THEOREM.  A reader of the list who turns every page misses no order that was
\* there, however many files are stored meanwhile, unless two orders began in one
\* instant or an order moved (listLifecycles, lifecycles.ts:53-111): what arrives
\* pushes orders back, never forward.
THEOREM WalksSeeAll == OSpec => WalkSeesAll
<1>1. ASSUME OrdersInv, ONext, walk.calm, walk.at = "walking", walk'.at = "idle"
      PROVE  walk.want \subseteq walk.seen
  <2>1. WalkEnd
    <3>1. ASSUME NEW f \in Catalogue, NEW at \in {0, now}, Parse(f, at)
          PROVE  FALSE
      <4>1. PICK c : walk' = [walk EXCEPT !.calm = c]
        BY <3>1 DEF Parse
      <4> QED BY <1>1, <4>1 DEF OrdersInv, WalkInv
    <3>2. ~ WalkPage /\ \A asc \in BOOLEAN : ~ WalkBegin(asc)
      BY <1>1 DEF WalkPage, WalkBegin
    <3>3. walk' # walk
      BY <1>1
    <3> QED BY <1>1, <3>1, <3>2, <3>3 DEF ONext, Advance, SetOurs, Configure, PassBegin, PassEnd, readers
  <2>2. PICK asc \in BOOLEAN : asc = walk.asc
    BY <1>1 DEF OrdersInv, WalkInv
  <2>3. /\ DocsInv /\ walk.page \in Nat
        /\ Untied(docs) /\ walk.want \subseteq ListedIn(docs) /\ Passed(asc)
    BY <1>1, <2>2 DEF OrdersInv, WalkInv
  <2>4. OnPage(walk.page, asc) = {}
    BY <2>1, <2>2 DEF WalkEnd
  <2>5. \A po \in ListedIn(docs) : Rank(po, asc) < walk.page
    BY <2>3, <2>4, PagesByRank
  <2> QED BY <2>3, <2>5 DEF Passed
<1>2. OrdersInv /\ [ONext]_orderVars =>
        [(walk.calm /\ walk.at = "walking" /\ walk'.at = "idle") => walk.want \subseteq walk.seen]_orderVars
  BY <1>1
<1>3. OrdersInv /\ [ONext]_orderVars => OrdersInv'
  BY StillOrders
<1> QED BY <1>2, <1>3, InitOrders, PTL DEF OSpec, WalkSeesAll
-----------------------------------------------------------------------------
(* The detectors and the pages.                                            *)

LEMMA RowLists ==
  ASSUME NEW row \in Inputs
  PROVE  /\ IsFiniteSet(Owned(row))
         /\ \E N \in Nat : DOMAIN row.windows = 1..N
         /\ row.windows # <<>> => DOMAIN row.windows # {}
         /\ \A n \in DOMAIN row.windows : row.windows[n].within \in Nat
         /\ \E N \in Nat : DOMAIN row.flows = 1..N
         /\ \A n \in DOMAIN row.flows : \E M \in Nat : DOMAIN row.flows[n].steps = 1..M
<1>1. ASSUME NEW s, IsSequence(s)
      PROVE  (\E N \in Nat : DOMAIN s = 1..N) /\ (s # <<>> => DOMAIN s # {})
  <2>1. PICK S : s \in Seq(S)
    BY <1>1 DEF IsSequence
  <2>2. Len(s) \in Nat /\ DOMAIN s = 1..Len(s)
    BY <2>1
  <2>3. s # <<>> => Len(s) \in Nat \ {0}
    BY <2>1, EmptySeq, Zenon
  <2>4. Len(s) \in Nat \ {0} => DOMAIN s # {}
    BY <2>2
  <2>5. \E N \in Nat : DOMAIN s = 1..N
    BY <2>2, Zenon
  <2> QED BY <2>3, <2>4, <2>5, Zenon
<1>2. IsFiniteSet(row.send) /\ IsFiniteSet(row.recv)
  BY OrdersAssumption
<1>3. IsFiniteSet(Owned(row))
  BY <1>2, FS_Union DEF Owned
<1>4. /\ IsSequence(row.windows) /\ IsSequence(row.flows)
      /\ \A n \in DOMAIN row.windows : row.windows[n].within \in Nat
      /\ \A n \in DOMAIN row.flows : IsSequence(row.flows[n].steps)
  BY OrdersAssumption
<1>5. /\ \E N \in Nat : DOMAIN row.windows = 1..N
      /\ row.windows # <<>> => DOMAIN row.windows # {}
      /\ \E N \in Nat : DOMAIN row.flows = 1..N
  BY <1>1, <1>4, Zenon
<1>6. \A n \in DOMAIN row.flows : \E M \in Nat : DOMAIN row.flows[n].steps = 1..M
  BY <1>1, <1>4, Zenon
<1> QED BY <1>3, <1>4, <1>5, <1>6, Zenon

\* Nothing that the detector takes for an acknowledgment is missed by the page.
LEMMA PageSeesAcks ==
  ASSUME DocsInv, NEW d, NEW w, AcksOf(docs, d) = {}
  PROVE  ~ Acked(docs, d, w)
<1> SUFFICES ASSUME NEW a \in docs, a.acked = d.group,
                    NEW e \in a.entries, e.set = d.set /\ e.ctl = d.ctl
             PROVE  FALSE
  BY DEF Acked
<1>1. IsAck(a)
  BY StoredFacts DEF DocsInv
<1>2. e \in Covers(a, d)
  BY <1>1 DEF Covers
<1> QED BY <1>2 DEF AcksOf

LEMMA OverdueIsRaised == OrdersInv => OverdueRaised
<1> SUFFICES ASSUME OrdersInv, NEW po \in Pos, NEW anchor \in Anchors(docs, po),
                    NEW i \in Claimants(pass.rows, anchor, ours),
                    NEW d \in Overdue(docs, Originals(docs, po, anchor), ours, pass.rows[i].windows, pass.now),
                    Touches(pass.rows[i], d), d.dir # "unknown", pass.now - d.at <= Week
             PROVE  <<"MISSING_ACK", i, d.id>> \in Found(pass.rows, pass.now)
  BY DEF OverdueRaised
<1>1. PICK p : p = pass.rows[i] /\ i \in DOMAIN pass.rows /\ p \in Inputs
  BY DEF Claimants, OrdersInv, PartnersInv
<1>2. /\ d \in Originals(docs, po, anchor) /\ EventDirection(d, ours) = "outbound"
      /\ IF IsAck(d) THEN d.ak9 \notin {"R", "M"} ELSE AcksOf(docs, d) = {}
      /\ \E n \in DOMAIN p.windows :
           /\ Kind(p.windows[n].set, p.windows[n].dir) = Kind(d.set, "outbound")
           /\ pass.now - d.at > p.windows[n].within
  BY <1>1 DEF Overdue
<1>3. d \in docs /\ ~ IsAck(d)
  BY <1>2 DEF Originals, PoDocs, Orphans
<1>4. d.dir = "outbound"
  BY <1>2 DEF EventDirection
<1>5. PICK n \in DOMAIN p.windows :
           /\ Kind(p.windows[n].set, p.windows[n].dir) = Kind(d.set, "outbound")
           /\ pass.now - d.at > p.windows[n].within
  BY <1>2
<1>6. pass.now - d.at >= p.windows[n].within
  <2>1. p.windows[n].within \in Nat /\ d.at \in Nat /\ pass.now \in Nat
    BY <1>1, <1>3, RowLists, StoredFacts, OrdersAssumption DEF OrdersInv, DocsInv, PartnersInv
  <2> QED BY <1>5, <2>1
<1>7. ~ Acked(docs, d, p.windows[n])
  BY <1>2, <1>3, PageSeesAcks DEF OrdersInv
<1>8. d \in MissingAcks(docs, p, pass.now)
  <2>1. d \in Recent(docs, pass.now, Week) /\ Touches(p, d)
    BY <1>1, <1>3 DEF Recent
  <2>2. Kind(p.windows[n].set, p.windows[n].dir) = Kind(d.set, d.dir)
    BY <1>4, <1>5
  <2>3. \E m \in DOMAIN p.windows :
          /\ Kind(p.windows[m].set, p.windows[m].dir) = Kind(d.set, d.dir)
          /\ pass.now - d.at >= p.windows[m].within /\ ~ Acked(docs, d, p.windows[m])
    BY <1>6, <1>7, <2>2
  <2> QED BY <2>1, <2>3 DEF MissingAcks
<1> QED BY <1>1, <1>8 DEF Found

\* A partner with one id is charged with the acknowledgments it is a side of.
LEMMA ChargesAgree ==
  ASSUME OrdersInv, NEW i \in DOMAIN pass.rows, NEW x, Owned(pass.rows[i]) = {x}, ours # {}, AllCharged,
         x \in DOMAIN RejectionRate(docs, ours, pass.now, Month)
  PROVE  {a \in Acks(Recent(docs, pass.now, Month)) : ChargedTo(a, ours) = x}
           = {a \in Acks(Recent(docs, pass.now, Month)) : Touches(pass.rows[i], a)}
<1>1. PICK M : M = Acks(Recent(docs, pass.now, Month))
  OBVIOUS
<1>2. DOMAIN RejectionRate(docs, ours, pass.now, Month) = {ChargedTo(a, ours) : a \in M}
  BY <1>1 DEF RejectionRate
<1>3. \A a \in M : ChargedTo(a, ours) # "unknown"
  BY <1>2 DEF AllCharged
<1>4. \A a \in M : \/ ChargedTo(a, ours) = a.to /\ a.from \in ours /\ a.to \notin ours
                   \/ ChargedTo(a, ours) = a.from /\ a.to \in ours /\ a.from \notin ours
  BY <1>3 DEF ChargedTo
<1>5. x \notin ours
  BY <1>2, <1>4
<1>6. \A a \in M : Touches(pass.rows[i], a) <=> x \in {a.from, a.to}
  BY DEF Touches
<1>7. \A a \in M : ChargedTo(a, ours) = x <=> Touches(pass.rows[i], a)
  BY <1>4, <1>5, <1>6
<1> QED BY <1>1, <1>7

LEMMA LatestIsLast ==
  ASSUME NEW ds, \A d \in ds : d.at \in 0..Horizon, ds # {}
  PROVE  /\ \E d \in ds : Latest(ds) = d.at
         /\ \A d \in ds : d.at <= Latest(ds)
<1>1. PICK left : left = {Horizon - d.at : d \in ds}
  OBVIOUS
<1>2. left \subseteq Nat /\ left # {}
  BY <1>1, OrdersAssumption
<1>3. PICK n \in left : \A m \in left : n <= m
  BY <1>2, LeastNumber
<1>4. PICK c \in ds : n = Horizon - c.at
  BY <1>1
<1>5. \A d \in ds : d.at <= c.at
  <2>1. ASSUME NEW d \in ds
        PROVE  d.at <= c.at
    <3>1. Horizon - d.at \in left
      BY <1>1
    <3>2. Horizon - c.at <= Horizon - d.at
      BY <1>3, <1>4, <3>1
    <3> QED BY <3>2, OrdersAssumption
  <2> QED BY <2>1
<1>6. PICK times : times = {d.at : d \in ds}
  OBVIOUS
<1>7. Latest(ds) = CHOOSE t \in times : \A d \in ds : d.at <= t
  BY <1>6 DEF Latest
<1>8. c.at \in times
  BY <1>6
<1>9. Latest(ds) \in times /\ \A d \in ds : d.at <= Latest(ds)
  BY <1>5, <1>7, <1>8
<1> QED BY <1>6, <1>9

LEMMA LongestIsNat ==
  ASSUME NEW p \in Inputs, p.windows # <<>>
  PROVE  Longest(p) \in Nat
<1>1. PICK N \in Nat \ {0} : DOMAIN p.windows = 1..N
  <2>1. PICK N \in Nat : DOMAIN p.windows = 1..N
    BY RowLists, Zenon
  <2>2. DOMAIN p.windows # {}
    BY RowLists, Zenon
  <2> QED BY <2>1, <2>2
<1>2. PICK f : f = [n \in 1..N |-> p.windows[n].within]
  OBVIOUS
<1>3. \A n \in 1..N : f[n] = p.windows[n].within /\ f[n] \in Nat
  BY <1>1, <1>2, RowLists
<1>4. PICK m \in 1..N : \A n \in 1..N : f[n] <= f[m]
  BY <1>3, GreatestNumber
<1>5. PICK W : W = {p.windows[n].within : n \in DOMAIN p.windows}
  OBVIOUS
<1>6. f[m] \in W /\ \A n \in DOMAIN p.windows : p.windows[n].within <= f[m]
  BY <1>1, <1>3, <1>4, <1>5
<1>7. Longest(p) = CHOOSE t \in W : \A n \in DOMAIN p.windows : p.windows[n].within <= t
  BY <1>5 DEF Longest
<1>8. Longest(p) \in W
  BY <1>6, <1>7
<1> QED BY <1>1, <1>3, <1>5, <1>8

LEMMA RatesAreShown == OrdersInv => RatesShown
<1> SUFFICES ASSUME OrdersInv, NEW i \in DOMAIN pass.rows
             PROVE  LET p == pass.rows[i]
                        acks == {a \in Acks(Recent(docs, pass.now, Month)) : Touches(p, a)}
                        health == Health(docs, p, ours, pass.now)
                    IN /\ (ours # {} /\ Cardinality(Owned(p)) = 1 /\ AllCharged) =>
                            health.rates \subseteq {<<Cardinality(Rejected(acks)), Cardinality(Entries(acks))>>}
                       /\ (p.windows # <<>> /\ Owned(p) # {}) =>
                            (PartnerStale(docs, p, pass.now) <=>
                               (health.last = Null \/ pass.now - health.last > 2 * Longest(p)))
  BY DEF RatesShown
<1>1. PICK p : p = pass.rows[i] /\ p \in Inputs
  BY DEF OrdersInv, PartnersInv
<1>2. PICK M, acks : M = Acks(Recent(docs, pass.now, Month)) /\ acks = {a \in M : Touches(p, a)}
  OBVIOUS
<1>3. PICK rates : rates = RejectionRate(docs, ours, pass.now, Month)
  OBVIOUS
<1>4. PICK mine : mine = {d \in docs : Touches(p, d)}
  OBVIOUS
<1>5. PICK health : health = Health(docs, p, ours, pass.now)
  OBVIOUS
<1>6. health.last = Latest(mine) /\ health.rates = {rates[id] : id \in Owned(p) \cap DOMAIN rates}
  BY <1>3, <1>4, <1>5 DEF Health
<1>7. ASSUME ours # {}, Cardinality(Owned(p)) = 1, AllCharged
      PROVE  health.rates \subseteq {<<Cardinality(Rejected(acks)), Cardinality(Entries(acks))>>}
  <2>1. PICK x : Owned(p) = {x}
    BY <1>1, <1>7, RowLists, FS_Singleton
  <2>2. ASSUME x \in DOMAIN rates
        PROVE  rates[x] = <<Cardinality(Rejected(acks)), Cardinality(Entries(acks))>>
    <3>1. PICK his : his = {a \in M : ChargedTo(a, ours) = x}
      OBVIOUS
    <3>2. his = acks
      BY <1>1, <1>2, <1>3, <1>7, <2>1, <2>2, <3>1, ChargesAgree
    <3>3. rates[x] = <<Cardinality(Rejected(his)), Cardinality(Entries(his))>>
      BY <1>2, <1>3, <2>2, <3>1 DEF RejectionRate
    <3> QED BY <3>2, <3>3
  <2> QED BY <1>6, <2>1, <2>2
<1>8. ASSUME p.windows # <<>>, Owned(p) # {}
      PROVE  PartnerStale(docs, p, pass.now) <=>
               (health.last = Null \/ pass.now - health.last > 2 * Longest(p))
  <2>1. PICK L \in Nat : L = Longest(p)
    BY <1>1, <1>8, LongestIsNat
  <2>2. PartnerStale(docs, p, pass.now) <=> \A d \in mine : ~ (pass.now - d.at <= 2 * L)
    BY <1>4, <1>8, <2>1 DEF PartnerStale, Recent
  <2>3. /\ \A d \in mine : d.at \in 0..Horizon /\ d.at \in Nat
        /\ pass.now \in Nat
    BY <1>4, StoredFacts, OrdersAssumption DEF OrdersInv, DocsInv, PartnersInv
  <2>4. CASE mine = {}
    BY <1>6, <2>2, <2>4 DEF Latest
  <2>5. CASE mine # {}
    <3>1. PICK c \in mine : Latest(mine) = c.at /\ \A d \in mine : d.at <= c.at
      BY <2>3, <2>5, LatestIsLast
    <3>2. health.last = c.at /\ c.at \in Nat /\ health.last # Null
      BY <1>6, <2>3, <3>1, TimelineAssumption
    <3>3. PartnerStale(docs, p, pass.now) <=> ~ (pass.now - c.at <= 2 * L)
      BY <2>1, <2>2, <2>3, <3>1, <3>2
    <3> QED BY <2>1, <2>3, <3>2, <3>3
  <2> QED BY <2>4, <2>5
<1> QED BY <1>1, <1>2, <1>5, <1>7, <1>8

\* THEOREM.  What a detection pass raises and what the pages show agree, for any
\* catalogue of files and any partners (detection.ts:107-205 and sla-summary.ts,
\* detection.ts:237-341 and metrics.ts, detection.ts:391-447 and dashboard.ts).
THEOREM DetectionAgrees == OSpec => DetectorsAgree
<1>1. OrdersInv => (PassEnd => OverdueRaised /\ RatesShown)
  BY OverdueIsRaised, RatesAreShown
<1>2. OrdersInv /\ [ONext]_orderVars => OrdersInv'
  BY StillOrders
<1>3. OrdersInv /\ [ONext]_orderVars => [PassEnd => OverdueRaised /\ RatesShown]_orderVars
  BY <1>1
<1> QED BY <1>2, <1>3, InitOrders, PTL DEF OSpec, DetectorsAgree
-----------------------------------------------------------------------------
(* What one more document does to an order.                                *)

LEMMA RejectionStays ==
  ASSUME NEW old, NEW new, old \subseteq new, NEW d, Rejections(old, d) # {}
  PROVE  Rejections(new, d) # {} /\ "rejected" \in Statuses(new, d)
<1>1. PICK a \in old : ~ IsAck(d) /\ \E e \in Covers(a, d) : e.code \in {"R", "M"}
  BY DEF Rejections
<1>2. PICK e \in Covers(a, d) : e.code \in {"R", "M"}
  BY <1>1
<1>3. a \in new /\ a \in AcksOf(new, d)
  BY <1>1, <1>2 DEF AcksOf
<1>4. Rejections(new, d) # {}
  BY <1>1, <1>3 DEF Rejections
<1>5. StatusFromAk5(e.code) = "rejected"
  BY <1>2 DEF StatusFromAk5
<1>6. e \in UNION {Covers(x, d) : x \in AcksOf(new, d)}
  BY <1>2, <1>3
<1>7. "rejected" \in Statuses(new, d)
  BY <1>3, <1>5, <1>6 DEF Statuses
<1> QED BY <1>4, <1>7

LEMMA ImageIsFinite ==
  ASSUME NEW S, IsFiniteSet(S), NEW g, S \subseteq DOMAIN g
  PROVE  IsFiniteSet({g[d] : d \in S}) /\ Cardinality({g[d] : d \in S}) <= Cardinality(S)
<1> DEFINE h == [d \in S |-> g[d]]
<1>1. h \in Surjection(S, {g[d] : d \in S})
  BY DEF Surjection
<1> QED BY <1>1, FS_Surjection

\* Between two parties, an order keeps its originals, whichever row it hangs on.
LEMMA OriginalsStay ==
  ASSUME NEW old, NEW new, old \subseteq new, IsFiniteSet(new), NEW po,
         Cardinality({{d.from, d.to} : d \in PoDocs(new, po)}) = 1,
         NEW a \in Anchors(old, po), NEW b \in Anchors(new, po)
  PROVE  Originals(old, po, a) \subseteq Originals(new, po, b)
<1>1. a \in PoDocs(new, po) /\ b \in PoDocs(new, po)
  BY DEF Anchors, PoDocs
<1>2. PICK parties : parties = {{d.from, d.to} : d \in PoDocs(new, po)}
  OBVIOUS
<1> DEFINE g == [d \in new |-> {d.from, d.to}]
<1>3. DOMAIN g = new /\ \A d \in new : g[d] = {d.from, d.to}
  OBVIOUS
<1> HIDE DEF g
<1>4. PoDocs(new, po) \in SUBSET new
  BY DEF PoDocs
<1>5. IsFiniteSet(PoDocs(new, po))
  BY <1>4, FS_Subset
<1>6. parties = {g[d] : d \in PoDocs(new, po)}
  <2>1. \A d \in PoDocs(new, po) : g[d] = {d.from, d.to}
    BY <1>3, <1>4
  <2> QED BY <1>2, <2>1
<1>7. IsFiniteSet(parties)
  BY <1>3, <1>4, <1>5, <1>6, ImageIsFinite
<1>8. PICK pair : parties = {pair}
  BY <1>2, <1>7, FS_Singleton
<1>9. {a.from, a.to} \in parties /\ {b.from, b.to} \in parties
  BY <1>1, <1>2
<1>10. {a.from, a.to} = {b.from, b.to}
  BY <1>8, <1>9
<1> QED BY <1>10 DEF Originals, PoDocs, Orphans

LEMMA TimelineStays ==
  ASSUME NEW old, NEW new, old \subseteq new, NEW po, NEW a, NEW b,
         Originals(old, po, a) \subseteq Originals(new, po, b)
  PROVE  OnTimeline(old, po, a) \subseteq OnTimeline(new, po, b)
<1>1. \A d : AcksOf(old, d) \subseteq AcksOf(new, d)
  BY DEF AcksOf
<1> QED BY <1>1 DEF OnTimeline

LEMMA TimelineIsFinite ==
  ASSUME NEW stored, IsFiniteSet(stored), NEW po, NEW a
  PROVE  IsFiniteSet(OnTimeline(stored, po, a))
<1>1. OnTimeline(stored, po, a) \in SUBSET stored
  BY DEF OnTimeline, Originals, PoDocs, Orphans, AcksOf
<1> QED BY <1>1, FS_Subset

\* As many steps of a kind are asked for as before, and no fewer came.
LEMMA GapsClose ==
  ASSUME NEW E, NEW F, E \subseteq F, IsFiniteSet(F), NEW seed, IsFiniteSet(DOMAIN seed),
         NEW k \in DOMAIN Gaps(E, ours, seed)
  PROVE  Gaps(F, ours, seed)[k] <= Gaps(E, ours, seed)[k]
<1> DEFINE Have(S) == {d \in S : Kind(d.set, EventDirection(d, ours)) = k}
<1>1. Have(E) \in SUBSET Have(F) /\ Have(F) \in SUBSET F
  OBVIOUS
<1>2. IsFiniteSet(Have(F))
  BY <1>1, FS_Subset
<1>3. IsFiniteSet(Have(E)) /\ Cardinality(Have(E)) <= Cardinality(Have(F))
  BY <1>1, <1>2, FS_Subset
<1>4. PICK m, n : m = Cardinality(Have(E)) /\ n = Cardinality(Have(F)) /\ m \in Nat /\ n \in Nat /\ m <= n
  BY <1>2, <1>3, FS_CardinalityType
<1>5. PICK c : c = Count(seed, k) /\ c \in Nat
  <2>1. {i \in DOMAIN seed : seed[i] = k} \in SUBSET (DOMAIN seed)
    OBVIOUS
  <2>2. IsFiniteSet({i \in DOMAIN seed : seed[i] = k})
    BY <2>1, FS_Subset
  <2> QED BY <2>2, FS_CardinalityType DEF Count
<1>6. k \in {seed[i] : i \in DOMAIN seed}
  BY DEF Gaps
<1>7. Gaps(E, ours, seed)[k] = IF m >= c THEN 0 ELSE c - m
  BY <1>4, <1>5, <1>6 DEF Gaps
<1>8. Gaps(F, ours, seed)[k] = IF n >= c THEN 0 ELSE c - n
  BY <1>4, <1>5, <1>6 DEF Gaps
<1> HIDE DEF Have
<1> QED BY <1>4, <1>5, <1>7, <1>8

\* The steps an order is held to can be counted.
LEMMA SeedIsFinite ==
  ASSUME OrdersInv, NEW sets, NEW flows,
         flows = <<>> \/ \E row \in Inputs : flows = row.flows
  PROVE  IsFiniteSet(DOMAIN Seed(sets, flows))
<1>1. PICK fits : fits = {n \in DOMAIN flows : flows[n].entry \in sets}
  OBVIOUS
<1>2. CASE fits = {}
  <2>1. Seed(sets, flows) \in {StandardFlow, GroceryFlow, <<>>}
    BY <1>1, <1>2 DEF Seed
  <2>2. DOMAIN StandardFlow = 1..6 /\ DOMAIN GroceryFlow = 1..2
    BY DEF StandardFlow, GroceryFlow
  <2>3. \A a, b \in Int : IsFiniteSet(a..b)
    BY FS_Interval, Zenon
  <2>4. IsFiniteSet(1..6) /\ IsFiniteSet(1..2) /\ IsFiniteSet({})
    <3>1. 1 \in Int /\ 2 \in Int /\ 6 \in Int
      OBVIOUS
    <3> QED BY <2>3, <3>1, FS_EmptySet, Zenon
  <2>5. DOMAIN <<>> = {}
    OBVIOUS
  <2> QED BY <2>1, <2>2, <2>4, <2>5, Zenon
<1>3. CASE fits # {}
  <2>1. flows # <<>>
    BY <1>1, <1>3
  <2>2. PICK row \in Inputs : flows = row.flows
    BY <2>1
  <2>3. PICK N \in Nat : DOMAIN flows = 1..N
    BY <2>2, RowLists, Zenon
  <2>4. fits \subseteq Nat
    BY <1>1, <2>3
  <2>5. PICK n \in fits : \A m \in fits : n <= m
    BY <1>3, <2>4, LeastNumber
  <2>6. PICK c : c = CHOOSE i \in fits : \A m \in fits : i <= m
    OBVIOUS
  <2>7. c \in fits
    BY <2>5, <2>6
  <2>8. Seed(sets, flows) = flows[c].steps
    BY <1>1, <1>3, <2>6 DEF Seed
  <2>9. PICK M \in Nat : DOMAIN flows[c].steps = 1..M
    BY <1>1, <2>2, <2>7, RowLists, Zenon
  <2>10. IsFiniteSet(1..M)
    <3>1. \A a, b \in Int : IsFiniteSet(a..b)
      BY FS_Interval, Zenon
    <3> QED BY <3>1
  <2> QED BY <2>8, <2>9, <2>10
<1> QED BY <1>2, <1>3

\* A document adds one kind at most.
LEMMA AdditionalGrows ==
  ASSUME NEW E, NEW F, E \subseteq F, IsFiniteSet(F), NEW g, F \subseteq DOMAIN g
  PROVE  Cardinality(E) - Cardinality({g[d] : d \in E}) <= Cardinality(F) - Cardinality({g[d] : d \in F})
<1>1. PICK G, e, f, r : /\ G = F \ E /\ e = {g[d] : d \in E} /\ f = {g[d] : d \in F}
                        /\ r = {g[d] : d \in F \ E}
  OBVIOUS
<1>2. IsFiniteSet(E)
  BY FS_Subset
<1>3. IsFiniteSet(G) /\ Cardinality(G) = Cardinality(F) - Cardinality(F \cap E)
  BY <1>1, FS_Difference
<1>4. F \cap E = E
  OBVIOUS
<1>5. IsFiniteSet(e) /\ IsFiniteSet(r) /\ Cardinality(r) <= Cardinality(G)
  BY <1>1, <1>2, <1>3, ImageIsFinite
<1>6. f = e \cup r
  BY <1>1
<1>7. IsFiniteSet(f) /\ Cardinality(f) = Cardinality(e) + Cardinality(r) - Cardinality(e \cap r)
  BY <1>5, <1>6, FS_Union
<1>8. IsFiniteSet(e \cap r)
  BY <1>5, FS_Intersection
<1>9. PICK x, y, z, i, j, k, l : /\ x = Cardinality(E) /\ y = Cardinality(F) /\ z = Cardinality(G)
                                 /\ i = Cardinality(e) /\ j = Cardinality(r) /\ k = Cardinality(e \cap r)
                                 /\ l = Cardinality(f)
  OBVIOUS
<1>10. x \in Nat /\ y \in Nat /\ z \in Nat /\ i \in Nat /\ j \in Nat /\ k \in Nat /\ l \in Nat
  BY <1>2, <1>3, <1>5, <1>7, <1>8, <1>9, FS_CardinalityType
<1>11. z = y - x /\ j <= z /\ l = i + j - k
  BY <1>3, <1>4, <1>5, <1>7, <1>9
<1>12. x - i <= y - l
  BY <1>10, <1>11
<1> QED BY <1>1, <1>9, <1>12

\* A new row is one more document; what the file had stored is there before.
LEMMA OneMoreStored ==
  ASSUME OrdersInv, ONext, Cardinality(docs') > Cardinality(docs)
  PROVE  docs \subseteq docs' /\ IsFiniteSet(docs') /\ ours' = ours /\ partner' = partner
<1>1. PICK f \in Catalogue, at \in {0, now} : Parse(f, at)
  <2>1. IsFiniteSet(docs) /\ Cardinality(docs) \in Nat
    BY FS_CardinalityType DEF OrdersInv, DocsInv
  <2>2. docs' # docs
    BY <2>1
  <2> QED BY <2>2 DEF ONext, Advance, SetOurs, Configure, PassBegin, PassEnd, WalkBegin, WalkPage, WalkEnd, readers
<1>2. PICK d : d.id = f.id /\ d.po = f.po /\ docs' = {x \in docs : x.id # f.id} \cup {d}
  BY <1>1, ParseStores DEF OrdersInv
<1>3. IsFiniteSet(docs) /\ IsFiniteSet(docs')
  BY <1>1, ParseStores DEF OrdersInv, DocsInv
<1>4. ASSUME NEW x \in docs, x.id = f.id
      PROVE  FALSE
  <2>1. PICK rest : rest = {y \in docs : y.id # f.id}
    OBVIOUS
  <2>2. rest \in SUBSET (docs \ {x}) /\ docs' = rest \cup {d}
    BY <1>2, <1>4, <2>1
  <2>3. IsFiniteSet(docs \ {x}) /\ Cardinality(docs \ {x}) = Cardinality(docs) - 1
    BY <1>3, FS_RemoveElement
  <2>4. IsFiniteSet(rest) /\ Cardinality(rest) <= Cardinality(docs \ {x})
    BY <2>2, <2>3, FS_Subset
  <2>5. Cardinality(docs') = IF d \in rest THEN Cardinality(rest) ELSE Cardinality(rest) + 1
    BY <2>2, <2>4, FS_AddElement
  <2>6. Cardinality(docs) \in Nat /\ Cardinality(docs') \in Nat /\ Cardinality(rest) \in Nat
    BY <1>3, <2>4, FS_CardinalityType
  <2>7. Cardinality(rest) <= Cardinality(docs) - 1
    BY <2>3, <2>4
  <2> QED BY <2>5, <2>6, <2>7
<1> QED BY <1>1, <1>2, <1>3, <1>4 DEF Parse

\* Of an order that is held to the same steps: fewer gaps, more additional.
LEMMA LifecycleGoesOn ==
  ASSUME OrdersInv, NEW old, NEW new, old \subseteq new, IsFiniteSet(new), NEW po, NEW a, NEW b,
         Originals(old, po, a) \subseteq Originals(new, po, b),
         NEW flows, flows = <<>> \/ \E row \in Inputs : flows = row.flows,
         Lifecycle(old, po, a, flows, ours).steps = Lifecycle(new, po, b, flows, ours).steps
  PROVE  /\ \A k \in DOMAIN Lifecycle(old, po, a, flows, ours).gaps :
              Lifecycle(new, po, b, flows, ours).gaps[k] <= Lifecycle(old, po, a, flows, ours).gaps[k]
         /\ Additional(Lifecycle(old, po, a, flows, ours), ours)
              <= Additional(Lifecycle(new, po, b, flows, ours), ours)
<1>1. PICK E, F : E = OnTimeline(old, po, a) /\ F = OnTimeline(new, po, b)
  OBVIOUS
<1>2. E \subseteq F /\ IsFiniteSet(F)
  BY <1>1, TimelineStays, TimelineIsFinite
<1>3. PICK p, q : p = {d.set : d \in E} /\ q = {d.set : d \in F}
  OBVIOUS
<1>4. PICK lc : lc = Lifecycle(old, po, a, flows, ours)
  OBVIOUS
<1>5. PICK nc : nc = Lifecycle(new, po, b, flows, ours)
  OBVIOUS
<1>6. lc.events = E /\ lc.steps = Seed(p, flows) /\ lc.gaps = Gaps(E, ours, Seed(p, flows))
  BY <1>1, <1>3, <1>4 DEF Lifecycle
<1>7. nc.events = F /\ nc.steps = Seed(q, flows) /\ nc.gaps = Gaps(F, ours, Seed(q, flows))
  BY <1>1, <1>3, <1>5 DEF Lifecycle
<1>8. Seed(q, flows) = Seed(p, flows)
  BY <1>4, <1>5, <1>6, <1>7
<1>9. IsFiniteSet(DOMAIN Seed(p, flows))
  BY SeedIsFinite
<1>10. \A k \in DOMAIN lc.gaps : nc.gaps[k] <= lc.gaps[k]
  BY <1>2, <1>6, <1>7, <1>8, <1>9, GapsClose
<1> DEFINE g == [d \in F |-> Kind(d.set, EventDirection(d, ours))]
<1>11. DOMAIN g = F /\ \A d \in F : g[d] = Kind(d.set, EventDirection(d, ours))
  OBVIOUS
<1> HIDE DEF g
<1>12. Cardinality(E) - Cardinality({g[d] : d \in E}) <= Cardinality(F) - Cardinality({g[d] : d \in F})
  BY <1>2, <1>11, AdditionalGrows
<1>13. /\ {g[d] : d \in E} = {Kind(d.set, EventDirection(d, ours)) : d \in E}
       /\ {g[d] : d \in F} = {Kind(d.set, EventDirection(d, ours)) : d \in F}
  BY <1>2, <1>11
<1>14. Additional(lc, ours) <= Additional(nc, ours)
  BY <1>6, <1>7, <1>12, <1>13 DEF Additional
<1> QED BY <1>4, <1>5, <1>10, <1>14

\* What the order of these two anchors is to its reader, before and after.
Completes(new, po, a, b) ==
  /\ {d.id : d \in Originals(docs, po, a)} \subseteq {d.id : d \in Originals(new, po, b)}
  /\ \A flows \in {<<>>} \cup {partner[i].flows : i \in Claimants(Rows, a, ours)} :
       ours # {} /\ Lifecycle(docs, po, a, flows, ours).steps = Lifecycle(new, po, b, flows, ours).steps
         => /\ \A k \in DOMAIN Lifecycle(docs, po, a, flows, ours).gaps :
                 Lifecycle(new, po, b, flows, ours).gaps[k] <= Lifecycle(docs, po, a, flows, ours).gaps[k]
            /\ Additional(Lifecycle(docs, po, a, flows, ours), ours)
                 <= Additional(Lifecycle(new, po, b, flows, ours), ours)

\* THEOREM.  A document more only completes orders: no rejection is taken back,
\* no original leaves the timeline of an order between two parties, no gap opens
\* on one held to the same steps (lifecycle.ts:442-738, rejection.ts:69-113).
THEOREM ArrivalsComplete == OSpec => ArrivalsOnlyComplete
<1>1. ASSUME OrdersInv, ONext, Cardinality(docs') > Cardinality(docs)
      PROVE  /\ \A d \in docs : Rejections(docs, d) # {} =>
                  (Rejections(docs', d) # {} /\ "rejected" \in Statuses(docs', d))
             /\ \A po \in Pos :
               LET parties == {{d.from, d.to} : d \in PoDocs(docs', po)} IN
               Cardinality(parties) = 1 =>
                 \A a \in Anchors(docs, po), b \in Anchors(docs', po) :
                   /\ {d.id : d \in Originals(docs, po, a)} \subseteq {d.id : d \in Originals(docs', po, b)}
                   /\ \A flows \in {<<>>} \cup {partner[i].flows : i \in Claimants(Rows, a, ours)} :
                      LET lc == Lifecycle(docs, po, a, flows, ours)
                          new == Lifecycle(docs', po, b, flows, ours)
                      IN (ours # {} /\ lc.steps = new.steps)
                           => /\ \A k \in DOMAIN lc.gaps : new.gaps[k] <= lc.gaps[k]
                              /\ Additional(lc, ours) <= Additional(new, ours)
  <2>1. docs \subseteq docs' /\ IsFiniteSet(docs')
    BY <1>1, OneMoreStored
  <2>2. \A d \in docs : Rejections(docs, d) # {} =>
          (Rejections(docs', d) # {} /\ "rejected" \in Statuses(docs', d))
    BY <2>1, RejectionStays
  <2>3. ASSUME NEW po \in Pos, Cardinality({{d.from, d.to} : d \in PoDocs(docs', po)}) = 1,
               NEW a \in Anchors(docs, po), NEW b \in Anchors(docs', po)
        PROVE  Completes(docs', po, a, b)
    <3>1. Originals(docs, po, a) \subseteq Originals(docs', po, b)
      BY <2>1, <2>3, OriginalsStay
    <3>2. ASSUME NEW flows \in {<<>>} \cup {partner[i].flows : i \in Claimants(Rows, a, ours)}
          PROVE  flows = <<>> \/ \E row \in Inputs : flows = row.flows
      <4>1. \A i \in Claimants(Rows, a, ours) : partner[i] \in Inputs
        BY <1>1 DEF Claimants, Rows, OrdersInv, PartnersInv
      <4> QED BY <4>1, Zenon
    <3>3. {d.id : d \in Originals(docs, po, a)} \subseteq {d.id : d \in Originals(docs', po, b)}
      BY <3>1
    <3>4. ASSUME NEW flows \in {<<>>} \cup {partner[i].flows : i \in Claimants(Rows, a, ours)},
                 Lifecycle(docs, po, a, flows, ours).steps = Lifecycle(docs', po, b, flows, ours).steps
          PROVE  /\ \A k \in DOMAIN Lifecycle(docs, po, a, flows, ours).gaps :
                      Lifecycle(docs', po, b, flows, ours).gaps[k] <= Lifecycle(docs, po, a, flows, ours).gaps[k]
                 /\ Additional(Lifecycle(docs, po, a, flows, ours), ours)
                      <= Additional(Lifecycle(docs', po, b, flows, ours), ours)
      <4>1. flows = <<>> \/ \E row \in Inputs : flows = row.flows
        BY <3>2
      <4> QED BY <1>1, <2>1, <3>1, <3>4, <4>1, LifecycleGoesOn
    <3> QED BY <3>3, <3>4, Zenon DEF Completes
  <2> QED BY <2>2, <2>3, Zenon DEF Completes
<1>2. OrdersInv /\ [ONext]_orderVars => OrdersInv'
  BY StillOrders
<1> QED BY <1>1, <1>2, InitOrders, PTL DEF OSpec, ArrivalsOnlyComplete
=============================================================================
