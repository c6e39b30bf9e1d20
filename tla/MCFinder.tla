------------------------------ MODULE MCFinder ------------------------------
(***************************************************************************)
(* Two scenes of Tenancy: requests that look for documents (Finder), and   *)
(* the scripts that remove and rewrite them (Keeping).  In a scene the     *)
(* other one stands still.                                                 *)
(***************************************************************************)
EXTENDS Finder, Keeping, TLC

CONSTANTS o1, o2, u1, u2

\* The clock of Keeping stands at 0 in the scene of Finder.
MCKeeping == day > 0

Doc(id, org, po, inv, ship, isa) ==
  [id |-> id, org |-> org, po |-> po, inv |-> inv, ship |-> ship, isa |-> isa]

MCDocs == {Doc(1, o1, "n1", "n2", "n2", "n1"), Doc(2, o1, "n3", "n1", None, "n9"),
           Doc(3, o1, None, "n2", None, "n9"), Doc(4, o2, "n1", "n2", None, "n2")}
MCInitial == {{}, MCDocs}

MCTexts == {"", "n", "n1", "N1", "n2"}
MCLower == [t \in MCTexts |-> IF t = "N1" THEN "n1" ELSE t]
MCPages == [t \in MCTexts |-> IF t \in {"", "n"} THEN {"metrics"} ELSE {}]

MCBurst    == [g \in Groups |-> IF g = "write" THEN 2 ELSE 1]
MCPerToken == [g \in Groups |-> IF g = "read" THEN 1 ELSE 3]

Route(url, method, requires) == [url |-> url, method |-> method, requires |-> requires]
Other(ip, cred, org, user, route, q) ==
  [ip |-> ip, cred |-> cred, org |-> org, user |-> user, route |-> route, q |-> q]
MCOthers ==
  {Other("ip1", "good", o2, u2, SearchRoute, "n1"),
   Other("ip1", "good", o1, u1, SearchRoute, "n2"),
   Other("ip1", "good", o2, u2, SearchRoute, ""),
   Other("ip1", "bad", o1, u2, SearchRoute, "n1"),
   Other("ip1", "noorg", o1, u2, SearchRoute, "n1"),
   Other("ip1", "good", o1, u1, Route("/api/notes", "POST", "ops"), ""),
   Other("ip1", "good", o1, u2, Route("/api/ingest/upload", "POST", "ops"), ""),
   Other("ip1", "bad", o1, u1, Route("/webhooks/clerk", "POST", "viewer"), ""),
   Other("ip2", "bad", o1, u1, Route("/webhooks/clerk", "POST", "viewer"), ""),
   Other("ip1", "bad", o1, u1, Route("/health", "GET", "viewer"), "")}

\* Either a tab of o1 and what it sends, or other callers, who belong to o2.
MCAlone == role[u2][o2] = None

FinderInit ==
  /\ Init
  /\ \E two \in {"admin", None} :
       role = [u \in Users |-> [t \in Tenants |-> IF u = u1 /\ t = o1 THEN "viewer"
                                                 ELSE IF u = u2 /\ t = o2 THEN two ELSE None]]
  /\ standing[o1] = "active"
  /\ MCAlone => mode = "clerk" /\ standing[o2] = "unknown"
  /\ ~MCAlone => stored = MCDocs
  /\ mode # "clerk" => standing[o2] = "active"
  /\ day = 0 /\ rows = {} /\ bytes = {} /\ tenants = [t \in Tenants |-> None] /\ made = 0

MCDefault == [k \in Kinds |-> 1]
MCPolicies == {None, [RawFile |-> 0, Interchange |-> None, AuditEvent |-> 0, Alert |-> 2]}
MCFile(id, org) ==
  {[id |-> id, model |-> k, org |-> org, born |-> 0, isa |-> IF k = "RawFile" THEN "a" ELSE None,
    archived |-> FALSE] : k \in Kinds}

\* Two days ago both tenants got a file, with all that comes with it.
KeepingInit ==
  /\ Init
  /\ mode = "bare" /\ stored = {} /\ standing = [t \in Tenants |-> "unknown"]
  /\ role = [u \in Users |-> [t \in Tenants |-> None]]
  /\ day = 2 /\ rows = MCFile(1, o1) \cup MCFile(2, o2) /\ bytes = {1, 2} /\ made = 2
  /\ \E policy \in MCPolicies, deleted \in {None, 0} :
       tenants = [t \in Tenants |-> IF t = o1 THEN [policy |-> None, deleted |-> None]
                                    ELSE [policy |-> policy, deleted |-> deleted]]

MCInit ==
  /\ FinderInit \/ KeepingInit
  /\ script = [p \in Scripts |-> None] /\ held = {} /\ runs = 0 /\ errors = 0
  /\ KeepInit
MCNext ==
  \/ MCKeeping /\ KeepNext /\ UNCHANGED vars
  \/ ~MCKeeping /\ UNCHANGED keepVars /\ (HubNext \/ (~MCAlone /\ OthersNext) \/ (MCAlone /\ TabNext))
MCSpec == MCInit /\ [][MCNext]_<<vars, keepVars>>

MCSymmetry == Permutations(Scripts)

\* Bound: what is under way at once, and where time passes; for the scripts, how
\* much happens beside them.
MCConstraint ==
  CASE MCKeeping ->
         (day - 2) + (made - 2) + errors
           + Cardinality({t \in {o1} : tenants[t] # None /\ tenants[t].deleted # None}) <= 1
    [] ~MCKeeping /\ MCAlone -> now = 0 /\ sent <= 2
    [] OTHER ->
         /\ extra = 0 /\ faults = 0
         /\ Cardinality(requests) <= 2
         /\ Cardinality({r \in requests : r.stage # "in"}) <= 1
         /\ sent = 3 \/ now > 0 => \A r \in requests : r.work = None
         /\ mode # "clerk" => now = 0 /\ sent <= 2
=============================================================================
