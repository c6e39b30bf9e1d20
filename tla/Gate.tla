-------------------------------- MODULE Gate --------------------------------
(***************************************************************************)
(* What a request passes before its handler runs: who sent it, for which   *)
(* tenant, with which role, and whether its budget allows it               *)
(* (apps/api/src/plugins/tenant.ts, services/auth.ts, services/lan-auth.ts,*)
(* plugins/rbac.ts, plugins/rate-limit.ts).                                *)
(*                                                                         *)
(* A tick of the clock refills one unit of every bucket; a token is        *)
(* PerToken units.  The clock of the process never runs backwards here.    *)
(***************************************************************************)
EXTENDS Tenancy, Naturals, FiniteSets, Sequences

CONSTANTS
  Pilot,      \* the tenant of an installation without Clerk
  Users,
  Burst,      \* the tokens a group's bucket holds
  PerToken,   \* per group: ticks that refill one token
  Second,     \* ticks in a second
  MaxKeys,    \* buckets of one group that are kept
  MaxNow,     \* bound: the clock
  MaxRequests \* bound: requests sent

VARIABLES
  mode,     \* "clerk", "lan": desktop with a LAN token, "dev", "bare": neither in production
  standing, \* per tenant of Clerk: "active", "deleted" or "unknown" to the hub
  role,     \* per user and tenant: the role, None for no row
  now,
  buckets,  \* per group and key
  requests, \* under way
  sent      \* requests sent so far, which number them

gateVars == <<mode, standing, role, now, buckets, requests, sent>>

Groups == {"read", "write", "ingest", "webhook"}

\* A bucket holds a token at least, and a token is refilled in finite time
\* (DEFAULT_LIMITS: 10 to 600 tokens a minute).
ASSUME GateAssumption ==
  /\ Pilot \in Tenants
  /\ Second \in Nat \ {0} /\ MaxKeys \in Nat \ {0}
  /\ Burst \in [Groups -> Nat \ {0}] /\ PerToken \in [Groups -> Nat \ {0}]

Lesser(a, b)  == IF a < b THEN a ELSE b
Greater(a, b) == IF a < b THEN b ELSE a
-----------------------------------------------------------------------------
(* The buckets.  passes and due are history: when the bucket let a request *)
(* through, and when the first caller it has turned away since may return. *)

Classify(route) ==
  CASE route.url = "/webhooks/clerk"    -> "webhook"
    [] route.url = "/health"            -> None
    [] route.url = "/api/ingest/upload" -> "ingest"
    [] OTHER -> IF route.method = "GET" THEN "read" ELSE "write"

BucketKey(r) == IF r.tenant # None THEN r.tenant ELSE r.ip

Full(g) == Burst[g] * PerToken[g]

\* Slip: the time of the refill is not written down.
RefilledAgain(b, g) ==
  [b EXCEPT !.tokens = Lesser(Full(g), @ + (now - b.filled)), !.used = now]

Refilled(b, g) ==
  [b EXCEPT !.tokens = Lesser(Full(g), @ + (now - b.filled)), !.filled = now, !.used = now]

Fresh(g) == [tokens |-> Full(g), filled |-> now, used |-> now, passes |-> <<>>, due |-> None]

\* The bucket of i as a request of this moment finds it.
Found(i) == IF i \in DOMAIN buckets THEN Refilled(buckets[i], i[1]) ELSE Fresh(i[1])

\* What a new key pushes out once the group is full: of the buckets used
\* longest ago, the model takes any, the code the first.
Evicted(i) ==
  LET mine == {j \in DOMAIN buckets : j[1] = i[1]}
  IN IF i \in DOMAIN buckets \/ Cardinality(mine) < MaxKeys THEN {None}
     ELSE {j \in mine : \A k \in mine : buckets[j].used <= buckets[k].used}

\* Seconds until the bucket has a token, rounded up, and one at the least.
RetryAfter(b, g) == Greater(1, (PerToken[g] - b.tokens + Second - 1) \div Second)

Allowed(i) == Found(i).tokens >= PerToken[i[1]]

Taken(b, g) ==
  IF b.tokens >= PerToken[g]
  THEN [b EXCEPT !.tokens = @ - PerToken[g], !.passes = Append(@, now), !.due = None]
  ELSE [b EXCEPT !.due = IF @ = None THEN now + RetryAfter(b, g) * Second ELSE @]

TakeToken(i) ==
  \E out \in Evicted(i) :
    buckets' = [j \in (DOMAIN buckets \ {out}) \cup {i} |->
                  IF j = i THEN Taken(Found(i), i[1]) ELSE buckets[j]]
-----------------------------------------------------------------------------
(* Authentication and the context of a request.                            *)

Rank(x) == CASE x = "viewer" -> 0 [] x = "ops" -> 1 [] OTHER -> 2

Public(route) == route.url \in {"/health", "/webhooks/clerk"}

\* A request as it is sent: what waits for it and for which time it is tried,
\* a credential that is good, bad or names no organization, and what it asks.
\* there is history: what the hub had stored.  work is the handler's.
Request(by, tries, who, route, q, there) ==
  [nr |-> sent + 1, by |-> by, tries |-> tries, ip |-> who.ip, cred |-> who.cred,
   org |-> who.org, user |-> who.user, route |-> route, q |-> q, there |-> there,
   stage |-> "sent", tenant |-> None, role |-> None, code |-> None, work |-> None]

Replace(r, x) == requests' = (requests \ {r}) \cup {x}

Refuse(r, code) == Replace(r, [r EXCEPT !.stage = "refused", !.code = code])

\* verifyBearerToken: without a secret key nothing is verified.
Verified(r) ==
  IF mode # "clerk" THEN "dev-fallback"
  ELSE CASE r.cred = "good"  -> "verified"
         [] r.cred = "noorg" -> "no-org"
         [] OTHER            -> "invalid"

\* verifyLanApiToken.
LanTokenHeld(r) == r.cred = "good"

\* Without Clerk: the tenant of the installation, for the holder of the LAN
\* token or, outside of production, for everyone.
Fallback(r) ==
  CASE mode = "bare" -> Refuse(r, 500)
    [] mode = "dev"  -> Replace(r, [r EXCEPT !.stage = "known", !.tenant = Pilot])
    [] mode = "lan"  -> IF LanTokenHeld(r)
                        THEN Replace(r, [r EXCEPT !.stage = "known", !.tenant = Pilot, !.role = "admin"])
                        ELSE Refuse(r, 401)

\* The hook onRequest up to the lookup of the tenant.
OnRequest(r) ==
  /\ r.stage = "sent"
  /\ IF Public(r.route) THEN Replace(r, [r EXCEPT !.stage = "known"])
     ELSE CASE Verified(r) = "dev-fallback" -> Fallback(r)
            [] Verified(r) = "invalid"      -> Refuse(r, 401)
            [] Verified(r) = "no-org"       -> Refuse(r, 403)
            [] Verified(r) = "verified"     -> Replace(r, [r EXCEPT !.stage = "verified"])
  /\ UNCHANGED <<mode, standing, role, now, buckets, sent>>

\* The tenant and the user are looked up under bypass.
LookUp(r) ==
  /\ r.stage = "verified"
  /\ IF standing[r.org] # "active" \/ role[r.user][r.org] = None
     THEN Refuse(r, 403)
     ELSE Replace(r, [r EXCEPT !.stage = "known", !.tenant = r.org, !.role = role[r.user][r.org]])
  /\ UNCHANGED <<mode, standing, role, now, buckets, sent>>

\* The budget's hook: a token, or a refusal.
Spend(r) ==
  LET g == Classify(r.route)  i == <<g, BucketKey(r)>>
      in == [r EXCEPT !.stage = "in"]
  IN \/ g = None /\ Replace(r, in) /\ UNCHANGED buckets
     \/ g # None /\ Allowed(i) /\ Replace(r, in) /\ TakeToken(i)
     \/ g # None /\ ~Allowed(i) /\ Refuse(r, 429) /\ TakeToken(i)

\* The hooks before the handler: the role, the context of the tenant, the
\* budget.  A refusal by role takes no token; without a role (dev) every role
\* is granted.
PreHandler(r) ==
  /\ r.stage = "known"
  /\ IF r.role # None /\ Rank(r.role) < Rank(r.route.requires)
     THEN Refuse(r, 403) /\ UNCHANGED buckets
     ELSE Spend(r)
  /\ UNCHANGED <<mode, standing, role, now, sent>>

\* Slip: the context is entered for the process and not for the request.
TenantOfLast(r) ==
  LET inside == {x \in requests : x.stage = "in" /\ x.tenant # None}
      last == CHOOSE x \in inside : \A y \in inside : y.nr <= x.nr
  IN last.tenant

\* The tenant whose context r's handler runs in.
TenantOf(r) == r.tenant

Tick == /\ now < MaxNow
        /\ now' = now + 1
        /\ UNCHANGED <<mode, standing, role, buckets, requests, sent>>
=============================================================================
