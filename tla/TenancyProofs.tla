---------------------------- MODULE TenancyProofs ----------------------------
(***************************************************************************)
(* Theorems about Finder and Keeping, the two scenes over Tenancy: for any *)
(* tenants, callers, budgets and documents, and for any scripts, policies  *)
(* and files.                                                              *)
(***************************************************************************)
EXTENDS Finder, Keeping, FiniteSetTheorems, NaturalsInduction,
        WellFoundedInduction, TLAPS

-----------------------------------------------------------------------------
(* The budget.                                                             *)

\* The units of n tokens of group g.
Units(n, g) == n * PerToken[g]

Buckets == [tokens : Nat, filled : Nat, used : Nat, passes : Seq(Nat), due : Nat \cup {None}]

\* What a bucket let through since its m-th pass, with what it holds, is no more
\* than it can hold and what was refilled since.
SpentOK(b, g) ==
  /\ b \in Buckets
  /\ b.tokens <= Full(g) /\ b.filled <= now
  /\ \A m \in DOMAIN b.passes :
       Units(Len(b.passes) - m + 1, g) + b.tokens <= Full(g) + b.filled - b.passes[m]
  /\ \A m, n \in DOMAIN b.passes :
       m <= n => Units(n - m + 1, g) <= Full(g) + b.passes[n] - b.passes[m]

\* Whoever was told to wait will find a token by then.
DueOK(b, g) ==
  b.due = None \/ (b.due \in Nat /\ PerToken[g] <= b.tokens + b.due - b.filled)

BucketOK(b, g) == SpentOK(b, g) /\ DueOK(b, g)

BudgetInv ==
  /\ now \in Nat
  /\ \A i \in DOMAIN buckets : i[1] \in Groups /\ BucketOK(buckets[i], i[1])

LEMMA UnitsAdd ==
  ASSUME NEW g \in Groups, NEW n \in Int
  PROVE  /\ Units(n, g) \in Int /\ Units(n + 1, g) = Units(n, g) + PerToken[g]
         /\ Units(1, g) = PerToken[g]
  BY GateAssumption DEF Units

LEMMA FullHoldsOne ==
  ASSUME NEW g \in Groups
  PROVE  /\ Full(g) \in Nat /\ PerToken[g] \in Nat \ {0} /\ PerToken[g] <= Full(g)
<1>1. PICK b \in Nat \ {0}, t \in Nat \ {0} : Burst[g] = b /\ PerToken[g] = t
  BY GateAssumption
<1>2. b * t \in Nat /\ t <= b * t
  BY <1>1
<1> QED BY <1>1, <1>2 DEF Full

LEMMA Division ==
  ASSUME NEW x \in Int, NEW s \in Nat \ {0}
  PROVE  x \div s \in Int /\ s * (x \div s) > x - s
<1>1. x \div s \in Int
  OBVIOUS
<1>2. s * (x \div s) > x - s
  OBVIOUS
<1> QED BY <1>1, <1>2

\* Rounded up to seconds, the wait is no shorter than what is missing.
LEMMA WaitIsLongEnough ==
  ASSUME NEW g \in Groups, NEW b, b.tokens \in Nat
  PROVE  /\ RetryAfter(b, g) * Second \in Nat
         /\ PerToken[g] <= b.tokens + RetryAfter(b, g) * Second
<1> DEFINE miss == PerToken[g] - b.tokens
           up == (miss + Second - 1) \div Second
<1>1. Second \in Nat \ {0} /\ PerToken[g] \in Nat /\ miss \in Int
  BY FullHoldsOne, GateAssumption
<1>2. up \in Int /\ Second * up > (miss + Second - 1) - Second
  <2>1. PICK x \in Int : x = miss + Second - 1
    BY <1>1
  <2>2. x \div Second \in Int /\ Second * (x \div Second) > x - Second
    BY <1>1, Division
  <2> QED BY <2>1, <2>2
<1>3. RetryAfter(b, g) = IF up < 1 THEN 1 ELSE up
  BY <1>1, <1>2 DEF RetryAfter, Greater
<1> HIDE DEF up
<1>4. Second * up >= miss /\ up * Second = Second * up
  BY <1>1, <1>2
<1>5. CASE up >= 1
  BY <1>1, <1>2, <1>3, <1>4, <1>5
<1>6. CASE up < 1
  <2>1. Second * up <= 0
    BY <1>1, <1>2, <1>6
  <2>2. RetryAfter(b, g) * Second = Second
    BY <1>1, <1>3, <1>6
  <2>3. miss <= 0
    BY <2>1, <1>1, <1>2, <1>4
  <2> QED BY <2>2, <2>3, <1>1
<1> QED BY <1>2, <1>5, <1>6

\* A refill keeps what is said of a bucket.
LEMMA RefillKeeps ==
  ASSUME NEW g \in Groups, NEW b, BucketOK(b, g), now \in Nat
  PROVE  /\ SpentOK(Refilled(b, g), g) /\ Refilled(b, g).filled = now
         /\ Refilled(b, g).tokens >= PerToken[g] \/ DueOK(Refilled(b, g), g)
         /\ b.due # None /\ now >= b.due => Refilled(b, g).tokens >= PerToken[g]
<1> DEFINE r == Refilled(b, g)
<1>1. Full(g) \in Nat /\ PerToken[g] \in Nat \ {0} /\ PerToken[g] <= Full(g)
  BY FullHoldsOne
<1>2. /\ b \in Buckets /\ b.tokens \in Nat /\ b.filled \in Nat /\ b.passes \in Seq(Nat)
      /\ b.tokens <= Full(g) /\ b.filled <= now
  BY DEF BucketOK, SpentOK, Buckets
<1>3. /\ r \in Buckets /\ r.filled = now /\ r.passes = b.passes /\ r.due = b.due
      /\ r.tokens = Lesser(Full(g), b.tokens + (now - b.filled))
  <2>1. Lesser(Full(g), b.tokens + (now - b.filled)) \in Nat
    BY <1>1, <1>2 DEF Lesser
  <2> QED BY <2>1, <1>2 DEF Refilled, Buckets
<1>4. r.tokens \in Nat /\ r.tokens <= Full(g) /\ r.tokens <= b.tokens + (now - b.filled)
  BY <1>1, <1>2, <1>3 DEF Lesser
<1> HIDE DEF r
<1>a. \A u, t, s, w, x, p \in Int : u + t <= w + x - p /\ s <= t + (now - x) => u + s <= w + now - p
  OBVIOUS
<1>b. \A n \in Int : Units(n, g) \in Int
  BY UnitsAdd
<1>5. \A m \in DOMAIN r.passes :
        Units(Len(r.passes) - m + 1, g) + r.tokens <= Full(g) + r.filled - r.passes[m]
  <2> SUFFICES ASSUME NEW m \in DOMAIN b.passes
               PROVE  Units(Len(b.passes) - m + 1, g) + r.tokens <= Full(g) + now - b.passes[m]
    BY <1>3
  <2>1. Units(Len(b.passes) - m + 1, g) + b.tokens <= Full(g) + b.filled - b.passes[m]
    BY DEF BucketOK, SpentOK, DueOK
  <2>2. b.passes[m] \in Nat /\ m \in Int /\ Len(b.passes) \in Int
    BY <1>2
  <2>3. Units(Len(b.passes) - m + 1, g) \in Int
    <3>1. Len(b.passes) - m + 1 \in Int
      BY <2>2
    <3> QED BY <1>b, <3>1
  <2>4. r.tokens \in Int /\ b.tokens \in Int /\ b.filled \in Int /\ Full(g) \in Int /\ b.passes[m] \in Int
    BY <1>1, <1>2, <1>4, <2>2
  <2>5. r.tokens <= b.tokens + (now - b.filled)
    BY <1>4
  <2> QED BY <2>1, <2>3, <2>4, <2>5, <1>a
<1>6. \A m, n \in DOMAIN r.passes :
        m <= n => Units(n - m + 1, g) <= Full(g) + r.passes[n] - r.passes[m]
  BY <1>3 DEF BucketOK, SpentOK
<1>7. b.due # None => /\ b.due \in Nat /\ PerToken[g] <= b.tokens + b.due - b.filled
  BY DEF BucketOK, SpentOK, DueOK
<1>8. r.tokens >= PerToken[g] \/ DueOK(r, g)
  <2> SUFFICES ASSUME b.due # None, ~ (r.tokens >= PerToken[g])
               PROVE  b.due \in Nat /\ PerToken[g] <= r.tokens + b.due - now
    BY <1>3 DEF DueOK
  <2>1. b.due \in Nat /\ PerToken[g] <= b.tokens + b.due - b.filled
    BY <1>7
  <2>2. r.tokens = b.tokens + (now - b.filled)
    BY <1>1, <1>2, <1>3 DEF Lesser
  <2>3. PerToken[g] \in Int /\ b.due \in Int /\ b.tokens \in Int /\ b.filled \in Int
    BY <1>1, <1>2, <2>1
  <2>4. \A p, t, s, e, x \in Int : p <= t + e - x /\ s = t + (now - x) => p <= s + e - now
    OBVIOUS
  <2> QED BY <2>1, <2>2, <2>3, <2>4, <1>4
<1>9. b.due # None /\ now >= b.due => r.tokens >= PerToken[g]
  BY <1>1, <1>2, <1>3, <1>7 DEF Lesser
<1>10. SpentOK(r, g)
  BY <1>3, <1>4, <1>5, <1>6 DEF SpentOK
<1> QED BY <1>3, <1>8, <1>9, <1>10 DEF r

LEMMA FreshIsFull ==
  ASSUME NEW g \in Groups, now \in Nat
  PROVE  /\ BucketOK(Fresh(g), g) /\ Fresh(g).filled = now /\ Fresh(g).tokens >= PerToken[g]
BY FullHoldsOne DEF BucketOK, SpentOK, DueOK, Fresh, Buckets

\* So does the pass, or the refusal, that comes with it.
LEMMA TakeKeeps ==
  ASSUME NEW g \in Groups, NEW b, SpentOK(b, g), b.tokens >= PerToken[g] \/ DueOK(b, g), b.filled = now, now \in Nat
  PROVE  BucketOK(Taken(b, g), g)
<1>1. Full(g) \in Nat /\ PerToken[g] \in Nat \ {0} /\ PerToken[g] <= Full(g)
  BY FullHoldsOne
<1>2. /\ b \in Buckets /\ b.tokens \in Nat /\ b.passes \in Seq(Nat) /\ Len(b.passes) \in Nat
      /\ b.tokens <= Full(g)
  BY DEF SpentOK, Buckets
<1>3. CASE b.tokens >= PerToken[g]
  <2> DEFINE t == Taken(b, g)
             len == Len(b.passes)
  <2>1. /\ t \in Buckets /\ t.tokens = b.tokens - PerToken[g] /\ t.filled = now /\ t.due = None
        /\ t.passes = Append(b.passes, now)
    <3>1. b.tokens - PerToken[g] \in Nat /\ Append(b.passes, now) \in Seq(Nat)
      BY <1>1, <1>2, <1>3
    <3> QED BY <3>1, <1>2, <1>3 DEF Taken, Buckets
  <2> HIDE DEF t
  <2>2. /\ Len(t.passes) = len + 1 /\ t.passes[len + 1] = now
        /\ \A m \in DOMAIN t.passes : m \in 1..(len + 1)
        /\ \A m \in 1..len : m \in DOMAIN b.passes /\ t.passes[m] = b.passes[m] /\ b.passes[m] \in Nat
    BY <1>2, <2>1
  <2>3. Units(1, g) = PerToken[g]
    BY UnitsAdd
  <2>4. \A m \in DOMAIN t.passes :
          Units(Len(t.passes) - m + 1, g) + t.tokens <= Full(g) + t.filled - t.passes[m]
    <3> SUFFICES ASSUME NEW m \in 1..(len + 1)
                 PROVE  Units(len + 1 - m + 1, g) + t.tokens <= Full(g) + now - t.passes[m]
      BY <2>1, <2>2
    <3>1. CASE m = len + 1
      <4>1. Units(len + 1 - m + 1, g) = PerToken[g]
        BY <1>2, <2>3, <3>1
      <4> QED BY <4>1, <3>1, <1>1, <1>2, <2>1, <2>2
    <3>2. CASE m \in 1..len
      <4>1. Units(len - m + 1, g) + b.tokens <= Full(g) + now - b.passes[m]
        BY <2>2, <3>2 DEF SpentOK
      <4>2. len - m + 1 \in Int /\ len + 1 - m + 1 = (len - m + 1) + 1
        BY <1>2
      <4>3. Units(len - m + 1, g) \in Int /\ Units(len + 1 - m + 1, g) = Units(len - m + 1, g) + PerToken[g]
        BY <4>2, UnitsAdd
      <4>4. b.passes[m] \in Nat /\ t.passes[m] = b.passes[m]
        BY <2>2, <3>2
      <4>5. \A u, v, a, p, w, x \in Int : u + a <= w + now - x /\ v = u + p => v + (a - p) <= w + now - x
        OBVIOUS
      <4>6. /\ b.tokens \in Int /\ PerToken[g] \in Int /\ Full(g) \in Int /\ b.passes[m] \in Int
            /\ Units(len + 1 - m + 1, g) \in Int
        BY <4>3, <4>4, <1>1, <1>2
      <4> QED BY <4>1, <4>3, <4>4, <4>5, <4>6, <2>1
    <3> QED BY <3>1, <3>2, <1>2
  <2>5. \A m, n \in DOMAIN t.passes :
          m <= n => Units(n - m + 1, g) <= Full(g) + t.passes[n] - t.passes[m]
    <3> SUFFICES ASSUME NEW m \in 1..(len + 1), NEW n \in 1..(len + 1), m <= n
                 PROVE  Units(n - m + 1, g) <= Full(g) + t.passes[n] - t.passes[m]
      BY <2>2
    <3>1. CASE n \in 1..len
      <4>1. m \in 1..len
        BY <1>2, <3>1
      <4>2. Units(n - m + 1, g) <= Full(g) + b.passes[n] - b.passes[m]
        BY <2>2, <3>1, <4>1 DEF SpentOK
      <4> QED BY <4>1, <4>2, <3>1, <2>2
    <3>2. CASE n = len + 1
      <4>1. Units(len + 1 - m + 1, g) + t.tokens <= Full(g) + now - t.passes[m]
        BY <2>1, <2>2, <2>4, m \in DOMAIN t.passes
      <4>2. t.tokens \in Nat /\ t.passes[m] \in Int /\ len + 1 - m + 1 \in Int
        BY <1>2, <2>1, <2>2 DEF Buckets
      <4>3. Units(len + 1 - m + 1, g) \in Int
        BY <4>2, UnitsAdd
      <4>4. \A u, a, w, x \in Int : u + a <= w + now - x /\ a >= 0 => u <= w + now - x
        OBVIOUS
      <4>5. t.tokens \in Int /\ t.tokens >= 0 /\ Full(g) \in Int
        BY <4>2, <1>1
      <4>6. Units(len + 1 - m + 1, g) <= Full(g) + now - t.passes[m]
        BY <4>1, <4>2, <4>3, <4>4, <4>5
      <4> QED BY <4>6, <3>2, <2>2
    <3> QED BY <3>1, <3>2, <1>2
  <2>6. t.tokens <= Full(g) /\ t.filled <= now
    BY <1>1, <1>2, <2>1
  <2> QED BY <2>1, <2>4, <2>5, <2>6 DEF BucketOK, SpentOK, DueOK, t
<1>4. CASE ~ (b.tokens >= PerToken[g])
  <2> DEFINE wait == RetryAfter(b, g) * Second
             t == Taken(b, g)
  <2>1. wait \in Nat /\ PerToken[g] <= b.tokens + wait
    BY <1>2, WaitIsLongEnough
  <2> HIDE DEF wait
  <2>2. b.due \in Nat \cup {None}
    BY <1>2 DEF Buckets
  <2>3. t = [b EXCEPT !.due = IF b.due = None THEN now + wait ELSE b.due]
    BY <1>2, <1>4 DEF Taken, wait, Buckets
  <2>4. /\ t \in Buckets /\ t.tokens = b.tokens /\ t.filled = b.filled /\ t.passes = b.passes
        /\ t.due = IF b.due = None THEN now + wait ELSE b.due
    BY <1>2, <2>1, <2>2, <2>3 DEF Buckets
  <2> HIDE DEF t
  <2>5. t.due = None \/ (t.due \in Nat /\ PerToken[g] <= t.tokens + t.due - t.filled)
    <3>1. CASE b.due = None
      <4>1. t.due = now + wait /\ t.due \in Nat /\ t.tokens + t.due - t.filled = b.tokens + wait
        BY <1>2, <2>1, <2>4, <3>1
      <4> QED BY <2>1, <4>1
    <3>2. CASE b.due # None
      BY <1>4, <2>4, <3>2 DEF DueOK
    <3> QED BY <3>1, <3>2
  <2>6. SpentOK(t, g)
    BY <2>4 DEF SpentOK
  <2>7. DueOK(t, g)
    BY <2>5 DEF DueOK
  <2> QED BY <2>6, <2>7 DEF BucketOK, t
<1> QED BY <1>3, <1>4

LEMMA TokensAreTakenWell ==
  ASSUME BudgetInv, NEW i, i[1] \in Groups, TakeToken(i), now' = now
  PROVE  BudgetInv'
<1>1. now \in Nat /\ \A j \in DOMAIN buckets : j[1] \in Groups /\ BucketOK(buckets[j], j[1])
  BY DEF BudgetInv
<1>2. /\ SpentOK(Found(i), i[1]) /\ Found(i).filled = now
      /\ Found(i).tokens >= PerToken[i[1]] \/ DueOK(Found(i), i[1])
  BY <1>1, RefillKeeps, FreshIsFull DEF Found, BucketOK
<1>3. BucketOK(Taken(Found(i), i[1]), i[1])
  BY <1>1, <1>2, TakeKeeps
<1>4. PICK out \in Evicted(i) :
        buckets' = [j \in (DOMAIN buckets \ {out}) \cup {i} |->
                      IF j = i THEN Taken(Found(i), i[1]) ELSE buckets[j]]
  BY DEF TakeToken
<1>5. \A j \in DOMAIN buckets' : j[1] \in Groups /\ BucketOK(buckets'[j], j[1])
  BY <1>1, <1>3, <1>4
<1>6. \A b, g : BucketOK(b, g) => BucketOK(b, g)'
  BY now' = now DEF BucketOK, SpentOK, DueOK
<1> QED BY <1>1, <1>5, <1>6 DEF BudgetInv

\* The time that passes makes no bucket worse.
LEMMA TimeIsGood ==
  ASSUME BudgetInv, Tick
  PROVE  BudgetInv'
<1>1. now \in Nat /\ now' = now + 1 /\ buckets' = buckets
  BY DEF BudgetInv, Tick
<1>2. \A b, g : BucketOK(b, g) => BucketOK(b, g)'
  BY <1>1 DEF BucketOK, SpentOK, DueOK, Buckets
<1> QED BY <1>1, <1>2 DEF BudgetInv

LEMMA BudgetInit == Init => BudgetInv
BY DEF Init, BudgetInv

LEMMA ClassifyIsAGroup ==
  ASSUME NEW route, Classify(route) # None
  PROVE  Classify(route) \in Groups
BY DEF Classify, Groups

\* What fails of looking up a shipment counts as what was found of it.
LEMMA PassesOverIs ==
  ASSUME NEW r, PassesOver(r)
  PROVE  /\ Searching(r) /\ r.work # None
         /\ \/ r.work.step = "rows" /\ Work(r, ReadInto(r.work, "shipment", {}))
            \/ /\ r.work.step = "shipment"
               /\ \E po : Work(r, [r.work EXCEPT !.step = "invoices", !.left = {po}])
BY Zenon DEF PassesOver

LEMMA BudgetStep == BudgetInv /\ [Next]_vars => BudgetInv'
<1> SUFFICES ASSUME BudgetInv, [Next]_vars
             PROVE  BudgetInv'
  OBVIOUS
<1>1. ASSUME UNCHANGED <<now, buckets>>
      PROVE  BudgetInv'
  BY <1>1 DEF BudgetInv, BucketOK, SpentOK, DueOK
<1>2. CASE UNCHANGED vars
  BY <1>1, <1>2 DEF vars, gateVars
<1>3. ASSUME NEW r, PreHandler(r)
      PROVE  BudgetInv'
  <2>1. CASE UNCHANGED buckets
    BY <1>1, <1>3, <2>1 DEF PreHandler
  <2>2. CASE ~ UNCHANGED buckets
    <3> DEFINE i == <<Classify(r.route), BucketKey(r)>>
    <3>1. Classify(r.route) # None /\ TakeToken(i) /\ now' = now
      BY <1>3, <2>2 DEF PreHandler, Spend
    <3>2. i[1] \in Groups
      BY <3>1, ClassifyIsAGroup
    <3> HIDE DEF i
    <3> QED BY <3>1, <3>2, TokensAreTakenWell
  <2> QED BY <2>1, <2>2
<1>4. ASSUME NEW r \in requests, OnRequest(r) \/ LookUp(r)
      PROVE  BudgetInv'
  BY <1>1, <1>4 DEF OnRequest, LookUp
<1>5. ASSUME NEW r \in requests, Handler(r)
      PROVE  BudgetInv'
  <2>1. ASSUME NEW w, Work(r, w)
        PROVE  BudgetInv'
    BY <1>1, <2>1 DEF Work
  <2>2. CASE SearchOrder(r)
    BY <1>1, <2>1, <2>2 DEF SearchOrder
  <2>3. ASSUME NEW what \in Reads, ReadRows(r, what)
        PROVE  BudgetInv'
    <3>1. what \in {"po", "invoice", "shipment", "raw"}
      BY DEF Reads
    <3> QED BY <2>1, <2>3, <3>1 DEF ReadRows
  <2>4. CASE SearchShipment(r) \/ SearchInvoice(r) \/ SearchAgain(r)
    BY <1>1, <2>1, <2>4 DEF SearchShipment, SearchInvoice, SearchAgain
  <2>5. CASE PassesOver(r)
    <3>1. \E w : Work(r, w)
      BY <2>5, PassesOverIs, Zenon
    <3> QED BY <2>1, <3>1
  <2> QED BY <1>5, <2>2, <2>3, <2>4, <2>5 DEF Handler, SearchStep
<1>6. CASE OthersNext
  BY <1>1, <1>6 DEF OthersNext, OtherSends, ServerSame
<1>7. CASE HubNext
  <2>1. ASSUME NEW r \in requests, OtherDone(r) \/ Fails(r)
        PROVE  BudgetInv'
    BY <1>1, <2>1 DEF OtherDone, Fails, ServerSame
  <2>2. ASSUME NEW d \in Docs, Store(d)
        PROVE  BudgetInv'
    BY <1>1, <2>2 DEF Store, gateVars
  <2> QED BY <1>3, <1>4, <1>5, <1>7, <2>1, <2>2, TimeIsGood DEF HubNext, Server
<1>8. CASE TabNext
  <2>1. ASSUME NEW r \in requests, Land(r) \/ LandFailure(r)
        PROVE  BudgetInv'
    BY <1>1, <2>1 DEF Land, LandFailure, ServerSame
  <2>2. CASE Toggle \/ Debounce \/ Retry
    BY <1>1, <2>2 DEF Toggle, Debounce, Retry, Observe, ServerSame, gateVars
  <2>3. ASSUME NEW t \in Texts, TypeText(t) \/ Submit(t)
        PROVE  BudgetInv'
    BY <1>1, <2>3 DEF TypeText, Submit, Observe, ServerSame, gateVars
  <2>4. ASSUME NEW item \in Items, Activate(item)
        PROVE  BudgetInv'
    BY <1>1, <2>4 DEF Activate, gateVars
  <2>5. ASSUME NEW k \in DOMAIN cache, Age(k)
        PROVE  BudgetInv'
    BY <1>1, <2>5 DEF Age, gateVars
  <2> QED BY <1>8, <2>1, <2>2, <2>3, <2>4, <2>5 DEF TabNext
<1> QED BY <1>2, <1>6, <1>7, <1>8 DEF Next

LEMMA BudgetInvKeeps == BudgetInv => BudgetKept
<1> SUFFICES ASSUME BudgetInv, NEW i \in DOMAIN buckets
             PROVE  LET b == buckets[i]
                    IN /\ \A m, n \in DOMAIN b.passes :
                            m <= n => (n - m + 1) * PerToken[i[1]] <= Full(i[1]) + b.passes[n] - b.passes[m]
                       /\ b.due # None /\ now >= b.due => Allowed(i)
  BY DEF BudgetKept
<1>1. now \in Nat /\ i[1] \in Groups /\ BucketOK(buckets[i], i[1])
  BY DEF BudgetInv
<1>2. \A m, n \in DOMAIN buckets[i].passes :
        m <= n => (n - m + 1) * PerToken[i[1]] <= Full(i[1]) + buckets[i].passes[n] - buckets[i].passes[m]
  BY <1>1 DEF BucketOK, SpentOK, Units
<1>3. buckets[i].due # None /\ now >= buckets[i].due => Allowed(i)
  BY <1>1, RefillKeeps DEF Allowed, Found
<1> QED BY <1>2, <1>3

\* In no stretch of time does a bucket let through more than it holds and what is
\* refilled meanwhile, and a caller that waits as long as it was told finds a token
\* unless another took it: for any budgets, callers and number of buckets
\* (plugins/rate-limit.ts:78-124).
THEOREM BudgetsAreKept == Spec => []BudgetKept
<1>1. Spec => []BudgetInv
  BY BudgetInit, BudgetStep, PTL DEF Spec
<1> QED BY <1>1, BudgetInvKeeps, PTL
-----------------------------------------------------------------------------
(* What the scripts keep.                                                  *)

\* Rows name tenants that are there; a file has its id alone, its tree its tenant,
\* and, once archived, no bytes but those a pass failed to delete.
RowsOK ==
  /\ day \in Nat /\ made \in Nat
  /\ rows \subseteq StoredRows(day, made)
  /\ bytes \subseteq 1..made
  /\ tenants \in [Tenants -> TenantRows \cup {None}]
  /\ \A x \in rows : tenants[x.org] # None
  /\ \A f \in Table("RawFile") :
       /\ f.id # None
       /\ f.archived /\ f.id \in bytes => f.id \in held
       /\ \A g \in Table("RawFile") : g.id = f.id => g = f
       /\ \A g \in Table("Interchange") : g.id = f.id => g.org = f.org

InPass == {"list", "object", "flip", "Interchange", "AuditEvent", "Alert", "report"}

Policies == UNION {[T -> Policy] : T \in SUBSET Tenants}

Running ==
  [job : {"retention", "purge", "attach", "backfill"},
   at : InPass \cup {"tenants", "due", "sweep", "delete", "files", "store"},
   now : Nat, policy : Policies, todo : SUBSET Tenants, org : Tenants \cup {None},
   left : SUBSET Nat, id : Nat \cup {None}, table : Nat \ {0}]

\* The pass of s finds x past its time.
Stale(s, x) ==
  /\ x.org = s.org
  /\ s.policy[s.org][x.model] # 0 /\ x.born + s.policy[s.org][x.model] < s.now

Gone(t, today) == tenants[t] = None \/ Due(t, today)

\* The files that a pass has listed are past their time.
ListedOK(s, ids) == \A f \in Table("RawFile") : f.id \in ids => Stale(s, f)

\* Of the others that are, the bytes have gone, or could not be deleted.
BytesOK(s, ids) ==
  \A f \in Table("RawFile") : Stale(s, f) /\ f.id \in bytes => f.id \in held \cup ids

NoneStale(s, k) == \A x \in Table(k) : ~ Stale(s, x)

RetentionOK(s) ==
  /\ s.at \in InPass \cup {"tenants", "due", "sweep"}
  /\ s.at \in InPass \cup {"tenants"} => s.todo \subseteq DOMAIN s.policy
  /\ s.at \in InPass => s.org \in DOMAIN s.policy
  /\ s.at = "object" => ListedOK(s, s.left) /\ BytesOK(s, s.left)
  /\ s.at = "flip" => /\ ListedOK(s, s.left \cup {s.id}) /\ BytesOK(s, s.left)
                     /\ (s.id \in bytes => s.id \in held)
  /\ s.at \in {"Interchange", "AuditEvent", "Alert", "report"} => BytesOK(s, {})
  /\ s.at \in {"AuditEvent", "Alert", "report"} => NoneStale(s, "Interchange")
  /\ s.at \in {"Alert", "report"} => NoneStale(s, "AuditEvent")
  /\ s.at = "report" => NoneStale(s, "Alert")
  /\ s.at \in {"due", "sweep"} => \A t \in s.todo : Gone(t, s.now)
  /\ s.at = "sweep" => s.org \in Tenants /\ Gone(s.org, s.now)

ScriptOK(s) ==
  /\ s \in Running /\ s.now <= day /\ s.left \subseteq 1..made /\ s.id \in 1..made \cup {None}
  /\ s.job = "retention" => RetentionOK(s)
  /\ s.job = "purge"     => s.at = "delete"
  /\ s.job = "attach"    => s.at = "sweep" /\ s.org \in Tenants \ {PilotTenant}
  /\ s.job = "backfill"  => /\ s.at \in {"files", "store"}
                           /\ \A f \in Table("RawFile") : f.id \in s.left \cup {s.id} => f.org = PilotTenant

ScriptsOK == /\ DOMAIN script = Scripts
             /\ \A p \in Scripts : script[p] # None => ScriptOK(script[p])

KeepInv == RowsOK /\ ScriptsOK

\* What a step may do behind the back of a script: rows go, or keep what the script
\* judged them by; what is new is not past anybody's time and no listed file.
Same(x, y) == x.id = y.id /\ x.model = y.model /\ x.org = y.org /\ x.born = y.born

NewRow(y) == y.born >= day /\ (y.model = "RawFile" => y.id \notin 1..made)

Evolves ==
  /\ day' \in Nat /\ day <= day' /\ made' \in Nat /\ made <= made'
  /\ \A y \in rows' : NewRow(y) \/ \E x \in rows : Same(x, y)
  /\ bytes' \cap 1..made \subseteq bytes /\ held \subseteq held'
  /\ \A t \in Tenants, n \in Nat : Gone(t, n) => Gone(t, n)'

LEMMA PolicyType ==
  ASSUME NEW s \in Running, s.org \in DOMAIN s.policy
  PROVE  s.org \in Tenants /\ s.policy[s.org] \in Policy
<1>1. PICK T \in SUBSET Tenants : s.policy \in [T -> Policy]
  BY DEF Running, Policies
<1> QED BY <1>1

LEMMA PastIsStale ==
  ASSUME NEW s, NEW k \in Kinds
  PROVE  Past(s, k) = {x \in Table(k) : Stale(s, x)}
<1>1. k \notin TenantExemptModels
  BY DEF TenantExemptModels, Kinds
<1>2. Reached(Run(s.org), k, None, Table(k)) = {x \in Table(k) : x.org = s.org}
  BY <1>1 DEF Reached, Run, Asked
<1>3. \A x \in Table(k) : x.model = k
  BY DEF Table
<1> QED BY <1>2, <1>3 DEF Past, Days, Aged, Stale

\* What is new is past no running pass's time.
LEMMA NewIsNotStale ==
  ASSUME NEW s \in Running, s.org \in DOMAIN s.policy, NEW y, y.born \in Nat, y.model \in Kinds,
         s.now <= y.born
  PROVE  ~ Stale(s, y)
<1>1. s.policy[s.org][y.model] \in Nat /\ s.now \in Nat
  BY PolicyType DEF Policy, Running
<1> QED BY <1>1 DEF Stale

LEMMA SameIsAsStale ==
  ASSUME NEW s, NEW x, NEW y, Same(x, y)
  PROVE  Stale(s, x) <=> Stale(s, y)
BY DEF Same, Stale

\* So a script that does not move stays right.
LEMMA ScriptStays ==
  ASSUME RowsOK, RowsOK', Evolves, NEW s, ScriptOK(s)
  PROVE  ScriptOK(s)'
<1>1. /\ s \in Running /\ s.now \in Nat /\ s.now <= day /\ s.left \subseteq 1..made /\ s.id \in 1..made \cup {None}
      /\ day \in Nat /\ made \in Nat /\ None \notin 1..made
  BY KeepingAssumption DEF ScriptOK, RowsOK, Running
<1>2. /\ day' \in Nat /\ day <= day' /\ made' \in Nat /\ made <= made'
      /\ bytes' \cap 1..made \subseteq bytes /\ held \subseteq held'
  BY DEF Evolves
<1>3. \A y \in rows' : y.born \in Nat /\ y.model \in Kinds
  BY DEF RowsOK, StoredRows
<1>4. ASSUME NEW k \in Kinds, NEW y \in Table(k)', s.org \in DOMAIN s.policy, Stale(s, y)
      PROVE  \E x \in Table(k) : Same(x, y) /\ Stale(s, x)
  <2>1. y \in rows' /\ y.model = k
    BY <1>4 DEF Table
  <2>2. ~ (y.born >= day)
    BY <1>1, <1>3, <1>4, <2>1, NewIsNotStale
  <2>3. PICK x \in rows : Same(x, y)
    BY <2>1, <2>2 DEF Evolves, NewRow
  <2> QED BY <1>4, <2>1, <2>3, SameIsAsStale DEF Table, Same
<1>5. ASSUME NEW y \in Table("RawFile")', y.id \in 1..made
      PROVE  \E x \in Table("RawFile") : Same(x, y)
  BY <1>5 DEF Evolves, NewRow, Table, Same
<1>6. \A y \in Table("RawFile")' : y.id # None
  BY DEF RowsOK
<1>7. ASSUME NEW ids \in SUBSET (1..made \cup {None}), ListedOK(s, ids)
      PROVE  ListedOK(s, ids)'
  BY <1>5, <1>6, <1>7, SameIsAsStale DEF ListedOK, Same
<1>8. ASSUME NEW ids, BytesOK(s, ids), s.org \in DOMAIN s.policy
      PROVE  BytesOK(s, ids)'
  <2> SUFFICES ASSUME NEW y \in Table("RawFile")', Stale(s, y), y.id \in bytes'
               PROVE  y.id \in held' \cup ids
    BY DEF BytesOK
  <2>1. PICK x \in Table("RawFile") : Same(x, y) /\ Stale(s, x)
    BY <1>4, <1>8 DEF Kinds
  <2>2. x.id = y.id /\ x.id \in 1..made
    BY <2>1 DEF Same, RowsOK, StoredRows, Table
  <2>3. x.id \in bytes
    BY <1>2, <2>2
  <2> QED BY <1>2, <1>8, <2>1, <2>2, <2>3 DEF BytesOK
<1>9. ASSUME NEW k \in Kinds, NoneStale(s, k), s.org \in DOMAIN s.policy
      PROVE  NoneStale(s, k)'
  BY <1>4, <1>9 DEF NoneStale
<1>10. s.left \subseteq 1..made' /\ s.id \in 1..made' \cup {None} /\ s.now <= day'
  BY <1>1, <1>2
<1>11. ASSUME s.job = "retention"
       PROVE  RetentionOK(s)'
  <2>1. RetentionOK(s)
    BY <1>11 DEF ScriptOK
  <2>2. s.at \in InPass => s.org \in DOMAIN s.policy
    BY <2>1 DEF RetentionOK
  <2>3. s.at = "object" => ListedOK(s, s.left)' /\ BytesOK(s, s.left)'
    BY <1>1, <1>7, <1>8, <2>1, <2>2 DEF RetentionOK, InPass
  <2>4. s.at = "flip" => /\ ListedOK(s, s.left \cup {s.id})' /\ BytesOK(s, s.left)'
                       /\ (s.id \in bytes' => s.id \in held')
    <3> SUFFICES ASSUME s.at = "flip"
                 PROVE  /\ ListedOK(s, s.left \cup {s.id})' /\ BytesOK(s, s.left)'
                        /\ (s.id \in bytes' => s.id \in held')
      OBVIOUS
    <3>1. /\ ListedOK(s, s.left \cup {s.id}) /\ BytesOK(s, s.left)
          /\ (s.id \in bytes => s.id \in held)
      BY <2>1 DEF RetentionOK
    <3>2. ListedOK(s, s.left \cup {s.id})'
      BY <1>1, <1>7, <3>1
    <3>3. BytesOK(s, s.left)'
      BY <1>8, <2>2, <3>1 DEF InPass
    <3>4. s.id \in bytes' => s.id \in held'
      <4>1. bytes' \subseteq 1..made' /\ None \notin 1..made'
        BY <1>2, KeepingAssumption DEF RowsOK
      <4> QED BY <1>1, <1>2, <3>1, <4>1
    <3> QED BY <3>2, <3>3, <3>4
  <2>5. s.at \in {"Interchange", "AuditEvent", "Alert", "report"} => BytesOK(s, {})'
    BY <1>8, <2>1, <2>2 DEF RetentionOK, InPass
  <2>6. /\ s.at \in {"AuditEvent", "Alert", "report"} => NoneStale(s, "Interchange")'
        /\ s.at \in {"Alert", "report"} => NoneStale(s, "AuditEvent")'
        /\ s.at = "report" => NoneStale(s, "Alert")'
    BY <1>9, <2>1, <2>2 DEF RetentionOK, InPass, Kinds
  <2>7. s.todo \subseteq Tenants
    BY <1>1 DEF Running
  <2>8. /\ s.at \in {"due", "sweep"} => \A t \in s.todo : Gone(t, s.now)'
        /\ s.at = "sweep" => s.org \in Tenants /\ Gone(s.org, s.now)'
    BY <1>1, <2>1, <2>7 DEF RetentionOK, Evolves
  <2> QED BY <2>1, <2>3, <2>4, <2>5, <2>6, <2>8 DEF RetentionOK
<1>12. ASSUME s.job = "backfill"
       PROVE  \A f \in Table("RawFile")' : f.id \in s.left \cup {s.id} => f.org = PilotTenant
  <2>1. \A f \in Table("RawFile") : f.id \in s.left \cup {s.id} => f.org = PilotTenant
    BY <1>12 DEF ScriptOK
  <2> QED BY <1>1, <1>5, <1>6, <2>1 DEF Same
<1> QED BY <1>1, <1>10, <1>11, <1>12 DEF ScriptOK

\* Rows only go.
LEMMA RowsThin ==
  ASSUME RowsOK, rows' \subseteq rows, UNCHANGED <<bytes, tenants, held, made>>,
         day' \in Nat, day <= day'
  PROVE  RowsOK' /\ Evolves
<1>1. Table("RawFile")' \subseteq Table("RawFile") /\ Table("Interchange")' \subseteq Table("Interchange")
  BY DEF Table
<1>2. RowsOK'
  <2>1. StoredRows(day, made) \subseteq StoredRows(day', made)
    BY DEF RowsOK, StoredRows
  <2>2. rows' \subseteq StoredRows(day, made)'
    BY <2>1 DEF RowsOK, StoredRows
  <2> QED BY <1>1, <2>2 DEF RowsOK
<1>3. \A y \in rows' : \E x \in rows : Same(x, y)
  BY DEF Same
<1>4. Evolves
  BY <1>3 DEF Evolves, RowsOK, Gone, Due
<1> QED BY <1>2, <1>4

Marked(x, b) == [x EXCEPT !.archived = b]

\* The file with id i is marked, and gets a new tree or keeps its own.
Rewrites(i, b, file, gone, told, trees) ==
  /\ b \in BOOLEAN /\ file = {x \in Table("RawFile") : x.id = i} /\ file \subseteq gone
  /\ told = {Marked(x, b) : x \in file}
  /\ \A y \in trees : \E x \in file : y = Row(x.id, "Interchange", x.org, None)
  /\ \A x \in file : b /\ x.id \in bytes => x.id \in held
  /\ rows' = (rows \ gone) \cup told \cup trees
  /\ UNCHANGED <<day, bytes, tenants, held, made>>

LEMMA FilesRewritten ==
  ASSUME RowsOK, NEW i, NEW b, NEW file, NEW gone, NEW told, NEW trees,
         Rewrites(i, b, file, gone, told, trees)
  PROVE  RowsOK' /\ Evolves
<1>0. /\ b \in BOOLEAN /\ file = {x \in Table("RawFile") : x.id = i} /\ file \subseteq gone
      /\ \A y \in told : \E x \in file : y = Marked(x, b)
      /\ \A y \in trees : \E x \in file : y = Row(x.id, "Interchange", x.org, None)
      /\ \A x \in file : b /\ x.id \in bytes => x.id \in held
      /\ rows' = (rows \ gone) \cup told \cup trees
      /\ UNCHANGED <<day, bytes, tenants, held, made>>
  BY DEF Rewrites
<1>1. /\ day \in Nat /\ made \in Nat /\ rows \subseteq StoredRows(day, made)
      /\ \A f \in Table("RawFile") :
           /\ f.id # None
           /\ f.archived /\ f.id \in bytes => f.id \in held
           /\ \A g \in Table("RawFile") : g.id = f.id => g = f
           /\ \A g \in Table("Interchange") : g.id = f.id => g.org = f.org
  BY DEF RowsOK
<1>2. \A x \in file : x \in rows /\ x.model = "RawFile" /\ x \in StoredRows(day, made) /\ x \in Table("RawFile") /\ x.id = i
  BY <1>0, <1>1 DEF Table
<1>3. ASSUME NEW x \in file
      PROVE  /\ Marked(x, b) \in StoredRows(day, made) /\ Same(x, Marked(x, b)) /\ Marked(x, b).archived = b
  BY <1>0, <1>2, <1>3 DEF StoredRows, Same, Marked
<1>4. ASSUME NEW y \in told
      PROVE  \E x \in file : y \in StoredRows(day, made) /\ Same(x, y) /\ y.archived = b
  <2>1. PICK x \in file : y = Marked(x, b)
    BY <1>0, <1>4
  <2> QED BY <1>0, <1>3, <2>1
<1>5. ASSUME NEW y \in trees
      PROVE  \E x \in file : /\ y \in StoredRows(day, made) /\ y.model = "Interchange" /\ y.born = day
                             /\ y.id = x.id /\ y.org = x.org
  <2>1. PICK x \in file : y = Row(x.id, "Interchange", x.org, None)
    BY <1>0, <1>5
  <2>2. x.id \in 1..made \cup {None} /\ x.org \in Tenants
    BY <1>0, <1>2 DEF StoredRows
  <2> QED BY <2>1, <2>2, <1>1 DEF Row, StoredRows, Kinds
<1>6. \A y \in rows' : y \in rows \ gone \/ y \in told \/ y \in trees
  BY <1>0
<1>7. ASSUME NEW f \in Table("RawFile")'
      PROVE  (f \in Table("RawFile") /\ f \notin file) \/ f \in told
  BY <1>0, <1>5, <1>6 DEF Table
<1>8. ASSUME NEW g \in Table("Interchange")'
      PROVE  g \in Table("Interchange") \/ g \in trees
  BY <1>0, <1>2, <1>4, <1>6 DEF Table, Same
<1>9. ASSUME NEW f \in Table("RawFile")'
      PROVE  \E x \in Table("RawFile") : Same(x, f)
  BY <1>0, <1>2, <1>4, <1>7 DEF Same
<1>10. RowsOK'
  <2>1. rows' \subseteq StoredRows(day, made)
    BY <1>0, <1>1, <1>4, <1>5, <1>6
  <2>2. \A x \in rows' : tenants[x.org] # None
    BY <1>0, <1>2, <1>4, <1>5, <1>6 DEF Same, RowsOK
  <2>3. ASSUME NEW f \in Table("RawFile")'
        PROVE  f.id # None /\ (f.archived /\ f.id \in bytes => f.id \in held)
    BY <1>0, <1>1, <1>2, <1>4, <1>7 DEF Same
  <2>4. ASSUME NEW f \in Table("RawFile")', NEW g \in Table("RawFile")', g.id = f.id
        PROVE  g = f
    <3>1. \A y, z \in told : y = z
      BY <1>0, <1>1, <1>2
    <3>2. \A y \in told : y.id = i
      BY <1>0, <1>2, <1>4 DEF Same
    <3> QED BY <1>0, <1>1, <1>7, <2>4, <3>1, <3>2
  <2>5. ASSUME NEW f \in Table("RawFile")', NEW g \in Table("Interchange")', g.id = f.id
        PROVE  g.org = f.org
    <3>1. PICK x \in Table("RawFile") : x.id = f.id /\ x.org = f.org
      BY <1>9 DEF Same
    <3>2. CASE g \in Table("Interchange")
      BY <1>0, <1>1, <2>5, <3>1, <3>2
    <3>3. CASE g \in trees
      <4>1. PICK z \in file : g.id = z.id /\ g.org = z.org
        BY <1>0, <1>5, <3>3
      <4> QED BY <1>0, <1>1, <1>2, <2>5, <3>1, <4>1
    <3> QED BY <1>8, <3>2, <3>3
  <2> QED BY <1>0, <2>1, <2>2, <2>3, <2>4, <2>5 DEF RowsOK
<1>11. \A y \in rows' : NewRow(y) \/ \E x \in rows : Same(x, y)
  <2> SUFFICES ASSUME NEW y \in rows'
               PROVE  NewRow(y) \/ \E x \in rows : Same(x, y)
    OBVIOUS
  <2>1. CASE y \in rows
    BY <2>1 DEF Same
  <2>2. CASE y \in told
    BY <1>0, <1>2, <1>4, <2>2
  <2>3. CASE y \in trees
    BY <1>0, <1>1, <1>5, <2>3 DEF NewRow
  <2> QED BY <1>6, <2>1, <2>2, <2>3
<1>12. Evolves
  BY <1>0, <1>1, <1>11 DEF Evolves, Gone, Due
<1> QED BY <1>0, <1>10, <1>12

LEMMA ScriptsGo ==
  ASSUME KeepInv, RowsOK', Evolves, NEW p \in Scripts, NEW s,
         script' = [script EXCEPT ![p] = s], s = None \/ ScriptOK(s)'
  PROVE  KeepInv'
<1>1. DOMAIN script' = Scripts
  BY DEF KeepInv, ScriptsOK
<1>2. ASSUME NEW q \in Scripts, NEW z, z = script'[q], z # None
      PROVE  ScriptOK(z)'
  <2>1. CASE q = p
    <3>1. z = s
      BY <1>2, <2>1 DEF KeepInv, ScriptsOK
    <3> QED BY <1>2, <3>1
  <2>2. CASE q # p
    <3>1. z = script[q]
      BY <1>2, <2>2 DEF KeepInv, ScriptsOK
    <3>2. ScriptOK(z)
      BY <1>2, <3>1 DEF KeepInv, ScriptsOK
    <3> QED BY <3>2, ScriptStays DEF KeepInv
  <2> QED BY <2>1, <2>2
<1> QED BY <1>1, <1>2 DEF KeepInv, ScriptsOK

LEMMA ScriptsStand ==
  ASSUME KeepInv, RowsOK', Evolves, script' = script
  PROVE  KeepInv'
<1>1. ASSUME NEW q \in Scripts, NEW z, z = script[q], z # None
      PROVE  ScriptOK(z)'
  <2>1. ScriptOK(z)
    BY <1>1 DEF KeepInv, ScriptsOK
  <2> QED BY <2>1, ScriptStays DEF KeepInv
<1> QED BY <1>1 DEF KeepInv, ScriptsOK

\* A script goes on and nothing else changes.
LEMMA ScriptMoves ==
  ASSUME KeepInv, NEW p \in Scripts, NEW s, s = None \/ ScriptOK(s),
         script' = [script EXCEPT ![p] = s], UNCHANGED <<day, rows, bytes, tenants, held, made>>
  PROVE  KeepInv'
<1>1. RowsOK' /\ Evolves
  BY RowsThin DEF KeepInv, RowsOK
<1>2. s = None \/ ScriptOK(s)'
  BY <1>1, ScriptStays DEF KeepInv
<1> QED BY <1>1, <1>2, ScriptsGo

\* The script that acts.
LEMMA Acting ==
  ASSUME KeepInv, NEW p \in Scripts, NEW job, NEW at, At(p, job, at)
  PROVE  /\ script[p] # None /\ script[p].job = job /\ script[p].at = at /\ ScriptOK(script[p])
BY DEF KeepInv, ScriptsOK, At
-----------------------------------------------------------------------------
LEMMA KeepInitOK == KeepInit => KeepInv
<1> SUFFICES ASSUME KeepInit
             PROVE  KeepInv
  OBVIOUS
<1>1. RowsOK
  BY DEF KeepInit, RowsOK
<1> QED BY <1>1 DEF KeepInit, KeepInv, ScriptsOK

LEMMA ArriveOK ==
  ASSUME KeepInv, NEW t \in Tenants, NEW isa \in Controls, Arrive(t, isa)
  PROVE  KeepInv'
<1> DEFINE new == {Row(made + 1, "RawFile", t, isa), Row(made + 1, "Interchange", t, None),
                   Row(made + 1, "Alert", t, None)}
<1>1. /\ tenants[t] # None /\ rows' = rows \cup new /\ bytes' = bytes \cup {made + 1} /\ made' = made + 1
      /\ UNCHANGED <<day, tenants, script, held>>
  BY DEF Arrive
<1>2. /\ day \in Nat /\ made \in Nat /\ rows \subseteq StoredRows(day, made) /\ bytes \subseteq 1..made
      /\ \A x \in rows : x.id \in 1..made \cup {None}
  BY DEF KeepInv, RowsOK, StoredRows
<1>3. ASSUME NEW y \in new
      PROVE  /\ y \in StoredRows(day, made + 1) /\ y.id = made + 1 /\ y.org = t /\ y.born = day
             /\ y.archived = FALSE
  <2>1. PICK k \in Kinds, c \in Controls \cup {None} : y = Row(made + 1, k, t, c)
    BY <1>3 DEF Kinds
  <2>2. made + 1 \in 1..(made + 1) /\ day \in 0..day
    BY <1>2
  <2> QED BY <2>1, <2>2 DEF Row, StoredRows
<1>4. /\ \A f \in new : f.model = "RawFile" => f = Row(made + 1, "RawFile", t, isa)
      /\ None # made + 1 /\ made + 1 \notin 1..made
  BY <1>2, KeepingAssumption DEF Row
<1> HIDE DEF new
<1>5. ASSUME NEW k, NEW f \in Table(k)'
      PROVE  f \in Table(k) \/ (f \in new /\ f.model = k)
  BY <1>1 DEF Table
<1>6. \A k : \A f \in Table(k) : f \in rows /\ f.id # made + 1
  BY <1>2, <1>4 DEF Table
<1>7. RowsOK'
  <2>1. rows' \subseteq StoredRows(day, made + 1)
    <3>1. StoredRows(day, made) \subseteq StoredRows(day, made + 1)
      BY <1>2 DEF StoredRows
    <3> QED BY <1>1, <1>2, <1>3, <3>1
  <2>2. \A x \in rows' : tenants[x.org] # None
    BY <1>1, <1>3 DEF KeepInv, RowsOK
  <2>3. bytes' \subseteq 1..(made + 1)
    BY <1>1, <1>2
  <2>4. ASSUME NEW f \in Table("RawFile")'
        PROVE  f.id # None /\ (f.archived /\ f.id \in bytes' => f.id \in held)
    BY <1>1, <1>3, <1>4, <1>5, <1>6 DEF KeepInv, RowsOK
  <2>5. ASSUME NEW f \in Table("RawFile")', NEW g \in Table("RawFile")', g.id = f.id
        PROVE  g = f
    <3>1. CASE f \in Table("RawFile") /\ g \in Table("RawFile")
      BY <2>5, <3>1 DEF KeepInv, RowsOK
    <3>2. CASE ~ (f \in Table("RawFile") /\ g \in Table("RawFile"))
      <4>1. f.id = made + 1 /\ g.id = made + 1
        BY <1>3, <1>5, <2>5, <3>2
      <4>2. f \in new /\ f.model = "RawFile" /\ g \in new /\ g.model = "RawFile"
        BY <1>5, <1>6, <2>5, <4>1
      <4> QED BY <1>4, <4>2
    <3> QED BY <3>1, <3>2
  <2>6. ASSUME NEW f \in Table("RawFile")', NEW g \in Table("Interchange")', g.id = f.id
        PROVE  g.org = f.org
    <3>1. CASE f \in Table("RawFile") /\ g \in Table("Interchange")
      BY <2>6, <3>1 DEF KeepInv, RowsOK
    <3>2. CASE ~ (f \in Table("RawFile") /\ g \in Table("Interchange"))
      <4>1. f.id = made + 1 /\ g.id = made + 1
        BY <1>3, <1>5, <2>6, <3>2
      <4>2. f \in new /\ g \in new
        BY <1>5, <1>6, <2>6, <4>1
      <4> QED BY <1>3, <4>2
    <3> QED BY <3>1, <3>2
  <2> QED BY <1>1, <1>2, <2>1, <2>2, <2>3, <2>4, <2>5, <2>6 DEF KeepInv, RowsOK
<1>8. \A y \in rows' : NewRow(y) \/ \E x \in rows : Same(x, y)
  <2>1. \A y \in new : NewRow(y)
    <3>1. day >= day
      BY <1>2
    <3> QED BY <1>3, <1>4, <3>1 DEF NewRow
  <2> QED BY <1>1, <2>1 DEF Same
<1>9. Evolves
  BY <1>1, <1>2, <1>4, <1>8 DEF Evolves, Gone, Due
<1> QED BY <1>1, <1>7, <1>9, ScriptsStand

LEMMA HubOK ==
  ASSUME KeepInv, DayPasses \/ \E t \in Tenants : DeleteTenant(t) \/ \E isa \in Controls : Arrive(t, isa)
  PROVE  KeepInv'
<1>1. CASE DayPasses
  <2>1. RowsOK' /\ Evolves
    BY <1>1, RowsThin DEF DayPasses, KeepInv, RowsOK
  <2> QED BY <1>1, <2>1, ScriptsStand DEF DayPasses
<1>2. ASSUME NEW t \in Tenants, DeleteTenant(t)
      PROVE  KeepInv'
  <2>1. /\ tenants[t] # None /\ tenants[t].deleted = None /\ tenants' = [tenants EXCEPT ![t].deleted = day]
        /\ UNCHANGED <<day, rows, bytes, script, held, made>>
    BY <1>2 DEF DeleteTenant
  <2>2. tenants[t] \in TenantRows /\ tenants \in [Tenants -> TenantRows \cup {None}] /\ day \in Nat
    BY <2>1 DEF KeepInv, RowsOK
  <2>3. tenants'[t] \in TenantRows /\ tenants' \in [Tenants -> TenantRows \cup {None}]
    <3>1. PICK old \in TenantRows : old = tenants[t]
      BY <2>2
    <3>2. tenants' = [tenants EXCEPT ![t] = [old EXCEPT !.deleted = day]]
      BY <2>1, <3>1
    <3>3. [old EXCEPT !.deleted = day] \in TenantRows
      BY <2>2 DEF TenantRows
    <3> QED BY <2>2, <3>2, <3>3
  <2>4. tenants'[t] # None /\ \A u \in Tenants \ {t} : tenants'[u] = tenants[u]
    BY <2>1, <2>2, <2>3, KeepingAssumption
  <2>5. RowsOK'
    <3>1. \A x \in rows' : tenants'[x.org] # None
      BY <2>1, <2>4 DEF KeepInv, RowsOK, StoredRows
    <3>2. Table("RawFile")' = Table("RawFile") /\ Table("Interchange")' = Table("Interchange")
      BY <2>1 DEF Table
    <3>3. rows' \subseteq StoredRows(day, made)'
      BY <2>1 DEF KeepInv, RowsOK, StoredRows
    <3> QED BY <2>1, <2>3, <3>1, <3>2, <3>3 DEF KeepInv, RowsOK
  <2>6. \A u \in Tenants, n \in Nat : Gone(u, n) => Gone(u, n)'
    <3> SUFFICES ASSUME NEW u \in Tenants, NEW n \in Nat, Gone(u, n)
                 PROVE  Gone(u, n)'
      OBVIOUS
    <3>1. CASE u = t
      BY <2>1, <3>1 DEF Gone, Due
    <3>2. CASE u # t
      BY <2>4, <3>2 DEF Gone, Due
    <3> QED BY <3>1, <3>2
  <2>7. Evolves
    BY <2>1, <2>2, <2>6 DEF Evolves, Same, KeepInv, RowsOK
  <2> QED BY <2>1, <2>5, <2>7, ScriptsStand
<1> QED BY <1>1, <1>2, ArriveOK
-----------------------------------------------------------------------------
(* The steps of a retention pass.                                          *)

\* The same pass at another place judges rows as before.
LEMMA SamePass ==
  ASSUME NEW s, NEW z, z.org = s.org, z.now = s.now, z.policy = s.policy
  PROVE  /\ \A x : Stale(z, x) <=> Stale(s, x)
         /\ \A ids : ListedOK(s, ids) => ListedOK(z, ids)
         /\ \A ids : BytesOK(s, ids) => BytesOK(z, ids)
         /\ \A k : NoneStale(s, k) => NoneStale(z, k)
<1>1. \A x : Stale(z, x) <=> Stale(s, x)
  BY DEF Stale
<1> QED BY <1>1 DEF ListedOK, BytesOK, NoneStale

LEMMA ReadPolicyType ==
  ASSUME NEW r \in TenantRows
  PROVE  ReadPolicy(r.policy) \in Policy
<1>1. r.policy \in [Kinds -> Nat \cup {None}] \cup {None}
  BY DEF TenantRows
<1>2. DefaultPolicy \in [Kinds -> Nat]
  BY KeepingAssumption DEF Policy
<1> QED BY <1>1, <1>2 DEF ReadPolicy, Policy

LEMMA RetentionStartsOK ==
  ASSUME KeepInv, NEW p \in Scripts, RetentionStarts(p)
  PROVE  KeepInv'
<1>1. PICK active : active = {t \in Tenants : tenants[t] # None /\ tenants[t].deleted = None}
  OBVIOUS
<1>2. PICK policy : policy = [t \in active |-> ReadPolicy(tenants[t].policy)]
  OBVIOUS
<1>3. PICK s : s = [Blank EXCEPT !.job = "retention", !.at = "tenants", !.todo = active, !.policy = policy]
  OBVIOUS
<1>4. day \in Nat /\ made \in Nat /\ active \subseteq Tenants /\ \A t \in active : tenants[t] \in TenantRows
  BY <1>1 DEF KeepInv, RowsOK
<1>5. policy \in Policies /\ DOMAIN policy = active
  <2>1. policy \in [active -> Policy]
    BY <1>2, <1>4, ReadPolicyType
  <2> QED BY <2>1, <1>4 DEF Policies
<1>6. /\ s \in Running /\ s.now = day /\ s.left = {} /\ s.id = None /\ s.job = "retention" /\ s.at = "tenants"
      /\ s.todo = active /\ s.policy = policy
  <2>1. s = [job |-> "retention", at |-> "tenants", now |-> day, policy |-> policy, todo |-> active,
             org |-> None, left |-> {}, id |-> None, table |-> 1]
    BY <1>3 DEF Blank
  <2> QED BY <2>1, <1>4, <1>5 DEF Running
<1>7. RetentionOK(s)
  BY <1>5, <1>6 DEF RetentionOK, InPass
<1>8. ScriptOK(s)
  BY <1>4, <1>6, <1>7 DEF ScriptOK
<1>9. Starts(p, s)
  BY <1>1, <1>2, <1>3 DEF RetentionStarts
<1> QED BY <1>8, <1>9, ScriptMoves DEF Starts

LEMMA TakeTenantOK ==
  ASSUME KeepInv, NEW p \in Scripts, NEW t \in Tenants, TakeTenant(p, t)
  PROVE  KeepInv'
<1>1. PICK s : s = script[p]
  OBVIOUS
<1>2. PICK z : z = [s EXCEPT !.org = t, !.todo = @ \ {t}, !.at = "list"]
  OBVIOUS
<1>3. ScriptOK(s) /\ s.job = "retention" /\ s.at = "tenants" /\ t \in s.todo
  BY <1>1, Acting DEF TakeTenant
<1>4. z \in Running /\ z.now = s.now /\ z.left = s.left /\ z.id = s.id /\ z.job = s.job /\ z.at = "list"
      /\ z.org = t /\ z.todo = s.todo \ {t} /\ z.policy = s.policy
  BY <1>2, <1>3 DEF ScriptOK, Running, InPass
<1>5. ScriptOK(z)
  BY <1>3, <1>4 DEF ScriptOK, RetentionOK, InPass
<1> QED BY <1>1, <1>2, <1>5, ScriptMoves DEF TakeTenant, FirstStep, Writes, Goes

LEMMA ListStaleOK ==
  ASSUME KeepInv, NEW p \in Scripts, ListStale(p)
  PROVE  KeepInv'
<1>1. PICK s : s = script[p]
  OBVIOUS
<1>2. ScriptOK(s) /\ s \in Running /\ s.job = "retention" /\ s.at = "list"
  BY <1>1, Acting DEF ListStale, ScriptOK
<1>3. PICK ids : ids = {x.id : x \in {y \in Past(s, "RawFile") : ~ y.archived}}
  OBVIOUS
<1>4. PICK listed : listed = [s EXCEPT !.left = ids]
  OBVIOUS
<1>5. PICK z : z = [listed EXCEPT !.at = AfterFile(listed)]
  OBVIOUS
<1>6. Past(s, "RawFile") = {x \in Table("RawFile") : Stale(s, x)}
  BY PastIsStale DEF Kinds
<1>7. /\ \A f \in Table("RawFile") : f.id \in ids => Stale(s, f)
      /\ \A f \in Table("RawFile") : Stale(s, f) /\ f.id \in bytes => f.id \in held \cup ids
      /\ ids \subseteq 1..made /\ made \in Nat
  <2>1. made \in Nat /\ \A f \in Table("RawFile") :
             /\ f.id \in 1..made
             /\ f.archived /\ f.id \in bytes => f.id \in held
             /\ \A g \in Table("RawFile") : g.id = f.id => g = f
    BY DEF KeepInv, RowsOK, Table, StoredRows
  <2> QED BY <1>3, <1>6, <2>1
<1>8. listed.left = ids /\ AfterFile(listed) = IF ids = {} THEN "Interchange" ELSE "object"
  BY <1>2, <1>4 DEF AfterFile, Running
<1>9. z \in Running /\ z.now = s.now /\ z.left = ids /\ z.id = s.id /\ z.job = s.job
      /\ z.org = s.org /\ z.todo = s.todo /\ z.policy = s.policy
      /\ z.at = IF ids = {} THEN "Interchange" ELSE "object"
  <2>1. ids \in SUBSET Nat
    BY <1>7
  <2>2. PICK at : at = AfterFile(listed) /\ at \in InPass /\ at = IF ids = {} THEN "Interchange" ELSE "object"
    BY <1>8 DEF InPass
  <2>3. listed \in Running /\ listed.now = s.now /\ listed.left = ids /\ listed.id = s.id /\ listed.job = s.job
        /\ listed.org = s.org /\ listed.todo = s.todo /\ listed.policy = s.policy
    BY <1>2, <1>4, <2>1 DEF Running
  <2> QED BY <1>5, <2>2, <2>3 DEF Running
<1>10. ListedOK(z, ids) /\ BytesOK(z, ids)
  <2>1. ListedOK(s, ids) /\ BytesOK(s, ids)
    BY <1>7 DEF ListedOK, BytesOK
  <2> QED BY <1>9, <2>1, SamePass
<1>11. RetentionOK(s)
  BY <1>2 DEF ScriptOK
<1>12. RetentionOK(z)
  <2>1. CASE ids = {}
    BY <1>2, <1>9, <1>10, <1>11, <2>1 DEF RetentionOK, InPass
  <2>2. CASE ids # {}
    BY <1>2, <1>9, <1>10, <1>11, <2>2 DEF RetentionOK, InPass
  <2> QED BY <2>1, <2>2
<1>13. ScriptOK(z)
  BY <1>2, <1>7, <1>9, <1>12 DEF ScriptOK
<1>14. Writes(p, rows, z)
  BY <1>1, <1>3, <1>4, <1>5 DEF ListStale
<1> QED BY <1>13, <1>14, ScriptMoves DEF Writes, Goes

LEMMA DropObjectOK ==
  ASSUME KeepInv, NEW p \in Scripts, NEW i \in 1..MaxIds, DropObject(p, i)
  PROVE  KeepInv'
<1>1. PICK s : s = script[p]
  OBVIOUS
<1>2. ScriptOK(s) /\ s \in Running /\ s.job = "retention" /\ s.at = "object" /\ i \in s.left /\ s.left \subseteq 1..made
  BY <1>1, Acting DEF DropObject, ScriptOK
<1>3. PICK z : z = [s EXCEPT !.id = i, !.left = @ \ {i}, !.at = "flip"]
  OBVIOUS
<1>4. /\ bytes' \subseteq bytes /\ held \subseteq held' /\ (i \in bytes' => i \in held')
      /\ script' = [script EXCEPT ![p] = z] /\ UNCHANGED <<day, rows, tenants, made>>
  BY <1>1, <1>3 DEF DropObject, Goes
<1>5. Table("RawFile")' = Table("RawFile") /\ Table("Interchange")' = Table("Interchange")
  BY <1>4 DEF Table
<1>6. RowsOK'
  BY <1>4, <1>5 DEF KeepInv, RowsOK, StoredRows
<1>7. Evolves
  BY <1>4 DEF KeepInv, RowsOK, Evolves, Same, Gone, Due
<1>8. ScriptOK(s)'
  BY <1>2, <1>6, <1>7, ScriptStays DEF KeepInv
<1>9. z \in Running /\ z.now = s.now /\ z.left = s.left \ {i} /\ z.id = i /\ z.job = s.job
      /\ z.org = s.org /\ z.todo = s.todo /\ z.policy = s.policy /\ z.at = "flip"
  <2>1. i \in Nat /\ s.left \ {i} \in SUBSET Nat
    BY <1>2 DEF Running
  <2> QED BY <1>2, <1>3, <2>1 DEF Running, InPass
<1>10. RetentionOK(s)'
  BY <1>2, <1>8 DEF ScriptOK
<1>11. ListedOK(z, z.left \cup {z.id})' /\ BytesOK(z, z.left)'
  <2>1. ListedOK(s, s.left)' /\ BytesOK(s, s.left)'
    BY <1>2, <1>10 DEF RetentionOK
  <2>2. z.left \cup {z.id} = s.left
    BY <1>2, <1>9
  <2>3. \A x : Stale(z, x) <=> Stale(s, x)
    BY <1>9 DEF Stale
  <2>4. ListedOK(z, z.left \cup {z.id})'
    BY <2>1, <2>2, <2>3 DEF ListedOK
  <2>5. BytesOK(z, z.left)'
    BY <1>4, <1>9, <2>1, <2>3 DEF BytesOK
  <2> QED BY <2>4, <2>5
<1>12. RetentionOK(z)'
  BY <1>2, <1>4, <1>9, <1>10, <1>11 DEF RetentionOK, InPass
<1>13. ScriptOK(z)'
  BY <1>2, <1>4, <1>8, <1>9, <1>12 DEF ScriptOK
<1> QED BY <1>4, <1>6, <1>7, <1>13, ScriptsGo

LEMMA ArchiveOK ==
  ASSUME KeepInv, NEW p \in Scripts, Archive(p)
  PROVE  KeepInv'
<1>1. PICK s : s = script[p]
  OBVIOUS
<1>2. ScriptOK(s) /\ s \in Running /\ s.job = "retention" /\ s.at = "flip" /\ RetentionOK(s)
  BY <1>1, Acting DEF Archive, ScriptOK
<1>3. PICK file : file = {x \in Table("RawFile") : x.id = s.id}
  OBVIOUS
<1>4. file = {x \in Reached(Run(s.org), "RawFile", None, Table("RawFile")) : x.id = s.id}
  <2>1. Reached(Run(s.org), "RawFile", None, Table("RawFile")) = {x \in Table("RawFile") : x.org = s.org}
    BY DEF Reached, Run, Asked, TenantExemptModels
  <2>2. \A x \in file : Stale(s, x)
    BY <1>2, <1>3 DEF RetentionOK, ListedOK
  <2> QED BY <1>3, <2>1, <2>2 DEF Stale
<1>5. PICK z : z = IF file = {} THEN None ELSE [s EXCEPT !.at = AfterFile(s)]
  OBVIOUS
<1>6. /\ rows' = (rows \ file) \cup {[x EXCEPT !.archived = TRUE] : x \in file}
      /\ script' = [script EXCEPT ![p] = z] /\ UNCHANGED <<day, bytes, tenants, held, made>>
  BY <1>1, <1>4, <1>5 DEF Archive, Writes, Goes
<1>7. \A x \in file : x.id \in bytes => x.id \in held
  BY <1>2, <1>3 DEF RetentionOK
<1>8. RowsOK' /\ Evolves
  <2>1. Rewrites(s.id, TRUE, file, file, {Marked(x, TRUE) : x \in file}, {})
    BY <1>3, <1>6, <1>7 DEF Rewrites, Marked
  <2> QED BY <2>1, FilesRewritten DEF KeepInv
<1>9. ScriptOK(s)' /\ RetentionOK(s)'
  BY <1>2, <1>8, ScriptStays DEF KeepInv, ScriptOK
<1>10. ASSUME file # {}
       PROVE  ScriptOK(z)'
  <2>1. z \in Running /\ z.now = s.now /\ z.left = s.left /\ z.id = s.id /\ z.job = s.job
        /\ z.org = s.org /\ z.todo = s.todo /\ z.policy = s.policy
        /\ z.at = IF s.left = {} THEN "Interchange" ELSE "object"
    BY <1>2, <1>5, <1>10 DEF AfterFile, Running, InPass
  <2>2. ListedOK(s, s.left \cup {s.id})' /\ BytesOK(s, s.left)'
    BY <1>2, <1>9 DEF RetentionOK
  <2>3. ListedOK(z, s.left)' /\ BytesOK(z, s.left)'
    <3>1. \A x : Stale(z, x) <=> Stale(s, x)
      BY <2>1 DEF Stale
    <3> QED BY <2>2, <3>1 DEF ListedOK, BytesOK
  <2>4. RetentionOK(z)'
    <3>1. CASE s.left = {}
      BY <1>2, <1>9, <2>1, <2>3, <3>1 DEF RetentionOK, InPass
    <3>2. CASE s.left # {}
      BY <1>2, <1>9, <2>1, <2>3, <3>2 DEF RetentionOK, InPass
    <3> QED BY <3>1, <3>2
  <2> QED BY <1>2, <1>9, <2>1, <2>4 DEF ScriptOK
<1> QED BY <1>5, <1>6, <1>8, <1>10, ScriptsGo

LEMMA DropPastOK ==
  ASSUME KeepInv, NEW p \in Scripts, NEW k \in DOMAIN After, DropPast(p, k)
  PROVE  KeepInv'
<1>1. PICK s : s = script[p]
  OBVIOUS
<1>2. ScriptOK(s) /\ s \in Running /\ s.job = "retention" /\ s.at = k /\ RetentionOK(s)
  BY <1>1, Acting DEF DropPast, ScriptOK
<1>3. PICK z : z = [s EXCEPT !.at = After[k]]
  OBVIOUS
<1>4. /\ k \in {"Interchange", "AuditEvent", "Alert"} /\ k \in Kinds
      /\ After[k] = IF k = "Interchange" THEN "AuditEvent" ELSE IF k = "AuditEvent" THEN "Alert" ELSE "report"
  BY DEF After, Kinds
<1>5. /\ rows' = rows \ Past(s, k)
      /\ script' = [script EXCEPT ![p] = z] /\ UNCHANGED <<day, bytes, tenants, held, made>>
  BY <1>1, <1>3 DEF DropPast, Writes, Goes
<1>6. RowsOK' /\ Evolves
  BY <1>5, RowsThin DEF KeepInv, RowsOK
<1>7. ScriptOK(s)' /\ RetentionOK(s)'
  BY <1>2, <1>6, ScriptStays DEF KeepInv, ScriptOK
<1>8. NoneStale(s, k)'
  BY <1>4, <1>5, PastIsStale DEF NoneStale, Table
<1>9. z \in Running /\ z.now = s.now /\ z.left = s.left /\ z.id = s.id /\ z.job = s.job
      /\ z.org = s.org /\ z.todo = s.todo /\ z.policy = s.policy
      /\ z.at = IF k = "Interchange" THEN "AuditEvent" ELSE IF k = "AuditEvent" THEN "Alert" ELSE "report"
  <2>1. After[k] \in InPass
    BY <1>4 DEF InPass
  <2> QED BY <1>2, <1>3, <1>4, <2>1 DEF Running
<1>10. \A x : Stale(z, x) <=> Stale(s, x)
  BY <1>9 DEF Stale
<1>11. /\ \A ids : BytesOK(s, ids)' => BytesOK(z, ids)'
       /\ \A m : NoneStale(s, m)' => NoneStale(z, m)'
  BY <1>10 DEF BytesOK, NoneStale
<1>12. RetentionOK(z)'
  <2>1. BytesOK(s, {})' /\ s.todo \subseteq DOMAIN s.policy /\ s.org \in DOMAIN s.policy
    BY <1>2, <1>4, <1>7 DEF RetentionOK, InPass
  <2>2. CASE k = "Interchange"
    BY <1>8, <1>9, <1>11, <2>1, <2>2 DEF RetentionOK, InPass
  <2>3. CASE k = "AuditEvent"
    <3>1. NoneStale(s, "Interchange")'
      BY <1>2, <1>7, <2>3 DEF RetentionOK
    <3> QED BY <1>8, <1>9, <1>11, <2>1, <2>3, <3>1 DEF RetentionOK, InPass
  <2>4. CASE k = "Alert"
    <3>1. NoneStale(s, "Interchange")' /\ NoneStale(s, "AuditEvent")'
      BY <1>2, <1>7, <2>4 DEF RetentionOK
    <3> QED BY <1>8, <1>9, <1>11, <2>1, <2>4, <3>1 DEF RetentionOK, InPass
  <2> QED BY <1>4, <2>2, <2>3, <2>4
<1>13. ScriptOK(z)'
  BY <1>2, <1>7, <1>9, <1>12 DEF ScriptOK
<1> QED BY <1>5, <1>6, <1>13, ScriptsGo

LEMMA ReportOK ==
  ASSUME KeepInv, NEW p \in Scripts, Report(p)
  PROVE  KeepInv'
<1>1. PICK s : s = script[p]
  OBVIOUS
<1>2. ScriptOK(s) /\ s \in Running /\ s.job = "retention" /\ s.at = "report" /\ RetentionOK(s)
  BY <1>1, Acting DEF Report, ScriptOK
<1>3. s.org \in DOMAIN s.policy /\ s.todo \subseteq DOMAIN s.policy
  BY <1>2 DEF RetentionOK, InPass
<1>4. s.org \in Tenants /\ s.org # None
  BY <1>2, <1>3, PolicyType, KeepingAssumption
<1>5. CASE tenants[s.org] = None
  BY <1>1, <1>5, ScriptMoves DEF Report, Writes, Goes
<1>6. CASE tenants[s.org] # None
  <2>1. PICK row : row = Row(None, "AuditEvent", s.org, None)
    OBVIOUS
  <2>2. PICK z : z = [s EXCEPT !.at = "tenants", !.org = None]
    OBVIOUS
  <2>3. /\ row = [id |-> None, model |-> "AuditEvent", org |-> s.org, born |-> day, isa |-> None,
                  archived |-> FALSE]
        /\ row.org = s.org /\ row.model = "AuditEvent" /\ row.born = day
    BY <2>1 DEF Row
  <2>4. Stamped(Run(s.org), "AuditEvent", {row}) = {row}
    <3>1. [row EXCEPT !.org = IF row.org = None THEN s.org ELSE row.org] = row
      BY <1>4, <2>3
    <3> QED BY <3>1 DEF Stamped, Run, MultiTenantModels
  <2>5. /\ rows' = rows \cup {row} /\ script' = [script EXCEPT ![p] = z]
        /\ UNCHANGED <<day, bytes, tenants, held, made>>
    BY <1>1, <1>6, <2>1, <2>2, <2>4 DEF Report, Writes, Goes
  <2>6. day \in Nat /\ row \in StoredRows(day, made)
    <3>1. day \in Nat
      BY DEF KeepInv, RowsOK
    <3> QED BY <1>4, <2>3, <3>1 DEF StoredRows, Kinds
  <2>7. Table("RawFile")' = Table("RawFile") /\ Table("Interchange")' = Table("Interchange")
    BY <2>3, <2>5 DEF Table
  <2>8. RowsOK'
    <3>1. rows' \subseteq StoredRows(day, made) /\ \A x \in rows' : tenants[x.org] # None
      BY <1>6, <2>3, <2>5, <2>6 DEF KeepInv, RowsOK
    <3> QED BY <2>5, <2>7, <3>1 DEF KeepInv, RowsOK, StoredRows
  <2>9. Evolves
    <3>1. NewRow(row)
      BY <2>3, <2>6 DEF NewRow
    <3> QED BY <2>5, <3>1 DEF Evolves, Same, Gone, Due, KeepInv, RowsOK
  <2>10. ScriptOK(s)'
    BY <1>2, <2>8, <2>9, ScriptStays DEF KeepInv
  <2>11. z \in Running /\ z.now = s.now /\ z.left = s.left /\ z.id = s.id /\ z.job = s.job
         /\ z.todo = s.todo /\ z.policy = s.policy /\ z.at = "tenants"
    BY <1>2, <2>2 DEF Running
  <2>12. RetentionOK(z)'
    BY <1>3, <2>11 DEF RetentionOK, InPass
  <2>13. ScriptOK(z)'
    BY <1>2, <2>10, <2>11, <2>12 DEF ScriptOK
  <2> QED BY <2>5, <2>8, <2>9, <2>13, ScriptsGo
<1> QED BY <1>5, <1>6

LEMMA ListDueOK ==
  ASSUME KeepInv, NEW p \in Scripts, ListDue(p)
  PROVE  KeepInv'
<1>1. PICK s : s = script[p]
  OBVIOUS
<1>2. PICK due : due = {t \in Tenants : Due(t, s.now)}
  OBVIOUS
<1>3. PICK z : z = [s EXCEPT !.at = "due", !.todo = due]
  OBVIOUS
<1>4. ScriptOK(s) /\ s \in Running /\ s.job = "retention"
  BY <1>1, Acting DEF ListDue, ScriptOK
<1>5. z \in Running /\ z.now = s.now /\ z.left = s.left /\ z.id = s.id /\ z.job = s.job
      /\ z.todo = due /\ z.at = "due"
  <2>1. due \in SUBSET Tenants
    BY <1>2
  <2> QED BY <1>3, <1>4, <2>1 DEF Running
<1>6. RetentionOK(z)
  BY <1>2, <1>5 DEF RetentionOK, InPass, Gone
<1>7. ScriptOK(z)
  BY <1>4, <1>5, <1>6 DEF ScriptOK
<1>8. Writes(p, rows, z)
  BY <1>1, <1>2, <1>3 DEF ListDue
<1> QED BY <1>7, <1>8, ScriptMoves DEF Writes, Goes

LEMMA TakeDueOK ==
  ASSUME KeepInv, NEW p \in Scripts, NEW t \in Tenants, TakeDue(p, t)
  PROVE  KeepInv'
<1>1. PICK s : s = script[p]
  OBVIOUS
<1>2. PICK z : z = [s EXCEPT !.at = "sweep", !.org = t, !.todo = @ \ {t}, !.table = 1]
  OBVIOUS
<1>3. ScriptOK(s) /\ s.job = "retention" /\ s.at = "due" /\ t \in s.todo
  BY <1>1, Acting DEF TakeDue
<1>4. z \in Running /\ z.now = s.now /\ z.left = s.left /\ z.id = s.id /\ z.job = s.job /\ z.at = "sweep"
      /\ z.org = t /\ z.todo = s.todo \ {t}
  <2>1. s \in Running /\ s.todo \ {t} \in SUBSET Tenants /\ 1 \in Nat \ {0}
    BY <1>3 DEF ScriptOK, Running
  <2>2. PICK y : y = [s EXCEPT !.at = "sweep", !.org = t, !.todo = @ \ {t}]
    OBVIOUS
  <2>3. y \in Running /\ y.now = s.now /\ y.left = s.left /\ y.id = s.id /\ y.job = s.job /\ y.at = "sweep"
        /\ y.org = t /\ y.todo = s.todo \ {t}
    BY <2>1, <2>2 DEF Running
  <2>4. z = [y EXCEPT !.table = 1]
    BY <1>2, <2>1, <2>2 DEF Running
  <2> QED BY <2>1, <2>3, <2>4 DEF Running
<1>5. ScriptOK(z)
  BY <1>3, <1>4 DEF ScriptOK, RetentionOK, InPass
<1> QED BY <1>1, <1>2, <1>5, ScriptMoves DEF TakeDue, Writes, Goes

LEMMA RetentionEndsOK ==
  ASSUME KeepInv, NEW p \in Scripts, RetentionEnds(p)
  PROVE  KeepInv'
BY ScriptMoves DEF RetentionEnds, Writes, Goes

LEMMA SweepsOneTenant ==
  ASSUME KeepInv, NEW p \in Scripts, NEW job \in {"retention", "attach"}, At(p, job, "sweep")
  PROVE  /\ ScriptOK(script[p]) /\ script[p] \in Running /\ script[p].org \in Tenants /\ script[p].org # None
         /\ script[p].job = job /\ script[p].at = "sweep"
<1>1. ScriptOK(script[p]) /\ script[p].job = job /\ script[p].at = "sweep"
  BY Acting
<1> QED BY <1>1, KeepingAssumption DEF ScriptOK, RetentionOK

\* A tree has the tenant of its file, so all that goes with a table is the tenant's.
LEMMA TreesAreOfTheTenant ==
  ASSUME RowsOK, NEW files, files \subseteq Table("RawFile"), NEW t, \A f \in files : f.org = t
  PROVE  \A x \in Trees(files) : x \in rows /\ x.org = t /\ x.model = "Interchange"
BY DEF Trees, RowsOK, Table

LEMMA EmptyTableOK ==
  ASSUME KeepInv, NEW p \in Scripts, NEW job \in {"retention", "attach"}, NEW order, EmptyTable(p, job, order)
  PROVE  KeepInv'
<1>1. PICK s : s = script[p]
  OBVIOUS
<1>2. ScriptOK(s) /\ s \in Running /\ s.org \in Tenants /\ s.job = job /\ s.at = "sweep"
  BY <1>1, SweepsOneTenant DEF EmptyTable
<1>3. PICK z : z = [s EXCEPT !.table = @ + 1]
  OBVIOUS
<1>4. rows' \subseteq rows /\ script' = [script EXCEPT ![p] = z] /\ UNCHANGED <<day, bytes, tenants, held, made>>
  BY <1>1, <1>3 DEF EmptyTable, Writes, Goes
<1>5. RowsOK' /\ Evolves
  BY <1>4, RowsThin DEF KeepInv, RowsOK
<1>6. ScriptOK(s)'
  BY <1>2, <1>5, ScriptStays DEF KeepInv
<1>7. z \in Running /\ z.now = s.now /\ z.left = s.left /\ z.id = s.id /\ z.job = s.job /\ z.org = s.org
      /\ z.todo = s.todo /\ z.policy = s.policy /\ z.at = "sweep"
  BY <1>2, <1>3 DEF Running
<1>8. s.job = "retention" => RetentionOK(z)'
  BY <1>2, <1>6, <1>7 DEF ScriptOK, RetentionOK, InPass
<1>9. ScriptOK(z)'
  BY <1>2, <1>6, <1>7, <1>8 DEF ScriptOK
<1> QED BY <1>4, <1>5, <1>9, ScriptsGo

LEMMA DropTenantOK ==
  ASSUME KeepInv, NEW p \in Scripts, NEW job \in {"retention", "attach"}, NEW order, NEW goal,
         job = "retention" => goal = "due", job = "attach" => goal = "end",
         DropTenant(p, job, order, goal)
  PROVE  KeepInv'
<1>1. PICK s : s = script[p]
  OBVIOUS
<1>2. ScriptOK(s) /\ s \in Running /\ s.org \in Tenants /\ s.job = job /\ s.at = "sweep"
  BY <1>1, SweepsOneTenant DEF DropTenant
<1>3. CASE tenants[s.org] = None \/ \E x \in rows : x.org = s.org
  BY <1>1, <1>3, ScriptMoves DEF DropTenant, Goes
<1>4. CASE ~ (tenants[s.org] = None \/ \E x \in rows : x.org = s.org)
  <2>1. PICK z : z = IF goal = "end" THEN None ELSE [s EXCEPT !.at = goal]
    OBVIOUS
  <2>2. /\ tenants' = [tenants EXCEPT ![s.org] = None] /\ script' = [script EXCEPT ![p] = z]
        /\ UNCHANGED <<day, rows, bytes, held, made>>
    BY <1>1, <1>4, <2>1 DEF DropTenant, Goes
  <2>3. tenants \in [Tenants -> TenantRows \cup {None}]
    BY DEF KeepInv, RowsOK
  <2>4. /\ tenants' \in [Tenants -> TenantRows \cup {None}] /\ tenants'[s.org] = None
        /\ \A t \in Tenants \ {s.org} : tenants'[t] = tenants[t]
    BY <1>2, <2>2, <2>3
  <2>5. Table("RawFile")' = Table("RawFile") /\ Table("Interchange")' = Table("Interchange")
    BY <2>2 DEF Table
  <2>6. RowsOK'
    <3>1. \A x \in rows' : tenants'[x.org] # None
      BY <1>4, <2>2, <2>4 DEF KeepInv, RowsOK, StoredRows
    <3> QED BY <2>2, <2>4, <2>5, <3>1 DEF KeepInv, RowsOK, StoredRows
  <2>7. Evolves
    <3>1. \A t \in Tenants, n \in Nat : Gone(t, n) => Gone(t, n)'
      BY <2>4 DEF Gone, Due
    <3> QED BY <2>2, <3>1 DEF Evolves, Same, KeepInv, RowsOK
  <2>8. ScriptOK(s)'
    BY <1>2, <2>6, <2>7, ScriptStays DEF KeepInv
  <2>9. ASSUME job = "retention", goal = "due"
        PROVE  ScriptOK(z)'
    <3>1. z = [s EXCEPT !.at = "due"]
      BY <2>1, <2>9
    <3>2. z \in Running /\ z.now = s.now /\ z.left = s.left /\ z.id = s.id /\ z.job = s.job /\ z.org = s.org
          /\ z.todo = s.todo /\ z.policy = s.policy /\ z.at = "due"
      BY <1>2, <3>1 DEF Running
    <3>3. RetentionOK(z)'
      BY <1>2, <2>8, <2>9, <3>2 DEF ScriptOK, RetentionOK, InPass
    <3> QED BY <1>2, <2>8, <2>9, <3>2, <3>3 DEF ScriptOK
  <2>10. z = None \/ ScriptOK(z)'
    BY <2>1, <2>9
  <2> QED BY <2>2, <2>6, <2>7, <2>10, ScriptsGo
<1> QED BY <1>3, <1>4

LEMMA RetentionStepOK ==
  ASSUME KeepInv, NEW p \in Scripts, Retention(p)
  PROVE  KeepInv'
<1>1. CASE RetentionStarts(p)
  BY <1>1, RetentionStartsOK
<1>2. CASE ListStale(p)
  BY <1>2, ListStaleOK
<1>3. CASE Archive(p)
  BY <1>3, ArchiveOK
<1>4. CASE Report(p)
  BY <1>4, ReportOK
<1>5. CASE ListDue(p)
  BY <1>5, ListDueOK
<1>6. CASE RetentionEnds(p)
  BY <1>6, RetentionEndsOK
<1>7. CASE \E t \in Tenants : TakeTenant(p, t)
  BY <1>7, TakeTenantOK
<1>8. CASE \E t \in Tenants : TakeDue(p, t)
  BY <1>8, TakeDueOK
<1>9. CASE \E i \in 1..MaxIds : DropObject(p, i)
  BY <1>9, DropObjectOK
<1>10. CASE \E k \in DOMAIN After : DropPast(p, k)
  BY <1>10, DropPastOK
<1>11. CASE EmptyTable(p, "retention", SweepOrder)
  BY <1>11, EmptyTableOK
<1>12. CASE DropTenant(p, "retention", SweepOrder, "due")
  BY <1>12, DropTenantOK
<1> QED BY <1>1, <1>2, <1>3, <1>4, <1>5, <1>6, <1>7, <1>8, <1>9, <1>10, <1>11, <1>12 DEF Retention
-----------------------------------------------------------------------------
(* The steps of the other scripts.                                         *)

LEMMA NoPolicyYet == <<>> \in Policies
<1>1. <<>> \in [{} -> Policy]
  OBVIOUS
<1> QED BY <1>1 DEF Policies

LEMMA PurgeOK ==
  ASSUME KeepInv, NEW p \in Scripts, PurgeStarts(p) \/ PurgeDeletes(p)
  PROVE  KeepInv'
<1>1. CASE PurgeStarts(p)
  <2>1. PICK s : s = [Blank EXCEPT !.job = "purge", !.at = "delete"]
    OBVIOUS
  <2>2. day \in Nat
    BY DEF KeepInv, RowsOK
  <2>3. s \in Running /\ s.now = day /\ s.left = {} /\ s.id = None /\ s.job = "purge" /\ s.at = "delete"
    <3>1. s = [job |-> "purge", at |-> "delete", now |-> day, policy |-> <<>>, todo |-> {}, org |-> None,
               left |-> {}, id |-> None, table |-> 1]
      BY <2>1 DEF Blank
    <3> QED BY <2>2, <3>1, NoPolicyYet DEF Running
  <2>4. ScriptOK(s)
    BY <2>2, <2>3 DEF ScriptOK
  <2>5. Starts(p, s)
    BY <1>1, <2>1 DEF PurgeStarts
  <2> QED BY <2>4, <2>5, ScriptMoves DEF Starts
<1>2. CASE PurgeDeletes(p)
  <2>1. rows' \subseteq rows /\ script' = [script EXCEPT ![p] = None] /\ UNCHANGED <<day, bytes, tenants, held, made>>
    BY <1>2 DEF PurgeDeletes, Writes, Goes
  <2>2. RowsOK' /\ Evolves
    BY <2>1, RowsThin DEF KeepInv, RowsOK
  <2> QED BY <2>1, <2>2, ScriptsGo
<1> QED BY <1>1, <1>2

LEMMA AttachStartsOK ==
  ASSUME KeepInv, NEW p \in Scripts, NEW t \in Tenants, AttachStarts(p, t)
  PROVE  KeepInv'
<1>1. PICK s : s = [Blank EXCEPT !.job = "attach", !.at = "sweep", !.org = t]
  OBVIOUS
<1>2. day \in Nat /\ t # PilotTenant
  BY DEF KeepInv, RowsOK, AttachStarts
<1>3. s \in Running /\ s.now = day /\ s.left = {} /\ s.id = None /\ s.job = "attach" /\ s.at = "sweep" /\ s.org = t
  <2>1. s = [job |-> "attach", at |-> "sweep", now |-> day, policy |-> <<>>, todo |-> {}, org |-> t,
             left |-> {}, id |-> None, table |-> 1]
    BY <1>1 DEF Blank
  <2> QED BY <1>2, <2>1, NoPolicyYet DEF Running
<1>4. ScriptOK(s)
  BY <1>2, <1>3 DEF ScriptOK
<1>5. Starts(p, s)
  BY <1>1 DEF AttachStarts
<1> QED BY <1>4, <1>5, ScriptMoves DEF Starts

\* What a query of the tenant's own finds.
LEMMA OwnReached ==
  ASSUME NEW t, NEW k \in Kinds, NEW table
  PROVE  Reached(Run(t), k, None, table) = {x \in table : x.org = t}
BY DEF Reached, Run, Asked, TenantExemptModels, Kinds

LEMMA BackfillStartsOK ==
  ASSUME KeepInv, NEW p \in Scripts, BackfillStarts(p)
  PROVE  KeepInv'
<1>1. PICK mine : mine = {y \in Reached(Run(PilotTenant), "RawFile", None, Table("RawFile")) : ~ y.archived}
  OBVIOUS
<1>2. PICK left : left = {x.id : x \in mine}
  OBVIOUS
<1>3. PICK s : s = [Blank EXCEPT !.job = "backfill", !.at = "files", !.org = PilotTenant, !.left = left]
  OBVIOUS
<1>4. \A x \in mine : x \in Table("RawFile") /\ x.org = PilotTenant
  BY <1>1, OwnReached DEF Kinds
<1>5. day \in Nat /\ made \in Nat /\ left \subseteq 1..made
  <2>1. \A x \in Table("RawFile") : x.id \in 1..made
    BY DEF KeepInv, RowsOK, StoredRows, Table
  <2> QED BY <1>2, <1>4, <2>1 DEF KeepInv, RowsOK
<1>6. \A f \in Table("RawFile") : f.id \in left => f.org = PilotTenant
  BY <1>2, <1>4 DEF KeepInv, RowsOK
<1>7. s \in Running /\ s.now = day /\ s.left = left /\ s.id = None /\ s.job = "backfill" /\ s.at = "files"
  <2>1. s = [job |-> "backfill", at |-> "files", now |-> day, policy |-> <<>>, todo |-> {}, org |-> PilotTenant,
             left |-> left, id |-> None, table |-> 1]
    BY <1>3 DEF Blank
  <2> QED BY <1>5, KeepingAssumption, <2>1, NoPolicyYet DEF Running
<1>8. None \notin 1..made /\ \A f \in Table("RawFile") : f.id # None
  BY <1>5, KeepingAssumption DEF KeepInv, RowsOK
<1>9. ScriptOK(s)
  BY <1>5, <1>6, <1>7, <1>8 DEF ScriptOK
<1>10. Starts(p, s)
  BY <1>1, <1>2, <1>3 DEF BackfillStarts
<1> QED BY <1>9, <1>10, ScriptMoves DEF Starts

LEMMA BackfillReadsOK ==
  ASSUME KeepInv, NEW p \in Scripts, NEW i \in 1..MaxIds, BackfillReads(p, i)
  PROVE  KeepInv'
<1>1. PICK s : s = script[p]
  OBVIOUS
<1>2. ScriptOK(s) /\ s \in Running /\ s.job = "backfill" /\ i \in s.left
  BY <1>1, Acting DEF BackfillReads, ScriptOK
<1>3. PICK z : z = [s EXCEPT !.left = @ \ {i}, !.id = i]
  OBVIOUS
<1>4. PICK y : y = [z EXCEPT !.at = "store"]
  OBVIOUS
<1>5. z \in Running /\ z.now = s.now /\ z.left = s.left \ {i} /\ z.id = i /\ z.job = "backfill" /\ z.at = s.at
  BY <1>2, <1>3 DEF Running
<1>6. y \in Running /\ y.now = s.now /\ y.left = s.left \ {i} /\ y.id = i /\ y.job = "backfill" /\ y.at = "store"
  BY <1>4, <1>5 DEF Running
<1>7. /\ s.left \subseteq 1..made /\ s.now <= day /\ s.at \in {"files", "store"}
      /\ \A f \in Table("RawFile") : f.id \in s.left \cup {s.id} => f.org = PilotTenant
  BY <1>2 DEF ScriptOK
<1>8. ScriptOK(z)
  BY <1>2, <1>5, <1>7 DEF ScriptOK
<1>9. ScriptOK(y)
  BY <1>2, <1>6, <1>7 DEF ScriptOK
<1>10. Writes(p, rows, z) \/ Writes(p, rows, None) \/ Writes(p, rows, y)
  BY <1>1, <1>3, <1>4 DEF BackfillReads
<1>11. ASSUME NEW w, w = None \/ ScriptOK(w), Writes(p, rows, w)
       PROVE  KeepInv'
  BY <1>11, ScriptMoves DEF Writes, Goes
<1> QED BY <1>8, <1>9, <1>10, <1>11

LEMMA BackfillStoresOK ==
  ASSUME KeepInv, NEW p \in Scripts, BackfillStores(p)
  PROVE  KeepInv'
<1>1. PICK s : s = script[p]
  OBVIOUS
<1>2. ScriptOK(s) /\ s \in Running /\ s.job = "backfill" /\ s.at = "store"
  BY <1>1, Acting DEF BackfillStores, ScriptOK
<1>3. PICK file : file = {x \in Table("RawFile") : x.id = s.id}
  OBVIOUS
<1>4. PICK told : told = {[x EXCEPT !.archived = FALSE] : x \in file}
  OBVIOUS
<1>5. PICK tree : tree = {Row(x.id, "Interchange", x.org, None) : x \in file}
  OBVIOUS
<1>6. PICK z : z = IF file = {} THEN None ELSE [s EXCEPT !.at = "files"]
  OBVIOUS
<1>7. \/ Writes(p, (rows \ (file \cup Trees(file))) \cup told \cup tree, z)
      \/ Writes(p, (rows \ file) \cup told, z)
  BY <1>1, <1>3, <1>4, <1>5, <1>6 DEF BackfillStores
<1>8. RowsOK' /\ Evolves
  <2>1. CASE Writes(p, (rows \ (file \cup Trees(file))) \cup told \cup tree, z)
    <3>1. PICK gone : gone = file \cup Trees(file)
      OBVIOUS
    <3>2. Rewrites(s.id, FALSE, file, gone, told, tree)
      BY <1>3, <1>4, <1>5, <2>1, <3>1 DEF Rewrites, Marked, Writes
    <3> QED BY <3>2, FilesRewritten DEF KeepInv
  <2>2. CASE Writes(p, (rows \ file) \cup told, z)
    <3>1. Rewrites(s.id, FALSE, file, file, told, {})
      BY <1>3, <1>4, <2>2 DEF Rewrites, Marked, Writes
    <3> QED BY <3>1, FilesRewritten DEF KeepInv
  <2> QED BY <1>7, <2>1, <2>2
<1>9. script' = [script EXCEPT ![p] = z]
  BY <1>7 DEF Writes, Goes
<1>10. ScriptOK(s)'
  BY <1>2, <1>8, ScriptStays DEF KeepInv
<1>11. z = None \/ ScriptOK(z)'
  <2>1. ASSUME file # {}
        PROVE  ScriptOK(z)'
    <3>1. z \in Running /\ z.now = s.now /\ z.left = s.left /\ z.id = s.id /\ z.job = "backfill" /\ z.at = "files"
      BY <1>2, <1>6, <2>1 DEF Running
    <3> QED BY <1>2, <1>10, <3>1 DEF ScriptOK
  <2> QED BY <1>6, <2>1
<1> QED BY <1>8, <1>9, <1>11, ScriptsGo

LEMMA OtherStepOK ==
  ASSUME KeepInv, NEW p \in Scripts, OtherScripts(p)
  PROVE  KeepInv'
<1>1. CASE PurgeStarts(p) \/ PurgeDeletes(p)
  BY <1>1, PurgeOK
<1>2. CASE \E t \in Tenants : AttachStarts(p, t)
  BY <1>2, AttachStartsOK
<1>3. CASE EmptyTable(p, "attach", AttachOrder)
  BY <1>3, EmptyTableOK
<1>4. CASE DropTenant(p, "attach", AttachOrder, "end")
  BY <1>4, DropTenantOK
<1>5. CASE BackfillStarts(p)
  BY <1>5, BackfillStartsOK
<1>6. CASE BackfillStores(p)
  BY <1>6, BackfillStoresOK
<1>7. CASE BackfillEnds(p)
  BY <1>7, ScriptMoves DEF BackfillEnds, Writes, Goes
<1>8. CASE \E i \in 1..MaxIds : BackfillReads(p, i)
  BY <1>8, BackfillReadsOK
<1> QED BY <1>1, <1>2, <1>3, <1>4, <1>5, <1>6, <1>7, <1>8 DEF OtherScripts

LEMMA KeepStep == KeepInv /\ [KeepNext]_keepVars => KeepInv'
<1> SUFFICES ASSUME KeepInv, [KeepNext]_keepVars
             PROVE  KeepInv'
  OBVIOUS
<1>1. CASE DayPasses \/ \E t \in Tenants : DeleteTenant(t) \/ \E isa \in Controls : Arrive(t, isa)
  BY <1>1, HubOK
<1>2. ASSUME NEW p \in Scripts, Retention(p) \/ OtherScripts(p) \/ ScriptFails(p)
      PROVE  KeepInv'
  <2>1. CASE Retention(p)
    BY <2>1, RetentionStepOK
  <2>2. CASE OtherScripts(p)
    BY <2>2, OtherStepOK
  <2>3. CASE ScriptFails(p)
    BY <2>3, ScriptMoves DEF ScriptFails, Goes
  <2> QED BY <1>2, <2>1, <2>2, <2>3
<1>3. CASE UNCHANGED keepVars
  <2>1. RowsOK' /\ Evolves
    BY <1>3, RowsThin DEF keepVars, KeepInv, RowsOK
  <2> QED BY <1>3, <2>1, ScriptsStand DEF keepVars
<1> QED BY <1>1, <1>2, <1>3 DEF KeepNext

LEMMA KeepInvariant == KeepSpec => []KeepInv
<1>1. KeepInit => KeepInv
  BY KeepInitOK
<1>2. KeepInv /\ [KeepNext]_keepVars => KeepInv'
  BY KeepStep
<1> QED BY <1>1, <1>2, PTL DEF KeepSpec
-----------------------------------------------------------------------------
(* What follows for the reports and for the losses.                        *)

LEMMA KeepInvReports == KeepInv => ReportsAreEarned
<1> SUFFICES ASSUME KeepInv
             PROVE  ReportsAreEarned
  OBVIOUS
<1>1. \A x \in Table("RawFile") : x.archived /\ x.id \in bytes => x.id \in held
  BY DEF KeepInv, RowsOK
<1>2. ASSUME NEW p \in Scripts, At(p, "retention", "report")
      PROVE  LET s == script[p]
             IN /\ \A k \in DOMAIN After : Past(s, k) = {}
                /\ \A x \in Past(s, "RawFile") : x.id \in bytes => x.id \in held
  <2>1. PICK s : s = script[p]
    OBVIOUS
  <2>2. ScriptOK(s) /\ s \in Running /\ s.job = "retention" /\ s.at = "report" /\ RetentionOK(s)
    BY <1>2, <2>1, Acting DEF ScriptOK
  <2>3. \A k \in DOMAIN After : NoneStale(s, k) /\ k \in Kinds
    BY <2>2 DEF RetentionOK, After, Kinds
  <2>4. \A k \in DOMAIN After : Past(s, k) = {}
    BY <2>3, PastIsStale DEF NoneStale
  <2>5. BytesOK(s, {})
    BY <2>2 DEF RetentionOK
  <2>6. \A x \in Past(s, "RawFile") : x.id \in bytes => x.id \in held
    BY <2>5, PastIsStale DEF BytesOK, Kinds
  <2> QED BY <2>1, <2>4, <2>6
<1> QED BY <1>1, <1>2 DEF ReportsAreEarned

\* A retention.run row tells the truth whatever scripts run beside the pass
\* (services/retention.ts:126-128, 186-188): by then no row of its tenant is past
\* the time the pass judged by, and no bytes of such a file are left but those
\* whose deletion failed; a crash never leaves an archived file with its bytes.
THEOREM ReportsAreTrue == KeepSpec => []ReportsAreEarned
<1>1. KeepInv => ReportsAreEarned
  BY KeepInvReports
<1> QED BY <1>1, KeepInvariant, PTL

\* What a running script has agreed to lose for its tenants.
LEMMA StaleIsAgreed ==
  ASSUME NEW s, s.job = "retention", s.org \in DOMAIN s.policy, NEW x, x.model \in Kinds, Stale(s, x)
  PROVE  Agreed(s, x)
BY DEF Agreed, Stale, Aged

LEMMA KeepsAll ==
  ASSUME rows \subseteq rows', bytes \subseteq bytes', NEW x \in rows
  PROVE  ~ Lost(x)
BY DEF Lost

LEMMA RowsHaveKinds ==
  ASSUME KeepInv, NEW x \in rows
  PROVE  x.model \in Kinds /\ x.org \in Tenants /\ tenants[x.org] # None
BY DEF KeepInv, RowsOK, StoredRows

LEMMA DropObjectLoses ==
  ASSUME KeepInv, NEW p \in Scripts, NEW i \in 1..MaxIds, DropObject(p, i), NEW x \in rows, Lost(x)
  PROVE  script[p] # None /\ Agreed(script[p], x)
<1>1. PICK s : s = script[p]
  OBVIOUS
<1>2. ScriptOK(s) /\ s # None /\ s.job = "retention" /\ s.at = "object" /\ RetentionOK(s) /\ i \in s.left
  BY <1>1, Acting DEF DropObject, ScriptOK
<1>3. rows' = rows /\ bytes \ {i} \subseteq bytes'
  BY DEF DropObject
<1>4. x \in Table("RawFile") /\ x.id = i
  BY <1>3 DEF Lost, Table
<1>5. Stale(s, x) /\ s.org \in DOMAIN s.policy
  BY <1>2, <1>4 DEF RetentionOK, ListedOK, InPass
<1> QED BY <1>1, <1>2, <1>5, RowsHaveKinds, StaleIsAgreed

LEMMA ArchiveLoses ==
  ASSUME KeepInv, NEW p \in Scripts, Archive(p), NEW x \in rows, Lost(x)
  PROVE  script[p] # None /\ Agreed(script[p], x)
<1>1. PICK s : s = script[p]
  OBVIOUS
<1>2. ScriptOK(s) /\ s # None /\ s.job = "retention" /\ s.at = "flip" /\ RetentionOK(s)
  BY <1>1, Acting DEF Archive, ScriptOK
<1>3. PICK file : file = {y \in Reached(Run(s.org), "RawFile", None, Table("RawFile")) : y.id = s.id}
  OBVIOUS
<1>4. rows \ file \subseteq rows' /\ bytes' = bytes
  BY <1>1, <1>3 DEF Archive, Writes
<1>5. x \in file
  BY <1>4 DEF Lost
<1>6. x \in Table("RawFile") /\ x.id = s.id
  BY <1>3, <1>5, OwnReached DEF Kinds
<1>7. Stale(s, x) /\ s.org \in DOMAIN s.policy
  BY <1>2, <1>6 DEF RetentionOK, ListedOK, InPass
<1> QED BY <1>1, <1>2, <1>7, RowsHaveKinds, StaleIsAgreed

LEMMA DropPastLoses ==
  ASSUME KeepInv, NEW p \in Scripts, NEW k \in DOMAIN After, DropPast(p, k), NEW x \in rows, Lost(x)
  PROVE  script[p] # None /\ Agreed(script[p], x)
<1>1. PICK s : s = script[p]
  OBVIOUS
<1>2. k \in Kinds /\ k \in InPass
  BY DEF After, Kinds, InPass
<1>3. ScriptOK(s) /\ s # None /\ s.job = "retention" /\ s.at = k /\ RetentionOK(s)
  BY <1>1, Acting DEF DropPast, ScriptOK
<1>4. rows' = rows \ Past(s, k) /\ bytes' = bytes
  BY <1>1 DEF DropPast, Writes
<1>5. Stale(s, x)
  BY <1>2, <1>4, PastIsStale DEF Lost
<1>6. s.org \in DOMAIN s.policy
  BY <1>2, <1>3 DEF RetentionOK
<1> QED BY <1>1, <1>3, <1>5, <1>6, RowsHaveKinds, StaleIsAgreed

LEMMA EmptyTableLoses ==
  ASSUME KeepInv, NEW p \in Scripts, NEW job \in {"retention", "attach"}, NEW order, EmptyTable(p, job, order),
         NEW x \in rows, Lost(x)
  PROVE  script[p] # None /\ Agreed(script[p], x)
<1>1. PICK s : s = script[p]
  OBVIOUS
<1>2. ScriptOK(s) /\ s # None /\ s.org \in Tenants /\ s.org # None /\ s.job = job /\ s.at = "sweep"
  BY <1>1, SweepsOneTenant, Acting DEF EmptyTable
<1>3. PICK model : model = order[s.table]
  OBVIOUS
<1>4. PICK gone : gone = Reached(Bypass(None), model, s.org, Table(model))
  OBVIOUS
<1>5. \A y \in gone : y \in Table(model) /\ y.org = s.org
  BY <1>2, <1>4 DEF Reached, Bypass, Asked
<1>6. /\ rows' = rows \ (gone \cup (IF model = "RawFile" THEN Trees(gone) ELSE {}))
      /\ bytes' = bytes
  BY <1>1, <1>3, <1>4 DEF EmptyTable, Writes
<1>7. x.org = s.org
  <2>1. CASE x \in gone
    BY <1>5, <2>1
  <2>2. CASE x \notin gone
    <3>1. model = "RawFile" /\ x \in Trees(gone)
      BY <1>6, <2>2 DEF Lost
    <3>2. gone \subseteq Table("RawFile")
      BY <1>5, <3>1
    <3> QED BY <1>5, <3>1, <3>2, TreesAreOfTheTenant DEF KeepInv
  <2> QED BY <2>1, <2>2
<1>8. CASE job = "retention"
  <2>1. Gone(s.org, s.now)
    BY <1>2, <1>8 DEF ScriptOK, RetentionOK
  <2>2. Due(x.org, s.now)
    BY <1>7, <2>1, RowsHaveKinds DEF Gone
  <2> QED BY <1>1, <1>2, <1>8, <2>2 DEF Agreed
<1>9. CASE job = "attach"
  BY <1>1, <1>2, <1>7, <1>9 DEF ScriptOK, Agreed
<1> QED BY <1>8, <1>9

LEMMA PurgeDeletesLoses ==
  ASSUME KeepInv, NEW p \in Scripts, PurgeDeletes(p), NEW x \in rows, Lost(x)
  PROVE  script[p] # None /\ Agreed(script[p], x)
<1>1. script[p] # None /\ script[p].job = "purge"
  BY DEF PurgeDeletes, At
<1>2. rows' = rows \ (Matches \cup Trees(Matches)) /\ bytes' = bytes
  BY DEF PurgeDeletes, Writes
<1>3. \A f \in Matches : f \in Table("RawFile") /\ f.org = PilotTenant /\ f.isa \in ToPurge
  BY OwnReached DEF Matches, Kinds
<1>4. x \in Matches \/ x \in Trees(Matches)
  BY <1>2 DEF Lost
<1>5. x.org = PilotTenant /\ \E f \in Table("RawFile") : f.id = x.id /\ f.isa \in ToPurge
  <2>1. CASE x \in Matches
    BY <1>3, <2>1
  <2>2. CASE x \in Trees(Matches)
    BY <1>3, <2>2 DEF Trees, KeepInv, RowsOK
  <2> QED BY <1>4, <2>1, <2>2
<1> QED BY <1>1, <1>5 DEF Agreed

LEMMA BackfillStoresLoses ==
  ASSUME KeepInv, NEW p \in Scripts, BackfillStores(p), NEW x \in rows, Lost(x)
  PROVE  script[p] # None /\ Agreed(script[p], x)
<1>1. PICK s : s = script[p]
  OBVIOUS
<1>2. ScriptOK(s) /\ s # None /\ s.job = "backfill"
  BY <1>1, Acting DEF BackfillStores
<1>3. PICK file : file = {y \in Table("RawFile") : y.id = s.id}
  OBVIOUS
<1>4. PICK told : told = {[y EXCEPT !.archived = FALSE] : y \in file}
  OBVIOUS
<1>5. rows \ (file \cup Trees(file)) \subseteq rows' /\ told \subseteq rows' /\ bytes' = bytes
  BY <1>1, <1>3, <1>4 DEF BackfillStores, Writes
<1>6. x \notin file
  <2> SUFFICES ASSUME x \in file
               PROVE  FALSE
    OBVIOUS
  <2>1. [x EXCEPT !.archived = FALSE] \in rows'
    BY <1>4, <1>5
  <2>2. x.archived \in BOOLEAN /\ (~ x.archived => [x EXCEPT !.archived = FALSE] = x)
    BY DEF KeepInv, RowsOK, StoredRows
  <2> QED BY <1>5, <2>1, <2>2 DEF Lost
<1>7. x \in Trees(file)
  BY <1>5, <1>6 DEF Lost
<1>8. \A f \in file : f \in Table("RawFile") /\ f.org = PilotTenant
  BY <1>2, <1>3 DEF ScriptOK
<1>9. x.org = PilotTenant /\ x.model = "Interchange"
  BY <1>3, <1>7, <1>8, TreesAreOfTheTenant DEF KeepInv
<1> QED BY <1>1, <1>2, <1>9 DEF Agreed

LEMMA KeepStepLoses ==
  ASSUME KeepInv, KeepNext, NEW x \in rows, Lost(x)
  PROVE  \E p \in Scripts : script[p] # None /\ Agreed(script[p], x)
<1>1. CASE DayPasses
  BY <1>1, KeepsAll DEF DayPasses
<1>2. CASE \E t \in Tenants : DeleteTenant(t)
  BY <1>2, KeepsAll DEF DeleteTenant
<1>3. CASE \E t \in Tenants, isa \in Controls : Arrive(t, isa)
  BY <1>3, KeepsAll DEF Arrive
<1>4. ASSUME NEW p \in Scripts, Retention(p)
      PROVE  script[p] # None /\ Agreed(script[p], x)
  <2>1. CASE RetentionStarts(p)
    BY <2>1, KeepsAll DEF RetentionStarts, Starts
  <2>2. CASE ListStale(p)
    BY <2>2, KeepsAll DEF ListStale, Writes
  <2>3. CASE Archive(p)
    BY <2>3, ArchiveLoses
  <2>4. CASE Report(p)
    BY <2>4, KeepsAll DEF Report, Writes
  <2>5. CASE ListDue(p)
    BY <2>5, KeepsAll DEF ListDue, Writes
  <2>6. CASE RetentionEnds(p)
    BY <2>6, KeepsAll DEF RetentionEnds, Writes
  <2>7. CASE \E t \in Tenants : TakeTenant(p, t)
    BY <2>7, KeepsAll DEF TakeTenant, Writes
  <2>8. CASE \E t \in Tenants : TakeDue(p, t)
    BY <2>8, KeepsAll DEF TakeDue, Writes
  <2>9. CASE \E i \in 1..MaxIds : DropObject(p, i)
    BY <2>9, DropObjectLoses
  <2>10. CASE \E k \in DOMAIN After : DropPast(p, k)
    BY <2>10, DropPastLoses
  <2>11. CASE EmptyTable(p, "retention", SweepOrder)
    BY <2>11, EmptyTableLoses
  <2>12. CASE DropTenant(p, "retention", SweepOrder, "due")
    BY <2>12, KeepsAll DEF DropTenant
  <2> QED BY <1>4, <2>1, <2>2, <2>3, <2>4, <2>5, <2>6, <2>7, <2>8, <2>9, <2>10, <2>11, <2>12 DEF Retention
<1>5. ASSUME NEW p \in Scripts, OtherScripts(p)
      PROVE  script[p] # None /\ Agreed(script[p], x)
  <2>1. CASE PurgeStarts(p)
    BY <2>1, KeepsAll DEF PurgeStarts, Starts
  <2>2. CASE PurgeDeletes(p)
    BY <2>2, PurgeDeletesLoses
  <2>3. CASE \E t \in Tenants : AttachStarts(p, t)
    BY <2>3, KeepsAll DEF AttachStarts, Starts
  <2>4. CASE EmptyTable(p, "attach", AttachOrder)
    BY <2>4, EmptyTableLoses
  <2>5. CASE DropTenant(p, "attach", AttachOrder, "end")
    BY <2>5, KeepsAll DEF DropTenant
  <2>6. CASE BackfillStarts(p)
    BY <2>6, KeepsAll DEF BackfillStarts, Starts
  <2>7. CASE BackfillStores(p)
    BY <2>7, BackfillStoresLoses
  <2>8. CASE BackfillEnds(p)
    BY <2>8, KeepsAll DEF BackfillEnds, Writes
  <2>9. CASE \E i \in 1..MaxIds : BackfillReads(p, i)
    BY <2>9, KeepsAll DEF BackfillReads, Writes
  <2> QED BY <1>5, <2>1, <2>2, <2>3, <2>4, <2>5, <2>6, <2>7, <2>8, <2>9 DEF OtherScripts
<1>6. CASE \E p \in Scripts : ScriptFails(p)
  BY <1>6, KeepsAll DEF ScriptFails
<1> QED BY <1>1, <1>2, <1>3, <1>4, <1>5, <1>6 DEF KeepNext

\* Nothing is lost that its tenant had not agreed to lose, however the scripts and
\* the hub interleave (services/retention.ts:125-184, scripts/purge-raw-by-isa.ts,
\* attach-pilot-org.ts, backfill-parse.ts, packages/db/src/tenant-extension.ts:148).
THEOREM LossesAreAgreed == KeepSpec => KeptAsAgreed
<1>1. KeepInv /\ [KeepNext]_keepVars
        => [\A x \in rows : Lost(x) => \E p \in Scripts : script[p] # None /\ Agreed(script[p], x)]_keepVars
  BY KeepStepLoses
<1> QED BY <1>1, KeepInvariant, PTL DEF KeepSpec, KeptAsAgreed
-----------------------------------------------------------------------------
(* What the search finds.                                                  *)

Hits == [po : {d.po : d \in Docs}, kind : {"po", "invoice", "shipment"}]

ByOrder(S, q)   == {d \in S : d.po = q}
ByInvoice(S, q) == {d \in S : d.inv = q}

Steps == {"rows", "shipment", "invoices", "orders", "send"}

WorkShape(w) ==
  w = [step |-> w.step, hits |-> w.hits, reads |-> w.reads, left |-> w.left, po |-> w.po,
       invoice |-> w.invoice, shipment |-> w.shipment, raw |-> w.raw]

\* Each order is one hit, and has a row that the caller may see.
HitsOK(w, mine) ==
  /\ w.hits \in Seq(Hits)
  /\ IsFiniteSet(Orders(w)) /\ Cardinality(Orders(w)) = Len(w.hits)
  /\ Orders(w) \subseteq {d.po : d \in mine}

\* A query found the rows that were there before the request, unless there are
\* more than it takes; then it found some.
Fetched(found, before, all) ==
  /\ Cardinality(all) <= Take => before \subseteq found
  /\ before # {} => found # {}

\* w is what was found so far for q among the rows mine; those of before were
\* there when the request was sent.
WorkOK(q, before, mine, w) ==
  /\ WorkShape(w) /\ HitsOK(w, mine)
  /\ w.step \in Steps /\ w.reads \subseteq Reads /\ (w.step # "rows" => w.reads = Reads)
  /\ w.po \subseteq ByOrder(mine, q) /\ w.invoice \subseteq ByInvoice(mine, q)
  /\ w.shipment \subseteq mine /\ w.raw \subseteq mine
  /\ ByOrder(before, q) # {} => q \in Orders(w)
  /\ "po" \in w.reads => Fetched(w.po, ByOrder(before, q), ByOrder(mine, q))
  /\ "invoice" \in w.reads => Fetched(w.invoice, ByInvoice(before, q), ByInvoice(mine, q))
  /\ "raw" \in w.reads => {d \in before : d.isa = q} \subseteq w.raw
  /\ w.step \in {"invoices", "orders", "send"} /\ (\E d \in before : d.ship = q /\ d.po # None)
     /\ w.left = {} =>
       \E d \in mine : d.ship = q /\ d.po \in Orders(w)
  /\ w.step \in {"orders", "send"} =>
       \A d \in w.invoice : d.po # None => d.po \in Orders(w) \cup w.left

RequestShape(r) ==
  r = [nr |-> r.nr, by |-> r.by, tries |-> r.tries, ip |-> r.ip, cred |-> r.cred,
       org |-> r.org, user |-> r.user, route |-> r.route, q |-> r.q, there |-> r.there,
       stage |-> r.stage, tenant |-> r.tenant, role |-> r.role, code |-> r.code, work |-> r.work]

Mine(r)   == {d \in stored : d.org = TenantMeant(r)}
Before(r) == {d \in r.there : d.org = TenantMeant(r)}

\* What a fetch of the tab asks is what its key says, for the tab's organization.
AskedOK(r) == r.by # None => r.q = r.by.q /\ r.org = Home

\* A request is let in for the tenant its caller may ask about.
RequestOK(r) ==
  /\ RequestShape(r) /\ r.there \subseteq stored /\ r.q # None
  /\ AskedOK(r)
  /\ r.stage \in {"sent", "verified", "known", "in", "refused"}
  /\ r.stage \in {"sent", "verified", "known"} => r.work = None
  /\ r.stage = "verified" => mode = "clerk"
  /\ r.stage \in {"known", "in"} /\ ~ Public(r.route) => r.tenant = TenantMeant(r)
  /\ Searching(r) /\ r.work # None => WorkOK(r.q, Before(r), Mine(r), r.work)

HubHolds ==
  /\ mode \in {"clerk", "lan", "dev", "bare"}
  /\ stored \subseteq Docs /\ IsFiniteSet(stored)
  /\ \A r \in requests : RequestOK(r)

Names(d, q) == d.po = q \/ d.inv = q \/ d.isa = q

\* An answer without rows was given where nothing was named.
EntryOK(k, c) ==
  /\ c = [data |-> c.data, failed |-> c.failed, stale |-> c.stale, there |-> c.there]
  /\ ~ c.failed /\ c.data.txns = {} /\ c.data.raw = {} =>
       \A d \in c.there : d.org = TenantMeant(Operator) => ~ Names(d, k.q)

TabOK ==
  /\ text \in Texts /\ debounced \in Texts /\ page \in Texts \cup {None}
  /\ ~ timer => debounced = Lower[text]
  /\ \A k \in DOMAIN cache : EntryOK(k, cache[k])

FindInv == HubHolds /\ TabOK

LEMMA OwnIsMine ==
  ASSUME NEW r, r.tenant = TenantMeant(r)
  PROVE  Own(r) = Mine(r)
BY DEF Own, Mine, Reached, Run, Asked, TenantOf, TenantExemptModels

LEMMA FewerStay ==
  ASSUME NEW S, NEW T, S \subseteq T, IsFiniteSet(T), Cardinality(T) <= Take
  PROVE  Cardinality(S) <= Take
<1>1. IsFiniteSet(S) /\ Cardinality(S) <= Cardinality(T)
  BY FS_Subset
<1>2. Cardinality(S) \in Nat /\ Cardinality(T) \in Nat /\ Take \in Nat
  BY <1>1, FS_CardinalityType, SearchAssumption
<1> QED BY <1>1, <1>2

\* What was found stays enough when documents come in.
LEMMA FetchedStays ==
  ASSUME NEW found, NEW before, NEW all, NEW more,
         Fetched(found, before, all), all \subseteq more, IsFiniteSet(more)
  PROVE  Fetched(found, before, more)
BY FewerStay DEF Fetched

LEMMA WorkGrows ==
  ASSUME NEW q, NEW before, NEW mine, NEW more, NEW w,
         WorkOK(q, before, mine, w), mine \subseteq more, IsFiniteSet(more)
  PROVE  WorkOK(q, before, more, w)
<1>1. /\ ByOrder(mine, q) \subseteq ByOrder(more, q) /\ ByOrder(more, q) \subseteq more
      /\ ByInvoice(mine, q) \subseteq ByInvoice(more, q) /\ ByInvoice(more, q) \subseteq more
  BY DEF ByOrder, ByInvoice
<1>2. IsFiniteSet(ByOrder(more, q)) /\ IsFiniteSet(ByInvoice(more, q))
  BY <1>1, FS_Subset
<1>3. /\ "po" \in w.reads => Fetched(w.po, ByOrder(before, q), ByOrder(more, q))
      /\ "invoice" \in w.reads => Fetched(w.invoice, ByInvoice(before, q), ByInvoice(more, q))
  BY <1>1, <1>2, FetchedStays DEF WorkOK
<1>4. HitsOK(w, more)
  BY DEF WorkOK, HitsOK
<1> QED BY <1>1, <1>3, <1>4 DEF WorkOK

LEMMA MineIsFinite ==
  ASSUME HubHolds, NEW r
  PROVE  IsFiniteSet(Mine(r)) /\ Mine(r) \subseteq Docs
<1>1. Mine(r) \subseteq stored
  BY DEF Mine
<1> QED BY <1>1, FS_Subset DEF HubHolds

LEMMA RequestStands ==
  ASSUME NEW r, RequestOK(r), mode' = mode, stored \subseteq stored', IsFiniteSet(stored')
  PROVE  RequestOK(r)'
<1>1. TenantMeant(r)' = TenantMeant(r) /\ Before(r)' = Before(r)
  BY DEF TenantMeant, Before
<1>2. Mine(r) \subseteq Mine(r)' /\ Mine(r)' \subseteq stored'
  BY <1>1 DEF Mine
<1>3. IsFiniteSet(Mine(r)')
  BY <1>2, FS_Subset
<1>4. Searching(r) /\ r.work # None => WorkOK(r.q, Before(r), Mine(r)', r.work)
  BY <1>2, <1>3, WorkGrows DEF RequestOK
<1> QED BY <1>1, <1>4 DEF RequestOK

LEMMA RequestReplaced ==
  ASSUME HubHolds, NEW r, NEW x, RequestOK(x), Replace(r, x), mode' = mode, stored' = stored
  PROVE  HubHolds'
<1>1. \A y \in requests' : RequestOK(y)
  BY DEF Replace, HubHolds
<1>2. \A y \in requests' : RequestOK(y)'
  BY <1>1, RequestStands DEF HubHolds
<1> QED BY <1>2 DEF HubHolds

LEMMA NoOneReplaced ==
  ASSUME HubHolds, requests' \subseteq requests, mode' = mode, stored' = stored
  PROVE  HubHolds'
<1>1. \A y \in requests' : RequestOK(y)'
  BY RequestStands DEF HubHolds
<1> QED BY <1>1 DEF HubHolds

LEMMA Refused ==
  ASSUME HubHolds, NEW r \in requests, NEW code, Refuse(r, code), mode' = mode, stored' = stored
  PROVE  HubHolds'
<1>0. PICK x : x = [r EXCEPT !.stage = "refused", !.code = code]
  OBVIOUS
<1>1. RequestOK(r)
  BY DEF HubHolds
<1>2. RequestShape(r)
  BY <1>1 DEF RequestOK
<1>3. /\ RequestShape(x) /\ x.there = r.there /\ x.q = r.q /\ x.by = r.by /\ x.org = r.org
      /\ x.stage = "refused"
  BY <1>0, <1>2 DEF RequestShape
<1>4. RequestOK(x)
  BY <1>1, <1>3 DEF RequestOK, AskedOK, Searching
<1> QED BY <1>0, <1>4, RequestReplaced DEF Refuse

\* A request that goes one stage further, without work.
LEMMA PassedOn ==
  ASSUME HubHolds, NEW r \in requests, NEW x, Replace(r, x), mode' = mode, stored' = stored,
         r.work = None, RequestShape(x), x.there = r.there, x.q = r.q, x.by = r.by, x.org = r.org,
         x.route = r.route, x.work = r.work, x.stage \in {"verified", "known", "in"},
         x.stage = "verified" => mode = "clerk",
         x.stage \in {"known", "in"} /\ ~ Public(r.route) => x.tenant = TenantMeant(r)
  PROVE  HubHolds'
<1>1. RequestOK(r)
  BY DEF HubHolds
<1>2. TenantMeant(x) = TenantMeant(r)
  BY DEF TenantMeant
<1>3. RequestOK(x)
  BY <1>1, <1>2 DEF RequestOK, AskedOK
<1> QED BY <1>3, RequestReplaced

LEMMA OnRequestFinds ==
  ASSUME HubHolds, NEW r \in requests, OnRequest(r), UNCHANGED hubVars
  PROVE  HubHolds'
<1>1. RequestShape(r) /\ r.stage = "sent" /\ r.work = None /\ mode' = mode /\ stored' = stored
  BY DEF HubHolds, RequestOK, OnRequest, hubVars
<1>2. CASE Public(r.route)
  <2>1. Replace(r, [r EXCEPT !.stage = "known"])
    BY <1>2 DEF OnRequest
  <2>2. PICK x : x = [r EXCEPT !.stage = "known"]
    OBVIOUS
  <2>3. /\ RequestShape(x) /\ x.there = r.there /\ x.q = r.q /\ x.by = r.by /\ x.org = r.org
        /\ x.route = r.route /\ x.work = r.work /\ x.stage = "known"
    BY <1>1, <2>2 DEF RequestShape
  <2> QED BY <1>1, <1>2, <2>1, <2>2, <2>3, PassedOn
<1>3. CASE ~ Public(r.route) /\ mode # "clerk"
  <2>1. Fallback(r)
    BY <1>3 DEF OnRequest, Verified
  <2>2. ASSUME NEW x, x = [r EXCEPT !.stage = "known", !.tenant = Pilot]
                     \/ x = [r EXCEPT !.stage = "known", !.tenant = Pilot, !.role = "admin"],
               Replace(r, x)
        PROVE  HubHolds'
    <3>1. /\ RequestShape(x) /\ x.there = r.there /\ x.q = r.q /\ x.by = r.by /\ x.org = r.org
          /\ x.route = r.route /\ x.work = r.work /\ x.stage = "known" /\ x.tenant = Pilot
      BY <1>1, <2>2 DEF RequestShape
    <3>2. x.tenant = TenantMeant(r)
      BY <3>1, <1>3 DEF TenantMeant
    <3> QED BY <1>1, <2>2, <3>1, <3>2, PassedOn
  <2>3. CASE mode = "bare"
    BY <1>1, <2>1, <2>3, Refused DEF Fallback
  <2>4. CASE mode = "dev"
    <3>1. Replace(r, [r EXCEPT !.stage = "known", !.tenant = Pilot])
      BY <2>1, <2>4 DEF Fallback
    <3> QED BY <2>2, <3>1
  <2>5. CASE mode = "lan" /\ LanTokenHeld(r)
    <3>1. Replace(r, [r EXCEPT !.stage = "known", !.tenant = Pilot, !.role = "admin"])
      BY <2>1, <2>5 DEF Fallback
    <3> QED BY <2>2, <3>1
  <2>6. CASE mode = "lan" /\ ~ LanTokenHeld(r)
    <3>1. Refuse(r, 401)
      BY <2>1, <2>6 DEF Fallback
    <3> QED BY <1>1, <3>1, Refused
  <2> QED BY <1>3, <2>3, <2>4, <2>5, <2>6 DEF HubHolds
<1>4. CASE ~ Public(r.route) /\ mode = "clerk"
  <2>1. CASE r.cred = "good"
    <3>1. Replace(r, [r EXCEPT !.stage = "verified"])
      BY <1>4, <2>1 DEF OnRequest, Verified
    <3>2. PICK x : x = [r EXCEPT !.stage = "verified"]
      OBVIOUS
    <3>3. /\ RequestShape(x) /\ x.there = r.there /\ x.q = r.q /\ x.by = r.by /\ x.org = r.org
          /\ x.route = r.route /\ x.work = r.work /\ x.stage = "verified"
      BY <1>1, <3>2 DEF RequestShape
    <3> QED BY <1>1, <1>4, <3>1, <3>2, <3>3, PassedOn
  <2>2. CASE r.cred # "good"
    <3>1. Refuse(r, 403) \/ Refuse(r, 401)
      BY <1>4, <2>2 DEF OnRequest, Verified
    <3> QED BY <1>1, <3>1, Refused
  <2> QED BY <2>1, <2>2
<1> QED BY <1>2, <1>3, <1>4

LEMMA LookUpFinds ==
  ASSUME HubHolds, NEW r \in requests, LookUp(r), UNCHANGED hubVars
  PROVE  HubHolds'
<1>1. /\ RequestShape(r) /\ r.stage = "verified" /\ r.work = None /\ mode = "clerk"
      /\ mode' = mode /\ stored' = stored
  BY DEF HubHolds, RequestOK, LookUp, hubVars
<1>2. CASE Refuse(r, 403)
  BY <1>1, <1>2, Refused
<1>3. CASE ~ Refuse(r, 403)
  <2>1. PICK x : x = [r EXCEPT !.stage = "known", !.tenant = r.org, !.role = role[r.user][r.org]]
    OBVIOUS
  <2>2. Replace(r, x)
    BY <1>3, <2>1 DEF LookUp
  <2>3. /\ RequestShape(x) /\ x.there = r.there /\ x.q = r.q /\ x.by = r.by /\ x.org = r.org
        /\ x.route = r.route /\ x.work = r.work /\ x.stage = "known" /\ x.tenant = r.org
    BY <1>1, <2>1 DEF RequestShape
  <2>4. x.tenant = TenantMeant(r)
    BY <1>1, <2>3 DEF TenantMeant
  <2> QED BY <1>1, <2>2, <2>3, <2>4, PassedOn
<1> QED BY <1>2, <1>3

LEMMA PreHandlerFinds ==
  ASSUME HubHolds, NEW r \in requests, PreHandler(r), UNCHANGED hubVars
  PROVE  HubHolds'
<1>1. /\ RequestShape(r) /\ r.stage = "known" /\ r.work = None /\ mode' = mode /\ stored' = stored
      /\ ~ Public(r.route) => r.tenant = TenantMeant(r)
  BY DEF HubHolds, RequestOK, PreHandler, hubVars
<1>2. CASE Refuse(r, 403) \/ Refuse(r, 429)
  BY <1>1, <1>2, Refused
<1>3. CASE ~ (Refuse(r, 403) \/ Refuse(r, 429))
  <2>1. PICK x : x = [r EXCEPT !.stage = "in"]
    OBVIOUS
  <2>2. Replace(r, x)
    BY <1>3, <2>1 DEF PreHandler, Spend
  <2>3. /\ RequestShape(x) /\ x.there = r.there /\ x.q = r.q /\ x.by = r.by /\ x.org = r.org
        /\ x.route = r.route /\ x.work = r.work /\ x.stage = "in" /\ x.tenant = r.tenant
    BY <1>1, <2>1 DEF RequestShape
  <2> QED BY <1>1, <2>2, <2>3, PassedOn
<1> QED BY <1>2, <1>3

LEMMA Worked ==
  ASSUME HubHolds, NEW r \in requests, Searching(r), NEW w,
         WorkOK(r.q, Before(r), Mine(r), w), Work(r, w)
  PROVE  HubHolds'
<1>1. PICK x : x = [r EXCEPT !.work = w]
  OBVIOUS
<1>2. RequestOK(r) /\ RequestShape(r) /\ r.stage = "in"
  BY DEF HubHolds, RequestOK, Searching
<1>3. /\ RequestShape(x) /\ x.there = r.there /\ x.q = r.q /\ x.by = r.by /\ x.org = r.org
      /\ x.stage = "in" /\ x.route = r.route /\ x.tenant = r.tenant /\ x.work = w
  BY <1>1, <1>2 DEF RequestShape
<1>4. TenantMeant(x) = TenantMeant(r) /\ Before(x) = Before(r) /\ Mine(x) = Mine(r)
  BY <1>3 DEF TenantMeant, Before, Mine
<1>5. RequestOK(x)
  BY <1>2, <1>3, <1>4 DEF RequestOK, AskedOK
<1>6. Replace(r, x) /\ mode' = mode /\ stored' = stored
  BY <1>1 DEF Work, hubVars
<1> QED BY <1>5, <1>6, RequestReplaced

\* What a search goes on from.
LEMMA SearchesFor ==
  ASSUME HubHolds, NEW r \in requests, Searching(r)
  PROVE  /\ Own(r) = Mine(r) /\ Before(r) \subseteq Mine(r)
         /\ Mine(r) \subseteq Docs /\ IsFiniteSet(Mine(r)) /\ r.q # None
         /\ r.work # None => WorkOK(r.q, Before(r), Mine(r), r.work)
<1>1. RequestOK(r)
  BY DEF HubHolds
<1>2. ~ Public(r.route) /\ r.stage = "in"
  BY DEF Searching, Public
<1>3. Before(r) \subseteq Mine(r)
  BY <1>1 DEF RequestOK, Before, Mine
<1> QED BY <1>1, <1>2, <1>3, OwnIsMine, MineIsFinite DEF RequestOK

\* An order is a hit once.
LEMMA PushOK ==
  ASSUME NEW r, NEW w, NEW po, NEW kind \in {"po", "invoice", "shipment"},
         WorkShape(w), HitsOK(w, Own(r)), Own(r) \subseteq Docs
  PROVE  LET x == Push(r, w, po, kind)
         IN /\ WorkShape(x) /\ HitsOK(x, Own(r)) /\ Orders(w) \subseteq Orders(x)
            /\ (\E d \in Own(r) : d.po = po) => po \in Orders(x)
            /\ x.step = w.step /\ x.reads = w.reads /\ x.po = w.po /\ x.invoice = w.invoice
            /\ x.shipment = w.shipment /\ x.raw = w.raw /\ x.left = w.left
<1>1. CASE po \in Orders(w) \/ \A d \in Own(r) : d.po # po
  <2>1. Push(r, w, po, kind) = w
    BY <1>1 DEF Push
  <2> QED BY <1>1, <2>1
<1>2. CASE ~ (po \in Orders(w) \/ \A d \in Own(r) : d.po # po)
  <2> DEFINE hit == [po |-> po, kind |-> kind]
  <2>1. PICK x : x = [w EXCEPT !.hits = Append(w.hits, hit)]
    OBVIOUS
  <2>2. Push(r, w, po, kind) = x
    BY <1>2, <2>1 DEF Push
  <2>3. /\ WorkShape(x) /\ x.hits = Append(w.hits, hit)
        /\ x.step = w.step /\ x.reads = w.reads /\ x.po = w.po /\ x.invoice = w.invoice
        /\ x.shipment = w.shipment /\ x.raw = w.raw /\ x.left = w.left
    BY <2>1 DEF WorkShape
  <2>4. hit \in Hits /\ w.hits \in Seq(Hits) /\ hit.po = po
    BY <1>2 DEF Hits, HitsOK
  <2> HIDE DEF hit
  <2>5. x.hits \in Seq(Hits) /\ Len(x.hits) = Len(w.hits) + 1
    BY <2>3, <2>4
  <2>6. Orders(x) = Orders(w) \cup {po}
    <3>1. DOMAIN x.hits = DOMAIN w.hits \cup {Len(w.hits) + 1}
      BY <2>3, <2>4, <2>5
    <3>2. \A n \in DOMAIN w.hits : x.hits[n] = w.hits[n]
      BY <2>3, <2>4
    <3>3. x.hits[Len(w.hits) + 1] = hit
      BY <2>3, <2>4
    <3> QED BY <3>1, <3>2, <3>3, <2>4 DEF Orders
  <2>7. IsFiniteSet(Orders(x)) /\ Cardinality(Orders(x)) = Cardinality(Orders(w)) + 1
    BY <1>2, <2>6, FS_AddElement DEF HitsOK
  <2>8. HitsOK(x, Own(r))
    BY <1>2, <2>5, <2>6, <2>7 DEF HitsOK
  <2> QED BY <2>2, <2>3, <2>6, <2>8
<1> QED BY <1>1, <1>2

LEMMA BegunIsOK ==
  ASSUME NEW mine
  PROVE  /\ WorkShape(Begun) /\ HitsOK(Begun, mine) /\ Orders(Begun) = {}
         /\ Begun.reads = {} /\ Begun.po = {} /\ Begun.invoice = {} /\ Begun.shipment = {}
         /\ Begun.raw = {}
<1>1. Begun.hits = <<>> /\ WorkShape(Begun)
  BY DEF Begun, WorkShape
<1>2. Orders(Begun) = {}
  BY <1>1 DEF Orders
<1>3. Len(<<>>) = 0 /\ <<>> \in Seq(Hits)
  OBVIOUS
<1>4. HitsOK(Begun, mine)
  BY <1>1, <1>2, <1>3, FS_EmptySet DEF HitsOK
<1> QED BY <1>1, <1>2, <1>4 DEF Begun

LEMMA SearchOrderFinds ==
  ASSUME HubHolds, NEW r \in requests, SearchOrder(r)
  PROVE  HubHolds'
<1>1. Searching(r) /\ r.work = None
  BY DEF SearchOrder
<1>2. CASE r.q = Empty
  BY <1>2, Refused DEF SearchOrder, hubVars
<1>3. CASE r.q # Empty
  <2>1. PICK v : v = Push(r, Begun, r.q, "po")
    OBVIOUS
  <2>2. PICK w : w = [v EXCEPT !.step = "rows"]
    OBVIOUS
  <2>3. Work(r, w)
    BY <1>3, <2>1, <2>2 DEF SearchOrder
  <2>4. Own(r) = Mine(r) /\ Own(r) \subseteq Docs /\ Before(r) \subseteq Mine(r)
    BY <1>1, SearchesFor
  <2>5. /\ WorkShape(v) /\ HitsOK(v, Own(r))
        /\ (\E d \in Own(r) : d.po = r.q) => r.q \in Orders(v)
        /\ v.reads = {} /\ v.po = {} /\ v.invoice = {} /\ v.shipment = {} /\ v.raw = {}
    BY <2>1, <2>4, PushOK, BegunIsOK
  <2>6. /\ WorkShape(w) /\ w.hits = v.hits /\ w.step = "rows" /\ w.reads = {} /\ w.po = {} /\ w.invoice = {}
        /\ w.shipment = {} /\ w.raw = {}
    BY <2>2, <2>5 DEF WorkShape
  <2>7. Orders(w) = Orders(v) /\ HitsOK(w, Mine(r))
    BY <2>4, <2>5, <2>6 DEF Orders, HitsOK
  <2>8. ByOrder(Before(r), r.q) # {} => r.q \in Orders(w)
    BY <2>4, <2>5, <2>7 DEF ByOrder
  <2>9. WorkOK(r.q, Before(r), Mine(r), w)
    BY <2>6, <2>7, <2>8 DEF WorkOK, Steps
  <2> QED BY <1>1, <2>3, <2>9, Worked
<1> QED BY <1>2, <1>3

\* A query that takes as many rows as it may finds what was there.
LEMMA SomeAreFetched ==
  ASSUME NEW before, NEW all, NEW some \in SomeOf(all), before \subseteq all, IsFiniteSet(all)
  PROVE  Fetched(some, before, all)
<1>1. some \subseteq all /\ Cardinality(some) = Lesser(Take, Cardinality(all))
  BY DEF SomeOf
<1>2. Cardinality(all) \in Nat /\ Cardinality(some) \in Nat /\ Take \in Nat \ {0}
  BY <1>1, FS_CardinalityType, FS_Subset, SearchAssumption
<1>3. ASSUME Cardinality(all) <= Take
      PROVE  before \subseteq some
  <2>1. Cardinality(some) = Cardinality(all)
    BY <1>1, <1>2, <1>3 DEF Lesser
  <2>2. some = all
    BY <1>1, <2>1, FS_Subset
  <2> QED BY <2>2
<1>4. ASSUME before # {}
      PROVE  some # {}
  <2>1. Cardinality(all) # 0
    BY <1>4, FS_EmptySet
  <2>2. Cardinality(some) # 0
    BY <1>1, <1>2, <2>1 DEF Lesser
  <2> QED BY <2>2, FS_EmptySet
<1> QED BY <1>3, <1>4 DEF Fetched

\* Where reads go on, only what they read changes.
LEMMA ReadsGoOn ==
  ASSUME NEW q, NEW before, NEW mine, NEW v, NEW w, NEW what \in Reads,
         WorkOK(q, before, mine, v), v.step = "rows",
         WorkShape(w),
         w.reads = v.reads \cup {what},
         w.step = AfterReads(v.reads \cup {what}),
         w.po \subseteq ByOrder(mine, q), w.invoice \subseteq ByInvoice(mine, q),
         w.shipment \subseteq mine, w.raw \subseteq mine, w.hits = v.hits, w.left = v.left,
         what # "po" => w.po = v.po, what # "invoice" => w.invoice = v.invoice,
         what # "raw" => w.raw = v.raw,
         what = "po" => Fetched(w.po, ByOrder(before, q), ByOrder(mine, q)),
         what = "invoice" => Fetched(w.invoice, ByInvoice(before, q), ByInvoice(mine, q)),
         what = "raw" => {d \in before : d.isa = q} \subseteq w.raw
  PROVE  WorkOK(q, before, mine, w)
<1>1. Orders(w) = Orders(v)
  BY DEF Orders
<1>2. HitsOK(w, mine)
  BY <1>1 DEF WorkOK, HitsOK
<1>3. w.reads \subseteq Reads /\ w.step \in {"rows", "shipment"} /\ (w.step # "rows" => w.reads = Reads)
  BY DEF WorkOK, Reads, AfterReads
<1>4. /\ "po" \in w.reads => Fetched(w.po, ByOrder(before, q), ByOrder(mine, q))
      /\ "invoice" \in w.reads => Fetched(w.invoice, ByInvoice(before, q), ByInvoice(mine, q))
      /\ "raw" \in w.reads => {d \in before : d.isa = q} \subseteq w.raw
  BY DEF WorkOK
<1> QED BY <1>1, <1>2, <1>3, <1>4 DEF WorkOK, Steps

\* w is v with s as what the read of what found.
GoesInto(v, what, s, w) ==
  /\ WorkShape(w) /\ w.hits = v.hits /\ w.left = v.left /\ w.reads = v.reads \cup {what}
  /\ w.step = AfterReads(v.reads \cup {what})
  /\ w.po = IF what = "po" THEN s ELSE v.po
  /\ w.invoice = IF what = "invoice" THEN s ELSE v.invoice
  /\ w.shipment = IF what = "shipment" THEN s ELSE v.shipment
  /\ w.raw = IF what = "raw" THEN s ELSE v.raw

LEMMA ReadIntoIs ==
  ASSUME NEW v, WorkShape(v), NEW what \in Reads, NEW s
  PROVE  GoesInto(v, what, s, ReadInto(v, what, s))
<1>1. PICK u : u = Filled(v, what, s)
  OBVIOUS
<1>2. /\ WorkShape(u) /\ u.hits = v.hits /\ u.left = v.left
      /\ u.po = IF what = "po" THEN s ELSE v.po
      /\ u.invoice = IF what = "invoice" THEN s ELSE v.invoice
      /\ u.shipment = IF what = "shipment" THEN s ELSE v.shipment
      /\ u.raw = IF what = "raw" THEN s ELSE v.raw
  <2>1. CASE what = "po"
    BY <1>1, <2>1 DEF WorkShape, Filled
  <2>2. CASE what = "invoice"
    BY <1>1, <2>2 DEF WorkShape, Filled
  <2>3. CASE what = "shipment"
    BY <1>1, <2>3 DEF WorkShape, Filled
  <2>4. CASE what = "raw"
    BY <1>1, <2>4 DEF WorkShape, Filled
  <2> QED BY <2>1, <2>2, <2>3, <2>4 DEF Reads
<1>3. PICK g, a : g = v.reads \cup {what} /\ a = AfterReads(v.reads \cup {what})
  OBVIOUS
<1>4. ReadInto(v, what, s) = [u EXCEPT !.reads = g, !.step = a]
  BY <1>1, <1>3 DEF ReadInto
<1> QED BY <1>2, <1>3, <1>4 DEF WorkShape, GoesInto

LEMMA ReadRowsFinds ==
  ASSUME HubHolds, NEW r \in requests, NEW what \in Reads, ReadRows(r, what)
  PROVE  HubHolds'
<1>1. Searching(r) /\ r.work # None /\ r.work.step = "rows"
  BY DEF ReadRows
<1>2. PICK s \in Finds(r, what) : Work(r, ReadInto(r.work, what, s))
  BY DEF ReadRows
<1>3. PICK v, mine, before, q : v = r.work /\ mine = Mine(r) /\ before = Before(r) /\ q = r.q
  OBVIOUS
<1>4. /\ Own(r) = mine /\ before \subseteq mine /\ IsFiniteSet(mine)
      /\ WorkOK(q, before, mine, v) /\ WorkShape(v) /\ v.step = "rows"
  BY <1>1, <1>3, SearchesFor DEF WorkOK
<1>5. PICK w : w = ReadInto(v, what, s)
  OBVIOUS
<1>6. /\ WorkShape(w) /\ w.hits = v.hits /\ w.left = v.left /\ w.reads = v.reads \cup {what}
      /\ w.step = AfterReads(v.reads \cup {what})
      /\ w.po = IF what = "po" THEN s ELSE v.po
      /\ w.invoice = IF what = "invoice" THEN s ELSE v.invoice
      /\ w.shipment = IF what = "shipment" THEN s ELSE v.shipment
      /\ w.raw = IF what = "raw" THEN s ELSE v.raw
  <2>1. GoesInto(v, what, s, w)
    BY <1>4, <1>5, ReadIntoIs
  <2> QED BY <2>1 DEF GoesInto
<1>7. /\ v.po \subseteq ByOrder(mine, q) /\ v.invoice \subseteq ByInvoice(mine, q)
      /\ v.shipment \subseteq mine /\ v.raw \subseteq mine
  BY <1>4 DEF WorkOK
<1>8. /\ ByOrder(before, q) \subseteq ByOrder(mine, q) /\ ByOrder(mine, q) \subseteq mine
      /\ ByInvoice(before, q) \subseteq ByInvoice(mine, q) /\ ByInvoice(mine, q) \subseteq mine
  BY <1>4 DEF ByOrder, ByInvoice
<1>9. IsFiniteSet(ByOrder(mine, q)) /\ IsFiniteSet(ByInvoice(mine, q))
  BY <1>4, <1>8, FS_Subset
<1>10. WorkOK(q, before, mine, w)
  <2>1. CASE what = "po"
    <3>1. s \in SomeOf(ByOrder(mine, q))
      BY <1>3, <1>4, <2>1 DEF Finds, ByOrder
    <3>2. s \subseteq ByOrder(mine, q) /\ Fetched(s, ByOrder(before, q), ByOrder(mine, q))
      BY <1>8, <1>9, <3>1, SomeAreFetched DEF SomeOf
    <3> QED BY <1>4, <1>6, <1>7, <2>1, <3>2, ReadsGoOn
  <2>2. CASE what = "invoice"
    <3>1. s \in SomeOf(ByInvoice(mine, q))
      BY <1>3, <1>4, <2>2 DEF Finds, ByInvoice
    <3>2. s \subseteq ByInvoice(mine, q) /\ Fetched(s, ByInvoice(before, q), ByInvoice(mine, q))
      BY <1>8, <1>9, <3>1, SomeAreFetched DEF SomeOf
    <3> QED BY <1>4, <1>6, <1>7, <2>2, <3>2, ReadsGoOn
  <2>3. CASE what = "shipment"
    <3>1. s \subseteq mine
      BY <1>4, <2>3 DEF Finds, SomeOf
    <3> QED BY <1>4, <1>6, <1>7, <2>3, <3>1, ReadsGoOn
  <2>4. CASE what = "raw"
    <3>1. s = {d \in mine : d.isa = q}
      BY <1>3, <1>4, <2>4 DEF Finds
    <3>2. s \subseteq mine /\ {d \in before : d.isa = q} \subseteq s
      BY <1>4, <3>1
    <3> QED BY <1>4, <1>6, <1>7, <2>4, <3>2, ReadsGoOn
  <2> QED BY <2>1, <2>2, <2>3, <2>4 DEF Reads
<1> QED BY <1>1, <1>2, <1>3, <1>5, <1>10, Worked

Less == {pair \in Nat \X Nat : pair[1] < pair[2]}

LEMMA LessIsWellFounded == IsWellFoundedOn(Less, Nat)
BY NatLessThanWellFounded, SMT DEF OpToRel, Less

LEMMA LeastNumber ==
  ASSUME NEW S, S \subseteq Nat, S # {}
  PROVE  \E n \in S : \A m \in S : n <= m
<1>1. PICK n \in S : \A m \in S : ~ (<<m, n>> \in Less)
  BY LessIsWellFounded, WFMin
<1>2. \A m \in S : ~ (m < n)
  BY <1>1 DEF Less
<1> QED BY <1>2

\* Of the rows with the shipment, one has the least id.
LEMMA SpineIsFound ==
  ASSUME NEW r, Own(r) \subseteq Docs, NEW e \in Own(r), e.ship = r.q, e.po # None
  PROVE  \E d \in Own(r) : d.ship = r.q /\ d.po = SpineOf(r) /\ SpineOf(r) # None
<1>1. PICK those : those = {d \in Own(r) : d.ship = r.q /\ d.po # None}
  OBVIOUS
<1>2. PICK ids : ids = {d.id : d \in those}
  OBVIOUS
<1>3. ids \subseteq Nat /\ ids # {}
  BY <1>1, <1>2, SearchAssumption
<1>4. PICK n \in ids : \A m \in ids : n <= m
  BY <1>3, LeastNumber
<1>5. PICK d \in those : d.id = n
  BY <1>2
<1>6. \A x \in those : d.id <= x.id
  BY <1>2, <1>4, <1>5
<1>7. PICK c : c = CHOOSE x \in those : \A y \in those : x.id <= y.id
  OBVIOUS
<1>8. c \in those
  BY <1>5, <1>6, <1>7
<1>9. SpineOf(r) = c.po
  BY <1>1, <1>5, <1>7 DEF SpineOf
<1> QED BY <1>1, <1>8, <1>9

LEMMA SpineIsOwn ==
  ASSUME NEW r, Own(r) \subseteq Docs, SpineOf(r) # None
  PROVE  \E d \in Own(r) : d.po = SpineOf(r)
<1>1. PICK e \in Own(r) : e.ship = r.q /\ e.po # None
  BY DEF SpineOf
<1> QED BY <1>1, SpineIsFound

\* Hits are added, and the step goes on.
LEMMA HitsGoOn ==
  ASSUME NEW q, NEW before, NEW mine, NEW v, NEW w,
         WorkOK(q, before, mine, v), v.step # "rows", WorkShape(w), HitsOK(w, mine),
         Orders(v) \subseteq Orders(w),
         w.reads = v.reads, w.po = v.po, w.invoice = v.invoice, w.shipment = v.shipment, w.raw = v.raw,
         w.step \in {"invoices", "orders", "send"}, v.left \subseteq w.left,
         v.step = "shipment" /\ (\E d \in before : d.ship = q /\ d.po # None) /\ w.left = {} =>
           \E d \in mine : d.ship = q /\ d.po \in Orders(w),
         v.step \in {"shipment", "invoices"} /\ w.step \in {"orders", "send"} =>
           \A d \in w.invoice : d.po # None => d.po \in Orders(w) \cup w.left
  PROVE  WorkOK(q, before, mine, w)
<1>1. w.step \in Steps /\ w.reads = Reads
  BY DEF WorkOK, Steps
<1>2. (\E d \in before : d.ship = q /\ d.po # None) /\ w.left = {} =>
        \E d \in mine : d.ship = q /\ d.po \in Orders(w)
  <2>1. w.left = {} => v.left = {}
    OBVIOUS
  <2> QED BY <2>1 DEF WorkOK, Steps
<1>3. w.step \in {"orders", "send"} => \A d \in w.invoice : d.po # None => d.po \in Orders(w) \cup w.left
  BY DEF WorkOK, Steps
<1> QED BY <1>1, <1>2, <1>3 DEF WorkOK

LEMMA SearchShipmentFinds ==
  ASSUME HubHolds, NEW r \in requests, SearchShipment(r)
  PROVE  HubHolds'
<1>1. Searching(r) /\ r.work # None /\ r.work.step = "shipment"
  BY DEF SearchShipment
<1>2. PICK v, mine, before, q, po : v = r.work /\ mine = Mine(r) /\ before = Before(r) /\ q = r.q /\ po = SpineOf(r)
  OBVIOUS
<1>3. /\ Own(r) = mine /\ before \subseteq mine /\ mine \subseteq Docs
      /\ WorkOK(q, before, mine, v) /\ WorkShape(v) /\ HitsOK(v, mine)
  BY <1>1, <1>2, SearchesFor DEF WorkOK
<1>4. PICK u : u = IF po = None THEN v ELSE Push(r, v, po, "shipment")
  OBVIOUS
<1>5. /\ WorkShape(u) /\ HitsOK(u, mine) /\ Orders(v) \subseteq Orders(u)
      /\ po # None => po \in Orders(u)
      /\ u.reads = v.reads /\ u.po = v.po /\ u.invoice = v.invoice
      /\ u.shipment = v.shipment /\ u.raw = v.raw /\ u.left = v.left
  <2>1. CASE po = None
    BY <1>3, <1>4, <2>1
  <2>2. CASE po # None
    <3>1. \E d \in Own(r) : d.po = po
      BY <1>2, <1>3, <2>2, SpineIsOwn
    <3> QED BY <1>3, <1>4, <2>2, <3>1, PushOK
  <2> QED BY <2>1, <2>2
<1>6. PICK w : w = [u EXCEPT !.step = "invoices"]
  OBVIOUS
<1>7. Work(r, w)
  BY <1>2, <1>4, <1>6 DEF SearchShipment
<1>8. /\ WorkShape(w) /\ w.hits = u.hits /\ w.step = "invoices"
      /\ w.reads = v.reads /\ w.po = v.po /\ w.invoice = v.invoice
      /\ w.shipment = v.shipment /\ w.raw = v.raw /\ w.left = v.left
  BY <1>5, <1>6 DEF WorkShape
<1>9. Orders(w) = Orders(u) /\ HitsOK(w, mine)
  <2>1. Orders(w) = Orders(u)
    BY <1>8 DEF Orders
  <2> QED BY <1>5, <1>8, <2>1 DEF HitsOK
<1>10. (\E d \in before : d.ship = q /\ d.po # None) => \E d \in mine : d.ship = q /\ d.po \in Orders(w)
  <2> SUFFICES ASSUME NEW e \in before, e.ship = q, e.po # None
               PROVE  \E d \in mine : d.ship = q /\ d.po \in Orders(w)
    OBVIOUS
  <2>1. \E d \in Own(r) : d.ship = r.q /\ d.po = SpineOf(r) /\ SpineOf(r) # None
    BY <1>2, <1>3, SpineIsFound
  <2> QED BY <1>2, <1>3, <1>5, <1>9, <2>1
<1>11. WorkOK(q, before, mine, w)
  BY <1>1, <1>2, <1>3, <1>5, <1>8, <1>9, <1>10, HitsGoOn
<1> QED BY <1>1, <1>2, <1>7, <1>11, Worked

LEMMA SearchInvoiceFinds ==
  ASSUME HubHolds, NEW r \in requests, SearchInvoice(r)
  PROVE  HubHolds'
<1>1. Searching(r) /\ r.work # None /\ r.work.step = "invoices"
  BY DEF SearchInvoice
<1>2. PICK v, mine, before, q : v = r.work /\ mine = Mine(r) /\ before = Before(r) /\ q = r.q
  OBVIOUS
<1>3. /\ Own(r) = mine /\ before \subseteq mine /\ mine \subseteq Docs
      /\ WorkOK(q, before, mine, v) /\ WorkShape(v) /\ HitsOK(v, mine)
      /\ v.invoice \subseteq mine
  BY <1>1, <1>2, SearchesFor DEF WorkOK, ByInvoice
<1>4. CASE Unseen(v, v.invoice) = {}
  <2>1. PICK w : w = [v EXCEPT !.step = "orders"]
    OBVIOUS
  <2>2. Work(r, w)
    BY <1>2, <1>4, <2>1 DEF SearchInvoice
  <2>3. /\ WorkShape(w) /\ w.hits = v.hits /\ w.step = "orders"
        /\ w.reads = v.reads /\ w.po = v.po /\ w.invoice = v.invoice
        /\ w.shipment = v.shipment /\ w.raw = v.raw /\ w.left = v.left
    BY <1>3, <2>1 DEF WorkShape
  <2>4. Orders(w) = Orders(v) /\ HitsOK(w, mine)
    BY <1>3, <2>3 DEF Orders, HitsOK
  <2>5. \A d \in w.invoice : d.po # None => d.po \in Orders(w) \cup w.left
    BY <1>4, <2>3, <2>4 DEF Unseen
  <2>6. WorkOK(q, before, mine, w)
    BY <1>1, <1>2, <1>3, <2>3, <2>4, <2>5, HitsGoOn
  <2> QED BY <1>1, <1>2, <2>2, <2>6, Worked
<1>5. CASE Unseen(v, v.invoice) # {}
  <2>1. PICK d \in Unseen(v, v.invoice) : Work(r, Push(r, v, d.po, "invoice"))
    BY <1>2, <1>5 DEF SearchInvoice
  <2>2. PICK w : w = Push(r, v, d.po, "invoice")
    OBVIOUS
  <2>3. /\ WorkShape(w) /\ HitsOK(w, mine) /\ Orders(v) \subseteq Orders(w)
        /\ w.step = v.step /\ w.reads = v.reads /\ w.po = v.po /\ w.invoice = v.invoice
        /\ w.shipment = v.shipment /\ w.raw = v.raw /\ w.left = v.left
    BY <1>3, <2>2, PushOK
  <2>4. WorkOK(q, before, mine, w)
    BY <1>1, <1>2, <1>3, <2>3, HitsGoOn
  <2> QED BY <1>1, <1>2, <2>1, <2>2, <2>4, Worked
<1> QED BY <1>4, <1>5

LEMMA SearchAgainFinds ==
  ASSUME HubHolds, NEW r \in requests, SearchAgain(r)
  PROVE  HubHolds'
<1>1. Searching(r) /\ r.work # None /\ r.work.step = "orders"
  BY DEF SearchAgain
<1>2. PICK v, mine, before, q : v = r.work /\ mine = Mine(r) /\ before = Before(r) /\ q = r.q
  OBVIOUS
<1>3. /\ Own(r) = mine /\ mine \subseteq Docs
      /\ WorkOK(q, before, mine, v) /\ WorkShape(v) /\ HitsOK(v, mine)
  BY <1>1, <1>2, SearchesFor DEF WorkOK
<1>4. PICK u : u = IF Unseen(v, v.po) = {} THEN v ELSE Push(r, v, q, "po")
  OBVIOUS
<1>5. /\ WorkShape(u) /\ HitsOK(u, mine) /\ Orders(v) \subseteq Orders(u)
      /\ u.reads = v.reads /\ u.po = v.po /\ u.invoice = v.invoice
      /\ u.shipment = v.shipment /\ u.raw = v.raw /\ u.left = v.left
  BY <1>3, <1>4, PushOK
<1>6. PICK w : w = [u EXCEPT !.step = "send"]
  OBVIOUS
<1>7. Work(r, w)
  BY <1>2, <1>4, <1>6 DEF SearchAgain
<1>8. /\ WorkShape(w) /\ w.hits = u.hits /\ w.step = "send"
      /\ w.reads = v.reads /\ w.po = v.po /\ w.invoice = v.invoice
      /\ w.shipment = v.shipment /\ w.raw = v.raw /\ w.left = v.left
  BY <1>5, <1>6 DEF WorkShape
<1>9. Orders(w) = Orders(u) /\ HitsOK(w, mine)
  <2>1. Orders(w) = Orders(u)
    BY <1>8 DEF Orders
  <2> QED BY <1>5, <1>8, <2>1 DEF HitsOK
<1>10. WorkOK(q, before, mine, w)
  BY <1>1, <1>2, <1>3, <1>5, <1>8, <1>9, HitsGoOn
<1> QED BY <1>1, <1>2, <1>7, <1>10, Worked

\* What fails of the shipment is passed over.
LEMMA PassesOverFinds ==
  ASSUME HubHolds, NEW r \in requests, PassesOver(r)
  PROVE  HubHolds'
<1>1. PICK v, mine, before, q : v = r.work /\ mine = Mine(r) /\ before = Before(r) /\ q = r.q
  OBVIOUS
<1>2. Searching(r) /\ v # None
  BY <1>1, PassesOverIs, Zenon
<1>3. WorkOK(q, before, mine, v) /\ WorkShape(v) /\ HitsOK(v, mine)
  BY <1>1, <1>2, SearchesFor DEF WorkOK
<1>4. CASE v.step = "rows"
  <2>1. PICK w : w = ReadInto(v, "shipment", {})
    OBVIOUS
  <2>2. Work(r, w)
    <3>1. v.step # "shipment"
      BY <1>4
    <3> QED BY <1>1, <2>1, <3>1, PassesOverIs, Zenon
  <2>3. GoesInto(v, "shipment", {}, w)
    BY <1>3, <2>1, ReadIntoIs DEF Reads
  <2>4. /\ v.po \subseteq ByOrder(mine, q) /\ v.invoice \subseteq ByInvoice(mine, q)
        /\ v.shipment \subseteq mine /\ v.raw \subseteq mine
    BY <1>3 DEF WorkOK
  <2>5. /\ WorkShape(w) /\ w.hits = v.hits /\ w.left = v.left /\ w.reads = v.reads \cup {"shipment"}
        /\ w.step = AfterReads(v.reads \cup {"shipment"})
        /\ w.po = v.po /\ w.invoice = v.invoice /\ w.shipment = {} /\ w.raw = v.raw
    BY <2>3 DEF GoesInto
  <2>6. WorkOK(q, before, mine, w)
    BY <1>3, <1>4, <2>4, <2>5, ReadsGoOn DEF Reads
  <2> QED BY <1>1, <1>2, <2>2, <2>6, Worked
<1>5. CASE v.step # "rows"
  <2>1. PICK po : Work(r, [v EXCEPT !.step = "invoices", !.left = {po}]) /\ v.step = "shipment"
    BY <1>1, <1>5, PassesOverIs, Zenon
  <2>2. PICK w : w = [v EXCEPT !.step = "invoices", !.left = {po}]
    OBVIOUS
  <2>3. /\ WorkShape(w) /\ w.hits = v.hits /\ w.step = "invoices" /\ w.left = {po}
        /\ w.reads = v.reads /\ w.po = v.po /\ w.invoice = v.invoice
        /\ w.shipment = v.shipment /\ w.raw = v.raw
    BY <1>3, <2>2 DEF WorkShape
  <2>4. Orders(w) = Orders(v) /\ HitsOK(w, mine)
    BY <1>3, <2>3 DEF Orders, HitsOK
  <2>5. WorkOK(q, before, mine, w)
    BY <1>3, <2>1, <2>3, <2>4 DEF WorkOK, Steps
  <2> QED BY <1>1, <1>2, <2>1, <2>2, <2>5, Worked
<1> QED BY <1>4, <1>5

LEMMA SentIsOK ==
  ASSUME NEW by, NEW tries, NEW who, NEW route, NEW q, q # None,
         by # None => q = by.q /\ who.org = Home
  PROVE  RequestOK(Request(by, tries, who, route, q, stored))
<1>1. PICK r : r = Request(by, tries, who, route, q, stored)
  OBVIOUS
<1>2. /\ RequestShape(r) /\ r.by = by /\ r.org = who.org /\ r.q = q /\ r.there = stored
      /\ r.stage = "sent" /\ r.work = None /\ r.route = route
  BY <1>1 DEF Request, RequestShape
<1>3. RequestOK(r)
  BY <1>2 DEF RequestOK, AskedOK, Searching
<1> QED BY <1>1, <1>3

LEMMA SentHolds ==
  ASSUME HubHolds, NEW S, S \subseteq requests, NEW x, RequestOK(x), requests' = S \cup {x},
         mode' = mode, stored' = stored
  PROVE  HubHolds'
<1>1. \A y \in requests' : RequestOK(y)
  BY DEF HubHolds
<1>2. \A y \in requests' : RequestOK(y)'
  BY <1>1, RequestStands DEF HubHolds
<1> QED BY <1>2 DEF HubHolds

LEMMA FetchIsOK ==
  ASSUME NEW k, NEW q, NEW tries, q # None, k.q = q
  PROVE  RequestOK(FetchOf(k, q, tries))
BY SentIsOK DEF FetchOf, Operator

LEMMA ObserveFinds ==
  ASSUME HubHolds, NEW k, NEW q, q # None, k.q = q, Observe(k, q)
  PROVE  HubHolds'
<1>1. mode' = mode /\ stored' = stored
  BY DEF Observe, ServerSame, hubVars
<1>2. CASE requests' = requests
  BY <1>1, <1>2, NoOneReplaced
<1>3. CASE requests' = requests \cup {FetchOf(k, q, 1)}
  BY <1>1, <1>3, FetchIsOK, SentHolds
<1> QED BY <1>2, <1>3 DEF Observe

LEMMA HandlerFinds ==
  ASSUME HubHolds, NEW r \in requests, SearchStep(r)
  PROVE  HubHolds'
BY SearchOrderFinds, ReadRowsFinds, SearchShipmentFinds, SearchInvoiceFinds, SearchAgainFinds, PassesOverFinds
DEF SearchStep

LEMMA StoreFinds ==
  ASSUME HubHolds, NEW d \in Docs, Store(d)
  PROVE  HubHolds'
<1>1. mode' = mode /\ requests' = requests /\ stored' = stored \cup {d}
  BY DEF Store, gateVars
<1>2. stored' \subseteq Docs /\ IsFiniteSet(stored') /\ stored \subseteq stored'
  BY <1>1, FS_AddElement DEF HubHolds
<1>3. \A y \in requests' : RequestOK(y)'
  BY <1>1, <1>2, RequestStands DEF HubHolds
<1> QED BY <1>1, <1>2, <1>3 DEF HubHolds

LEMMA HubNextFinds ==
  ASSUME HubHolds, OthersNext \/ HubNext
  PROVE  HubHolds'
<1>1. ASSUME NEW o \in Others, OtherSends(o)
      PROVE  HubHolds'
  <2>1. mode' = mode /\ stored' = stored /\ requests' = requests \cup {Request(None, 1, o, o.route, o.q, stored)}
    BY <1>1 DEF OtherSends, ServerSame, hubVars
  <2>2. RequestOK(Request(None, 1, o, o.route, o.q, stored))
    BY FinderAssumption, SentIsOK
  <2> QED BY <2>1, <2>2, SentHolds
<1>2. ASSUME NEW r \in requests, OtherDone(r)
      PROVE  HubHolds'
  BY <1>2, NoOneReplaced DEF OtherDone, ServerSame, hubVars
<1>3. ASSUME NEW r \in requests, Server(r)
      PROVE  HubHolds'
  BY <1>3, OnRequestFinds, LookUpFinds, PreHandlerFinds DEF Server
<1>4. ASSUME NEW r \in requests, Fails(r)
      PROVE  HubHolds'
  BY <1>4, Refused DEF Fails
<1>5. CASE Tick /\ UNCHANGED hubVars
  BY <1>5, NoOneReplaced DEF Tick, hubVars
<1> QED BY <1>1, <1>2, <1>3, <1>4, <1>5, HandlerFinds, StoreFinds DEF OthersNext, HubNext, Handler

LEMMA TabStays ==
  ASSUME TabOK, UNCHANGED tabVars, mode' = mode
  PROVE  TabOK'
<1>1. TenantMeant(Operator)' = TenantMeant(Operator)
  BY DEF TenantMeant, Operator
<1> QED BY <1>1 DEF TabOK, tabVars, EntryOK, Names

LEMMA HubNextKeepsTab ==
  ASSUME TabOK, OthersNext \/ HubNext
  PROVE  TabOK'
<1>1. UNCHANGED tabVars /\ mode' = mode
  <2>1. ASSUME NEW r \in requests, SearchStep(r)
        PROVE  mode' = mode
    <3>1. \A w : Work(r, w) => mode' = mode
      BY DEF Work
    <3>2. CASE SearchOrder(r)
      BY <3>1, <3>2 DEF SearchOrder
    <3>3. ASSUME NEW what \in Reads, ReadRows(r, what)
          PROVE  mode' = mode
      BY <3>1, <3>3 DEF ReadRows
    <3>4. CASE SearchShipment(r) \/ SearchInvoice(r) \/ SearchAgain(r)
      BY <3>1, <3>4 DEF SearchShipment, SearchInvoice, SearchAgain
    <3>5. CASE PassesOver(r)
      <4>1. \E w : Work(r, w)
        BY <3>5, PassesOverIs, Zenon
      <4> QED BY <3>1, <4>1
    <3> QED BY <2>1, <3>2, <3>3, <3>4, <3>5 DEF SearchStep
  <2>2. ASSUME NEW r \in requests, OtherDone(r) \/ Server(r) \/ Handler(r)
        PROVE  UNCHANGED tabVars /\ mode' = mode
    BY <2>1, <2>2 DEF OtherDone, Server, Handler, ServerSame, OnRequest, LookUp, PreHandler
  <2>3. ASSUME NEW r \in requests, Fails(r) /\ UNCHANGED tabVars
        PROVE  UNCHANGED tabVars /\ mode' = mode
    BY <2>3 DEF Fails
  <2>4. ASSUME NEW d \in Docs, Store(d) /\ UNCHANGED tabVars
        PROVE  UNCHANGED tabVars /\ mode' = mode
    BY <2>4 DEF Store, gateVars
  <2>5. CASE Tick /\ UNCHANGED <<hubVars, tabVars>>
    BY <2>5 DEF Tick
  <2>6. ASSUME NEW o \in Others, OtherSends(o)
        PROVE  UNCHANGED tabVars /\ mode' = mode
    BY <2>6 DEF OtherSends, ServerSame
  <2> QED BY <2>2, <2>3, <2>4, <2>5, <2>6 DEF OthersNext, HubNext
<1> QED BY <1>1, TabStays
-----------------------------------------------------------------------------
(* What the tab says of it.                                                *)

\* What is answered is whole: its rows are the caller's, and nothing that was
\* there and is named is missing.
LEMMA AnswerIsWhole ==
  ASSUME HubHolds, NEW r \in requests, Answered(r)
  PROVE  /\ WorkOK(r.q, Before(r), Mine(r), r.work) /\ IsFiniteSet(Mine(r))
         /\ r.work.reads = Reads
<1>1. WorkOK(r.q, Before(r), Mine(r), r.work) /\ IsFiniteSet(Mine(r)) /\ r.work.step = "send"
  BY SearchesFor DEF Answered
<1> QED BY <1>1 DEF WorkOK

\* What is answered of its rows, those there when it was asked, and its orders.
IsWhole(r, a, mine, there, orders) ==
  /\ a.txns \cup a.raw \subseteq mine
  /\ orders \subseteq {d.po : d \in mine}
  /\ Cardinality(orders) = Len(a.hits)
  /\ Cardinality({d \in mine : d.po = r.q}) <= Take =>
       \A d \in there : d.po = r.q => d \in a.txns /\ d.po \in orders
  /\ Cardinality({d \in mine : d.inv = r.q}) <= Take =>
       \A d \in there : d.inv = r.q => d \in a.txns /\ (d.po # None => d.po \in orders \cup r.work.left)
  /\ \A d \in there : d.isa = r.q => d \in a.raw
  /\ (\E d \in there : d.ship = r.q /\ d.po # None) /\ r.work.left = {} =>
       \E d \in mine : d.ship = r.q /\ d.po \in orders

LEMMA WholeFor ==
  ASSUME HubHolds, NEW r \in requests, Answered(r), NEW a, a = Answer(r),
         NEW mine, mine = Mine(r), NEW there, there = Before(r),
         NEW orders, orders = {a.hits[n].po : n \in DOMAIN a.hits}
  PROVE  IsWhole(r, a, mine, there, orders)
<1>1. PICK w, q : w = r.work /\ q = r.q
  OBVIOUS
<1>2. WorkOK(q, there, mine, w) /\ w.reads = Reads /\ w.step = "send"
  BY <1>1, AnswerIsWhole DEF Answered
<1>3. a.hits = w.hits /\ a.raw = w.raw /\ a.txns = w.po \cup w.invoice \cup w.shipment
  BY <1>1 DEF Answer
<1>4. orders = Orders(w)
  BY <1>3 DEF Orders
<1>5. a.txns \cup a.raw \subseteq mine
  BY <1>2, <1>3 DEF WorkOK, ByOrder, ByInvoice
<1>6. orders \subseteq {d.po : d \in mine} /\ Cardinality(orders) = Len(a.hits)
  BY <1>2, <1>3, <1>4 DEF WorkOK, HitsOK
<1>7. ASSUME Cardinality({d \in mine : d.po = q}) <= Take, NEW d \in there, d.po = q
      PROVE  d \in a.txns /\ d.po \in orders
  <2>1. d \in ByOrder(there, q) /\ Cardinality(ByOrder(mine, q)) <= Take
    BY <1>7 DEF ByOrder
  <2>2. Fetched(w.po, ByOrder(there, q), ByOrder(mine, q)) /\ q \in Orders(w)
    BY <1>2, <2>1 DEF WorkOK, Reads
  <2> QED BY <1>3, <1>4, <1>7, <2>1, <2>2 DEF Fetched
<1>8. ASSUME Cardinality({d \in mine : d.inv = q}) <= Take, NEW d \in there, d.inv = q
      PROVE  d \in a.txns /\ (d.po # None => d.po \in orders \cup r.work.left)
  <2>1. d \in ByInvoice(there, q) /\ Cardinality(ByInvoice(mine, q)) <= Take
    BY <1>8 DEF ByInvoice
  <2>2. Fetched(w.invoice, ByInvoice(there, q), ByInvoice(mine, q))
    BY <1>2 DEF WorkOK, Reads
  <2>3. d \in w.invoice
    BY <2>1, <2>2 DEF Fetched
  <2>4. \A e \in w.invoice : e.po # None => e.po \in Orders(w) \cup w.left
    BY <1>2 DEF WorkOK
  <2> QED BY <1>1, <1>3, <1>4, <2>3, <2>4
<1>9. \A d \in there : d.isa = q => d \in a.raw
  BY <1>2, <1>3 DEF WorkOK, Reads
<1>10. (\E d \in there : d.ship = q /\ d.po # None) /\ r.work.left = {} => \E d \in mine : d.ship = q /\ d.po \in orders
  BY <1>1, <1>2, <1>4 DEF WorkOK
<1> QED BY <1>1, <1>5, <1>6, <1>7, <1>8, <1>9, <1>10 DEF IsWhole

LEMMA HubIsWhole == HubHolds => WholeAnswers
<1> SUFFICES ASSUME HubHolds, NEW r \in requests, Answered(r)
             PROVE  LET a == Answer(r)
                        mine == {d \in stored : d.org = TenantMeant(r)}
                        there == {d \in r.there : d.org = TenantMeant(r)}
                        orders == {a.hits[n].po : n \in DOMAIN a.hits}
                        few(all) == Cardinality(all) <= Take
                    IN /\ a.txns \cup a.raw \subseteq mine
                       /\ orders \subseteq {d.po : d \in mine}
                       /\ Cardinality(orders) = Len(a.hits)
                       /\ few({d \in mine : d.po = r.q}) =>
                            \A d \in there : d.po = r.q => d \in a.txns /\ d.po \in orders
                       /\ few({d \in mine : d.inv = r.q}) =>
                            \A d \in there : d.inv = r.q => d \in a.txns /\ (d.po # None => d.po \in orders \cup r.work.left)
                       /\ \A d \in there : d.isa = r.q => d \in a.raw
                       /\ (\E d \in there : d.ship = r.q /\ d.po # None) /\ r.work.left = {} =>
                            \E d \in mine : d.ship = r.q /\ d.po \in orders
  BY DEF WholeAnswers
<1> DEFINE a == Answer(r)
           mine == Mine(r)
           there == Before(r)
           orders == {a.hits[n].po : n \in DOMAIN a.hits}
<1>1. /\ a = Answer(r) /\ mine = Mine(r) /\ there = Before(r)
      /\ orders = {a.hits[n].po : n \in DOMAIN a.hits}
  OBVIOUS
<1> HIDE DEF a, mine, there, orders
<1>2. IsWhole(r, a, mine, there, orders)
  BY <1>1, WholeFor
<1> USE DEF a, mine, there, orders
<1> QED BY <1>2 DEF IsWhole, Mine, Before

\* An answer without rows is given where nothing is named.
LEMMA NothingWasNamed ==
  ASSUME HubHolds, NEW r \in requests, Answered(r), NEW d \in Before(r), Names(d, r.q)
  PROVE  Answer(r).txns # {} \/ Answer(r).raw # {}
<1>1. PICK w, q, mine, before : w = r.work /\ q = r.q /\ mine = Mine(r) /\ before = Before(r)
  OBVIOUS
<1>2. WorkOK(q, before, mine, w) /\ w.reads = Reads
  BY <1>1, AnswerIsWhole
<1>3. Answer(r).raw = w.raw /\ Answer(r).txns = w.po \cup w.invoice \cup w.shipment
  BY <1>1 DEF Answer
<1>4. CASE d.po = q
  <2>1. ByOrder(before, q) # {}
    BY <1>1, <1>4 DEF ByOrder
  <2>2. w.po # {}
    BY <1>2, <2>1 DEF WorkOK, Reads, Fetched
  <2> QED BY <1>3, <2>2
<1>5. CASE d.inv = q
  <2>1. ByInvoice(before, q) # {}
    BY <1>1, <1>5 DEF ByInvoice
  <2>2. w.invoice # {}
    BY <1>2, <2>1 DEF WorkOK, Reads, Fetched
  <2> QED BY <1>3, <2>2
<1>6. CASE d.isa = q
  <2>1. d \in w.raw
    BY <1>1, <1>2, <1>6 DEF WorkOK, Reads
  <2> QED BY <1>3, <2>1
<1> QED BY <1>1, <1>4, <1>5, <1>6 DEF Names

\* Entries that stand, beside one that is put.
LEMMA PutIsOK ==
  ASSUME TabOK, NEW k, NEW c, EntryOK(k, c), Put(k, c), mode' = mode,
         UNCHANGED <<open, text, debounced, timer, page>>
  PROVE  TabOK'
<1>1. TenantMeant(Operator)' = TenantMeant(Operator)
  BY DEF TenantMeant, Operator
<1>2. \A x \in DOMAIN cache' : EntryOK(x, cache'[x])
  BY DEF Put, TabOK
<1>3. \A x \in DOMAIN cache' : EntryOK(x, cache[x])'
  BY <1>1, <1>2 DEF EntryOK, Names
<1> QED BY <1>3 DEF TabOK

LEMMA SameEntries ==
  ASSUME TabOK, cache' = cache, mode' = mode
  PROVE  \A k \in DOMAIN cache' : EntryOK(k, cache[k])'
<1>1. TenantMeant(Operator)' = TenantMeant(Operator)
  BY DEF TenantMeant, Operator
<1> QED BY <1>1 DEF TabOK, EntryOK, Names

LEMMA LandFinds ==
  ASSUME FindInv, NEW r \in requests, Land(r)
  PROVE  FindInv'
<1>1. HubHolds /\ TabOK /\ mode' = mode /\ stored' = stored /\ r.by # None /\ Answered(r)
  BY DEF FindInv, Land, ServerSame, hubVars
<1>2. requests' \subseteq requests
  BY DEF Land
<1>3. HubHolds'
  BY <1>1, <1>2, NoOneReplaced
<1>4. PICK c : c = [data |-> Answer(r), failed |-> FALSE, there |-> r.there,
                    stale |-> r.by.list = "search"]
  OBVIOUS
<1>5. c = [data |-> c.data, failed |-> c.failed, stale |-> c.stale, there |-> c.there]
      /\ c.data = Answer(r) /\ c.there = r.there
  BY <1>4
<1>6. r.q = r.by.q /\ r.org = Home
  BY <1>1 DEF HubHolds, RequestOK, AskedOK
<1>7. TenantMeant(Operator) = TenantMeant(r)
  BY <1>6 DEF TenantMeant, Operator
<1>8. EntryOK(r.by, c)
  <2> SUFFICES ASSUME c.data.txns = {}, c.data.raw = {},
                      NEW d \in c.there, d.org = TenantMeant(Operator), Names(d, r.by.q)
               PROVE  FALSE
    BY <1>5 DEF EntryOK
  <2>1. d \in Before(r)
    BY <1>5, <1>7 DEF Before
  <2> QED BY <1>1, <1>5, <1>6, <2>1, NothingWasNamed
<1>9. Put(r.by, c) /\ UNCHANGED <<open, text, debounced, timer, page>>
  BY <1>4 DEF Land
<1> QED BY <1>1, <1>3, <1>8, <1>9, PutIsOK DEF FindInv

LEMMA LandFailureFinds ==
  ASSUME FindInv, NEW r \in requests, LandFailure(r)
  PROVE  FindInv'
<1>1. HubHolds /\ TabOK /\ mode' = mode /\ stored' = stored /\ r.by # None
      /\ UNCHANGED <<open, text, debounced, timer, page>>
  BY DEF FindInv, LandFailure, ServerSame, hubVars
<1>2. r.q = r.by.q /\ r.q # None
  BY <1>1 DEF HubHolds, RequestOK, AskedOK
<1>3. CASE r.by.list = "search" /\ r.tries = 1
  <2>1. requests' = (requests \ {r}) \cup {FetchOf(r.by, r.q, 2)} /\ cache' = cache
    BY <1>3 DEF LandFailure
  <2>2. RequestOK(FetchOf(r.by, r.q, 2))
    BY <1>2, FetchIsOK
  <2>3. HubHolds'
    BY <1>1, <2>1, <2>2, SentHolds
  <2>4. \A k \in DOMAIN cache' : EntryOK(k, cache[k])'
    BY <1>1, <2>1, SameEntries
  <2> QED BY <1>1, <2>3, <2>4 DEF FindInv, TabOK
<1>4. CASE ~ (r.by.list = "search" /\ r.tries = 1)
  <2>1. PICK e : e = Entry(r.by)
    OBVIOUS
  <2>2. PICK c : c = [e EXCEPT !.failed = TRUE, !.stale = TRUE, !.there = r.there]
    OBVIOUS
  <2>3. Put(r.by, c) /\ requests' \subseteq requests
    BY <1>4, <2>1, <2>2 DEF LandFailure
  <2>4. e = [data |-> e.data, failed |-> e.failed, stale |-> e.stale, there |-> e.there]
    BY <1>1, <2>1 DEF Entry, TabOK, EntryOK
  <2>5. EntryOK(r.by, c)
    BY <2>2, <2>4 DEF EntryOK
  <2> QED BY <1>1, <2>3, <2>5, PutIsOK, NoOneReplaced DEF FindInv
<1> QED BY <1>3, <1>4

\* The tab's other actions.
LEMMA LowerIsAText == ASSUME NEW t \in Texts PROVE Lower[t] \in Texts /\ Lower[t] # None /\ t # None
BY FinderAssumption

LEMMA TabMoves ==
  ASSUME FindInv, HubHolds', cache' = cache, mode' = mode,
         text' \in Texts, debounced' \in Texts, page' \in Texts \cup {None},
         ~ timer' => debounced' = Lower[text']
  PROVE  FindInv'
<1>1. \A k \in DOMAIN cache' : EntryOK(k, cache[k])'
  BY SameEntries DEF FindInv
<1> QED BY <1>1 DEF FindInv, TabOK

LEMMA GateStands ==
  ASSUME FindInv, UNCHANGED <<gateVars, hubVars>>
  PROVE  HubHolds' /\ mode' = mode
<1>1. mode' = mode /\ stored' = stored /\ requests' = requests
  BY DEF gateVars, hubVars
<1> QED BY <1>1, NoOneReplaced DEF FindInv

LEMMA TabNextFinds ==
  ASSUME FindInv, TabNext
  PROVE  FindInv'
<1>0. /\ text \in Texts /\ debounced \in Texts /\ page \in Texts \cup {None} /\ HubHolds
      /\ ~ timer => debounced = Lower[text]
  BY DEF FindInv, TabOK
<1>c. Closed => text' \in Texts /\ debounced' \in Texts /\ debounced' = Lower[text']
  BY FinderAssumption DEF Closed
<1>1. CASE Toggle
  <2>1. UNCHANGED <<page, cache, gateVars, hubVars>>
    BY <1>1 DEF Toggle
  <2>2. HubHolds' /\ mode' = mode /\ page' = page /\ cache' = cache
    BY <2>1, GateStands
  <2>3. Closed \/ UNCHANGED <<text, debounced, timer>>
    BY <1>1 DEF Toggle
  <2> QED BY <1>0, <1>c, <2>2, <2>3, TabMoves
<1>2. ASSUME NEW t \in Texts, TypeText(t)
      PROVE  FindInv'
  <2>1. text' = t /\ timer' = TRUE /\ UNCHANGED <<debounced, page, cache, gateVars, hubVars>>
    BY <1>2 DEF TypeText
  <2> QED BY <1>0, <2>1, GateStands, TabMoves
<1>3. CASE Debounce
  <2>1. /\ debounced' = Lower[text] /\ UNCHANGED <<text, page, cache>> /\ debounced' # None
        /\ debounced' \in Texts
    BY <1>0, <1>3, LowerIsAText DEF Debounce
  <2>2. CASE UNCHANGED <<gateVars, hubVars>>
    BY <1>0, <2>1, <2>2, GateStands, TabMoves
  <2>3. CASE Observe(PaletteKey(debounced'), debounced')
    <3>1. PICK q : q = debounced'
      OBVIOUS
    <3>2. PaletteKey(q).q = q /\ Observe(PaletteKey(q), q) /\ q # None
      BY <2>1, <2>3, <3>1 DEF PaletteKey
    <3>3. HubHolds' /\ mode' = mode
      BY <1>0, <3>2, ObserveFinds DEF Observe, ServerSame
    <3> QED BY <1>0, <2>1, <3>3, TabMoves
  <2> QED BY <1>3, <2>2, <2>3 DEF Debounce
<1>4. ASSUME NEW item \in Items, Activate(item)
      PROVE  FindInv'
  <2>1. page' = None /\ Closed /\ UNCHANGED <<cache, gateVars, hubVars>>
    BY <1>4 DEF Activate
  <2> QED BY <1>0, <1>c, <2>1, GateStands, TabMoves
<1>5. ASSUME NEW t \in Texts, Submit(t)
      PROVE  FindInv'
  <2>1. page' = t /\ Observe(PageKey(t), t) /\ UNCHANGED <<text, debounced, timer, cache>>
    BY <1>5 DEF Submit
  <2>2. t # None /\ PageKey(t).q = t
    BY LowerIsAText DEF PageKey
  <2>3. HubHolds' /\ mode' = mode
    BY <1>0, <2>1, <2>2, ObserveFinds DEF Observe, ServerSame
  <2> QED BY <1>0, <2>1, <2>3, TabMoves
<1>6. CASE Retry
  <2>1. page # None /\ Observe(PageKey(page), page) /\ UNCHANGED tabVars
    BY <1>6 DEF Retry
  <2>2. PageKey(page).q = page
    BY DEF PageKey
  <2>3. HubHolds' /\ mode' = mode
    BY <1>0, <2>1, <2>2, ObserveFinds DEF Observe, ServerSame
  <2> QED BY <1>0, <2>1, <2>3, TabMoves DEF tabVars
<1>7. ASSUME NEW k \in DOMAIN cache, Age(k)
      PROVE  FindInv'
  <2>1. HubHolds' /\ mode' = mode /\ UNCHANGED <<open, text, debounced, timer, page>>
    BY <1>7, GateStands DEF Age
  <2>2. PICK c : c = [cache[k] EXCEPT !.stale = TRUE]
    OBVIOUS
  <2>3. EntryOK(k, cache[k])
    BY DEF FindInv, TabOK
  <2>4. EntryOK(k, c)
    BY <2>2, <2>3 DEF EntryOK
  <2>5. cache' = [cache EXCEPT ![k] = c]
    BY <1>7, <2>2 DEF Age
  <2>6. \A x \in DOMAIN cache' : EntryOK(x, cache'[x])
    BY <2>4, <2>5 DEF FindInv, TabOK
  <2>7. TenantMeant(Operator)' = TenantMeant(Operator)
    BY <2>1 DEF TenantMeant, Operator
  <2>8. \A x \in DOMAIN cache' : EntryOK(x, cache[x])'
    BY <2>6, <2>7 DEF EntryOK, Names
  <2> QED BY <1>0, <2>1, <2>8 DEF FindInv, TabOK
<1> QED BY <1>1, <1>2, <1>3, <1>4, <1>5, <1>6, <1>7, LandFinds, LandFailureFinds DEF TabNext

LEMMA FindInit == Init => FindInv
<1> SUFFICES ASSUME Init
             PROVE  FindInv
  OBVIOUS
<1>1. HubHolds
  BY SearchAssumption DEF Init, HubHolds
<1>2. TabOK
  BY FinderAssumption DEF Init, PaletteInit, TabOK
<1> QED BY <1>1, <1>2 DEF FindInv

LEMMA FindStep == FindInv /\ [Next]_vars => FindInv'
<1> SUFFICES ASSUME FindInv, [Next]_vars
             PROVE  FindInv'
  OBVIOUS
<1>1. CASE UNCHANGED vars
  <2>1. UNCHANGED <<gateVars, hubVars>> /\ UNCHANGED tabVars
    BY <1>1 DEF vars
  <2> QED BY <2>1, GateStands, TabStays DEF FindInv
<1>2. CASE OthersNext \/ HubNext
  BY <1>2, HubNextFinds, HubNextKeepsTab DEF FindInv
<1> QED BY <1>1, <1>2, TabNextFinds DEF Next

LEMMA TabIsRight == TabOK => NothingMeansNothing
<1> SUFFICES ASSUME TabOK
             PROVE  NothingMeansNothing
  OBVIOUS
<1> DEFINE named(k, q) == \E d \in Entry(k).there : d.org = TenantMeant(Operator) /\ (d.po = q \/ d.inv = q \/ d.isa = q)
<1>1. ASSUME NEW k, Entry(k).data.txns = {}, Entry(k).data.raw = {}, ~ Entry(k).failed
      PROVE  ~ named(k, k.q)
  <2>1. CASE k \in DOMAIN cache
    <3>1. EntryOK(k, cache[k]) /\ Entry(k) = cache[k]
      BY <2>1 DEF TabOK, Entry
    <3> QED BY <1>1, <3>1 DEF EntryOK, Names
  <2>2. CASE k \notin DOMAIN cache
    BY <2>2 DEF Entry
  <2> QED BY <2>1, <2>2
<1>2. PageSaysNone => ~ named(PageKey(page), page)
  <2> SUFFICES ASSUME PageSaysNone
               PROVE  ~ named(PageKey(page), page)
    OBVIOUS
  <2>1. PICK k : k = PageKey(page)
    OBVIOUS
  <2>2. Entry(k).data.txns = {} /\ Entry(k).data.raw = {} /\ ~ Entry(k).failed /\ k.q = page
    BY <2>1 DEF PageSaysNone, NoneFor, PageKey
  <2> QED BY <1>1, <2>1, <2>2
<1>3. PaletteSaysNone /\ ~ timer => \/ Entry(PaletteKey(debounced)).failed
                                   \/ ~ named(PaletteKey(Lower[text]), Lower[text])
  <2> SUFFICES ASSUME PaletteSaysNone, ~ timer, ~ Entry(PaletteKey(debounced)).failed
               PROVE  ~ named(PaletteKey(Lower[text]), Lower[text])
    OBVIOUS
  <2>1. debounced = Lower[text] /\ debounced \notin Short /\ Items = {}
    BY DEF TabOK, PaletteSaysNone
  <2>2. PICK k : k = PaletteKey(debounced)
    OBVIOUS
  <2>3. PICK a : a = Entry(k).data
    OBVIOUS
  <2>4. Results = a
    BY <2>1, <2>2, <2>3 DEF Results
  <2>5. a.txns = {} /\ a.raw = {}
    BY <2>1, <2>4 DEF Items
  <2>6. k.q = debounced
    BY <2>2 DEF PaletteKey
  <2> QED BY <1>1, <2>1, <2>2, <2>3, <2>5, <2>6
<1> QED BY <1>2, <1>3 DEF NothingMeansNothing

\* An answer is made of rows of the caller's tenant and leaves out none that were
\* stored before the request and that the text names, but for the order of a
\* shipment whose look-up failed; a screen that says nothing matches is right: for any tenants, callers, documents and number of rows a
\* query takes, however the requests' steps interleave with each other and with
\* what comes in (routes/search.ts:51-180, tenant-extension.ts:148-157,
\* CommandPalette.tsx:127-162, SearchPage.tsx:49-81).
THEOREM AnswersLeaveNothingOut == Spec => []AnswersAreWhole
<1>1. Spec => []FindInv
  BY FindInit, FindStep, PTL DEF Spec
<1>2. FindInv => AnswersAreWhole
  BY HubIsWhole, TabIsRight DEF FindInv, AnswersAreWhole
<1> QED BY <1>1, <1>2, PTL
=============================================================================
