------------------------- MODULE ConfirmationProofs -------------------------
(***************************************************************************)
(* Theorems about Confirmation: for any originals and acknowledgments, any *)
(* keys they name, any number of parse calls at once and any bounds.  Both *)
(* invariants compare the tree with the history; the proofs say, step by   *)
(* step, what one more entry of the history changes.                       *)
(***************************************************************************)
EXTENDS Confirmation, FiniteSetTheorems, WellFoundedInduction, TLAPS

Directions == {"unknown", "outbound", "inbound"}
Trees   == [direction : Directions, confirmed : Nat]
Kinds   == {"parse", "direct", "scan", "apply", "abort"}
Entries == [kind : Kinds, file : Files \cup {None}, direction : Directions \cup {None}]

TypeOK ==
  /\ at \in [Files -> Nat]
  /\ status \in [Files -> {None, "RECEIVED", "PARSED", "PARSE_ERROR"}]
  /\ tree \in [Files -> Trees \cup {None}]
  /\ ours \in BOOLEAN
  /\ parser \in [Parsers -> [file : Files \cup {None}, read : BOOLEAN \cup {None}]]
  /\ backfill \subseteq Acks
  /\ direct \in [todo : SUBSET Files, gone : SUBSET Files]
  /\ log \in Seq(Entries)

\* A file has a tree from its first parse on; what works on a file works on one
\* that was stored, or has a tree.
StoredFirst ==
  /\ \A f \in Files : status[f] \in {"PARSED", "PARSE_ERROR"} <=> tree[f] # None
  /\ \A f \in Files : status[f] # None <=> at[f] # 0
  /\ \A p \in Parsers : parser[p].file # None => status[parser[p].file] # None
  /\ \A a \in backfill : tree[a] # None
  /\ \A f \in direct.todo : tree[f] # None

\* The history has the parse of every tree, and its direction; an acknowledgment
\* that a script applies was parsed before.
Current(f) == Last(At({"parse", "direct"}, f))

Chronicle ==
  /\ \A f \in Files : tree[f] # None <=> At({"parse"}, f) # {}
  /\ \A f \in Files : tree[f] # None => tree[f].direction = log[Current(f)].direction
  /\ \A i \in DOMAIN log :
       /\ log[i].kind \in {"parse", "direct", "apply"} => log[i].file \in Files /\ at[log[i].file] # 0
       /\ log[i].kind = "parse" => \E c \in BOOLEAN : log[i].direction = Direction(log[i].file, c)
       /\ log[i].kind = "direct" => log[i].direction = Direction(log[i].file, TRUE)
       /\ log[i].kind = "apply" =>
            \E j \in 1..(i - 1) : log[j].kind = "parse" /\ log[j].file = log[i].file

\* The second conjunct of ConfirmedByFirst.
ByFirst ==
  \A o \in Originals :
    tree[o] # None =>
      tree[o].confirmed = IF Applied(o) = {} THEN 0 ELSE at[log[Min(Applied(o))].file]
-----------------------------------------------------------------------------
(* Least and greatest elements of sets of naturals.                        *)

LEMMA LeastExists ==
  ASSUME NEW S \in SUBSET Nat, S # {}
  PROVE  \E m \in S : \A k \in S : m <= k
<1>1. IsWellFoundedOn(OpToRel(<, Nat), Nat)
  BY NatLessThanWellFounded
<1>2. PICK m \in S : \A k \in S : <<k, m>> \notin OpToRel(<, Nat)
  BY <1>1, WFMin
<1>3. \A k \in S : ~(k < m)
  BY <1>2 DEF OpToRel
<1> QED
  BY <1>3

LEMMA MinIs ==
  ASSUME NEW S \in SUBSET Nat, S # {}
  PROVE  Min(S) \in S /\ \A k \in S : Min(S) <= k
BY LeastExists DEF Min

LEMMA GreatestExists ==
  ASSUME NEW n \in Nat, NEW S \in SUBSET (1..n), S # {}
  PROVE  \E m \in S : \A k \in S : m >= k
<1> DEFINE D == {n - k : k \in S}
<1>1. D \in SUBSET Nat /\ D # {}
  <2>1. \A k \in S : n - k \in Nat
    OBVIOUS
  <2> QED
    BY <2>1
<1>2. PICK d \in D : \A e \in D : d <= e
  <2> HIDE DEF D
  <2> QED
    BY <1>1, LeastExists
<1>3. PICK m \in S : d = n - m
  OBVIOUS
<1>4. ASSUME NEW k \in S PROVE m >= k
  <2>1. d <= n - k
    BY <1>2
  <2> QED
    BY <2>1, <1>3
<1> QED
  BY <1>4

\* Last of a set of places in the history: the greatest of them.
LEMMA LastIs ==
  ASSUME NEW n \in Nat, NEW S \in SUBSET (1..n)
  PROVE  /\ S = {} => Last(S) = 0
         /\ S # {} => Last(S) \in S /\ \A k \in S : k <= Last(S)
<1>1. CASE S = {}
  BY <1>1 DEF Last
<1>2. CASE S # {}
  BY <1>2, GreatestExists DEF Last, Max
<1> QED
  BY <1>1, <1>2

LEMMA LastIsNew ==
  ASSUME NEW n \in Nat, NEW S \in SUBSET (1..n)
  PROVE  Last(S \cup {n + 1}) = n + 1
<1>1. S \cup {n + 1} \in SUBSET (1..(n + 1)) /\ n + 1 \in Nat
  OBVIOUS
<1>2. \A k \in S \cup {n + 1} : k <= Last(S \cup {n + 1})
  BY <1>1, LastIs
<1>3. Last(S \cup {n + 1}) \in S \cup {n + 1}
  BY <1>1, LastIs
<1>4. Last(S \cup {n + 1}) \in 1..(n + 1) /\ n + 1 <= Last(S \cup {n + 1})
  BY <1>1, <1>2, <1>3
<1> QED
  BY <1>4

LEMMA MinIsKept ==
  ASSUME NEW n \in Nat, NEW S \in SUBSET (1..n), S # {}
  PROVE  Min(S \cup {n + 1}) = Min(S)
<1> DEFINE T == S \cup {n + 1}
<1>1. S \in SUBSET Nat /\ T \in SUBSET Nat /\ T # {}
  OBVIOUS
<1>2. Min(S) \in S /\ \A k \in S : Min(S) <= k
  BY <1>1, MinIs
<1>3. Min(T) \in T /\ \A k \in T : Min(T) <= k
  <2> HIDE DEF T
  <2> QED
    BY <1>1, MinIs
<1>4. Min(S) \in T /\ Min(S) \in 1..n /\ Min(T) \in Nat
  BY <1>1, <1>2, <1>3
<1>5. \A k \in T : k = n + 1 \/ k \in S
  OBVIOUS
<1> HIDE DEF T
<1>6. Min(T) <= Min(S)
  BY <1>3, <1>4
<1>7. Min(T) \in S
  BY <1>3, <1>4, <1>5, <1>6
<1>8. Min(S) <= Min(T)
  BY <1>2, <1>7
<1>9. Min(S) = Min(T)
  BY <1>4, <1>6, <1>8
<1> QED
  BY <1>9 DEF T

LEMMA MinOfOne == ASSUME NEW n \in Nat PROVE Min({n}) = n
BY MinIs DEF Min
-----------------------------------------------------------------------------
(* What one more entry changes of what the history says.                   *)

Grown(e) == e \in Entries /\ log' = Append(log, e)

LEMMA GrownLog ==
  ASSUME TypeOK, NEW e, Grown(e)
  PROVE  /\ Len(log) \in Nat /\ Len(log') = Len(log) + 1
         /\ DOMAIN log = 1..Len(log) /\ DOMAIN log' = 1..(Len(log) + 1)
         /\ \A i \in 1..Len(log) : log'[i] = log[i] /\ log[i] \in Entries
         /\ log'[Len(log) + 1] = e
         /\ log' \in Seq(Entries)
BY DEF TypeOK, Grown

LEMMA AtIsPlaces ==
  ASSUME TypeOK, NEW kinds, NEW f
  PROVE  Len(log) \in Nat /\ At(kinds, f) \in SUBSET (1..Len(log))
BY DEF TypeOK, At

LEMMA GrownAt ==
  ASSUME TypeOK, NEW e, Grown(e), NEW kinds, NEW f
  PROVE  At(kinds, f)' = IF e.kind \in kinds /\ e.file = f
                         THEN At(kinds, f) \cup {Len(log) + 1} ELSE At(kinds, f)
<1>1. /\ Len(log) \in Nat /\ log'[Len(log) + 1] = e
      /\ DOMAIN log = 1..Len(log) /\ DOMAIN log' = 1..(Len(log) + 1)
      /\ \A i \in 1..Len(log) : log'[i] = log[i]
  BY GrownLog
<1>2. \A i : i \in At(kinds, f)' <=> \/ i \in At(kinds, f)
                                     \/ i = Len(log) + 1 /\ e.kind \in kinds /\ e.file = f
  BY <1>1 DEF At
<1> QED
  BY <1>2

LEMMA GrownStored ==
  ASSUME TypeOK, NEW e, Grown(e), NEW f
  PROVE  Stored(f)' = IF e.kind = "parse" /\ e.file = f THEN Len(log) + 1 ELSE Stored(f)
<1>1. At({"parse"}, f)' = IF e.kind \in {"parse"} /\ e.file = f
                          THEN At({"parse"}, f) \cup {Len(log) + 1} ELSE At({"parse"}, f)
  BY GrownAt
<1>2. Last(At({"parse"}, f) \cup {Len(log) + 1}) = Len(log) + 1
  BY AtIsPlaces, LastIsNew
<1> QED
  BY <1>1, <1>2 DEF Stored

\* The direction of a row at an earlier moment is what it was.
LEMMA GrownThen ==
  ASSUME TypeOK, NEW e, Grown(e), NEW o, NEW i \in 1..(Len(log) + 1)
  PROVE  OutboundThen(o, i)' <=> OutboundThen(o, i)
<1> DEFINE S == {k \in At({"parse", "direct"}, o) : k < i}
<1>1. At({"parse", "direct"}, o)' \in {At({"parse", "direct"}, o), At({"parse", "direct"}, o) \cup {Len(log) + 1}}
  BY GrownAt
<1>2. Len(log) \in Nat /\ At({"parse", "direct"}, o) \in SUBSET (1..Len(log))
  BY AtIsPlaces
<1>3. S' = S
  BY <1>1, <1>2
<1>4. Last(S) # 0 => Last(S) \in 1..Len(log)
  <2>1. S \in SUBSET (1..Len(log))
    BY <1>2
  <2> HIDE DEF S
  <2> QED
    BY <2>1, <1>2, LastIs
<1>5. Last(S) # 0 => log'[Last(S)] = log[Last(S)]
  BY <1>4, GrownLog
<1>6. OutboundThen(o, i) = (Last(S) # 0 /\ log[Last(S)].direction = "outbound")
  BY DEF OutboundThen
<1>7. OutboundThen(o, i)' = (Last(S') # 0 /\ log'[Last(S')].direction = "outbound")
  BY DEF OutboundThen
<1> QED
  BY <1>3, <1>5, <1>6, <1>7

\* At the end of the history it is the direction that the row has.
LEMMA OutboundNow ==
  ASSUME TypeOK, Chronicle, NEW o \in Files, tree[o] # None
  PROVE  /\ OutboundThen(o, Len(log) + 1) <=> tree[o].direction = "outbound"
         /\ Current(o) \in At({"parse", "direct"}, o)
<1> DEFINE C == At({"parse", "direct"}, o)
<1>1. Len(log) \in Nat /\ C \in SUBSET (1..Len(log))
  BY AtIsPlaces
<1>2. C # {}
  <2>1. At({"parse"}, o) # {}
    BY DEF Chronicle
  <2> QED
    BY <2>1 DEF At
<1>3. {k \in C : k < Len(log) + 1} = C
  BY <1>1
<1>4. Last(C) \in C
  <2> HIDE DEF C
  <2> QED
    BY <1>1, <1>2, LastIs
<1>5. OutboundThen(o, Len(log) + 1) <=> Last(C) # 0 /\ log[Last(C)].direction = "outbound"
  BY <1>3 DEF OutboundThen
<1>6. tree[o].direction = log[Last(C)].direction
  BY DEF Chronicle, Current
<1> QED
  BY <1>1, <1>4, <1>5, <1>6 DEF Current
-----------------------------------------------------------------------------
(* The steps, as entries of the history and changes of the tree.           *)

LEMMA NoneFacts ==
  /\ None \notin Files /\ None \notin BOOLEAN /\ None \notin Trees
  /\ None \notin {"RECEIVED", "PARSED", "PARSE_ERROR"}
  /\ Originals \cap Acks = {} /\ Files = Originals \cup Acks
BY ConfirmationAssumption DEF Trees, Directions, Files

LEMMA DirectionType ==
  ASSUME NEW f, NEW c \in BOOLEAN
  PROVE  Direction(f, c) \in Directions
BY DEF Direction, Directions

LEMMA ConfirmFacts ==
  ASSUME at \in [Files -> Nat], NEW a \in Acks, NEW o, NEW t \in Trees \cup {None}
  PROVE  /\ Confirm(a, t, o) \in Trees \cup {None}
         /\ Confirm(a, t, o) = None <=> t = None
         /\ t # None =>
              /\ Confirm(a, t, o).direction = t.direction
              /\ Confirm(a, t, o).confirmed =
                   IF o \in Originals /\ t.direction = "outbound" /\ Acknowledges(a, o) /\ t.confirmed = 0
                   THEN at[a] ELSE t.confirmed
         /\ o \notin Originals => Confirm(a, t, o) = t
<1>1. None \notin Trees /\ at[a] \in Nat
  BY NoneFacts
<1> DEFINE u == [t EXCEPT !.confirmed = at[a]]
<1>2. t # None => u \in Trees /\ u.direction = t.direction /\ u.confirmed = at[a]
  BY <1>1 DEF Trees
<1>3. Confirm(a, t, o) = IF /\ o \in Originals /\ t # None
                            /\ t.direction = "outbound" /\ Key[o] \in Covers[a]
                            /\ t.confirmed = 0
                         THEN u ELSE t
  BY DEF Confirm
<1> HIDE DEF u
<1> QED
  BY <1>1, <1>2, <1>3 DEF Acknowledges

\* What the parse of f writes.
Parsed(f, d) == [kind |-> "parse", file |-> f, direction |-> d]

LEMMA CommitFacts ==
  ASSUME TypeOK, NEW p \in Parsers, Commit(p)
  PROVE  LET f == parser[p].file
             d == Direction(f, parser[p].read)
         IN /\ f \in Files /\ parser[p].read \in BOOLEAN
            /\ Grown(Parsed(f, d))
            /\ tree' \in [Files -> Trees \cup {None}]
            /\ tree'[f] = [direction |-> d, confirmed |-> 0]
            /\ \A o \in Files \ {f} :
                 tree'[o] = IF f \in Acks THEN Confirm(f, tree[o], o) ELSE tree[o]
            /\ status' = [status EXCEPT ![f] = FinalStatus(f)]
            /\ parser' = [parser EXCEPT ![p] = NoParse]
            /\ direct' \in [todo : {direct.todo}, gone : SUBSET Files]
            /\ UNCHANGED <<at, ours, backfill>>
<1> DEFINE f == parser[p].file
           d == Direction(f, parser[p].read)
           t == [direction |-> d, confirmed |-> 0]
           new == [tree EXCEPT ![f] = t]
<1>1. f \in Files /\ parser[p].read \in BOOLEAN
  BY NoneFacts DEF Commit, TypeOK
<1>2. d \in Directions
  BY <1>1, DirectionType
<1>3. t \in Trees
  BY <1>2 DEF Trees
<1>4. new \in [Files -> Trees \cup {None}] /\ new[f] = t /\ \A o \in Files \ {f} : new[o] = tree[o]
  BY <1>1, <1>3 DEF TypeOK
<1>5. tree' = IF f \in Acks THEN [o \in Files |-> Confirm(f, new[o], o)] ELSE new
  BY DEF Commit
<1>6. Grown(Parsed(f, d))
  <2>1. Parsed(f, d) \in Entries
    BY <1>1, <1>2 DEF Parsed, Entries, Kinds
  <2>2. log' = Append(log, Parsed(f, d))
    BY DEF Commit, Note, Parsed
  <2> QED
    BY <2>1, <2>2 DEF Grown
<1>7. direct' \in [todo : {direct.todo}, gone : SUBSET Files]
  BY <1>1 DEF Commit, TypeOK
<1>8. /\ status' = [status EXCEPT ![f] = FinalStatus(f)]
      /\ parser' = [parser EXCEPT ![p] = NoParse]
      /\ UNCHANGED <<at, ours, backfill>>
  BY DEF Commit
<1> HIDE DEF new, t
<1>9. CASE f \in Acks
  <2>1. f \notin Originals
    BY <1>9, NoneFacts
  <2>2. \A o \in Files : Confirm(f, new[o], o) \in Trees \cup {None}
    BY <1>4, <1>9, ConfirmFacts DEF TypeOK
  <2>3. Confirm(f, new[f], f) = t
    BY <1>1, <1>4, <1>9, <2>1, ConfirmFacts DEF TypeOK
  <2> QED
    BY <1>1, <1>4, <1>5, <1>6, <1>7, <1>8, <1>9, <2>2, <2>3 DEF t
<1>10. CASE f \notin Acks
  BY <1>1, <1>4, <1>5, <1>6, <1>7, <1>8, <1>10 DEF t
<1> QED
  BY <1>9, <1>10

LEMMA BackfillAckFacts ==
  ASSUME TypeOK, NEW a \in Acks, BackfillAck(a)
  PROVE  /\ Grown([kind |-> "apply", file |-> a, direction |-> None])
         /\ tree' \in [Files -> Trees \cup {None}]
         /\ \A o \in Files : tree'[o] = Confirm(a, tree[o], o)
         /\ backfill' = backfill \ {a} /\ a \in backfill
         /\ UNCHANGED <<at, status, ours, parser, direct>>
<1>1. \A o \in Files : Confirm(a, tree[o], o) \in Trees \cup {None}
  BY ConfirmFacts DEF TypeOK
<1>2. tree' = [o \in Files |-> Confirm(a, tree[o], o)]
  BY DEF BackfillAck
<1>3. Grown([kind |-> "apply", file |-> a, direction |-> None])
  BY NoneFacts DEF BackfillAck, Note, Grown, Entries, Kinds
<1> QED
  BY <1>1, <1>2, <1>3 DEF BackfillAck

LEMMA DirectUpdateFacts ==
  ASSUME TypeOK, StoredFirst, NEW f \in Files, DirectUpdate(f)
  PROVE  /\ Grown([kind |-> "direct", file |-> f, direction |-> Direction(f, TRUE)])
         /\ tree' \in [Files -> Trees \cup {None}]
         /\ tree[f] # None /\ tree'[f] # None
         /\ tree'[f].direction = Direction(f, TRUE) /\ tree'[f].confirmed = tree[f].confirmed
         /\ \A o \in Files \ {f} : tree'[o] = tree[o]
         /\ direct' = [direct EXCEPT !.todo = @ \ {f}]
         /\ UNCHANGED <<at, status, ours, parser, backfill>>
<1>1. tree[f] # None
  BY DEF DirectUpdate, StoredFirst
<1>2. tree[f] \in Trees /\ Direction(f, TRUE) \in Directions
  BY <1>1, DirectionType DEF TypeOK
<1> DEFINE t == [tree[f] EXCEPT !.direction = Direction(f, TRUE)]
<1>3. t \in Trees /\ t.direction = Direction(f, TRUE) /\ t.confirmed = tree[f].confirmed
  BY <1>2 DEF Trees
<1>4. tree' = [tree EXCEPT ![f] = t]
  BY DEF DirectUpdate
<1>5. Grown([kind |-> "direct", file |-> f, direction |-> Direction(f, TRUE)])
  BY <1>2 DEF DirectUpdate, Note, Grown, Entries, Kinds
<1> HIDE DEF t
<1>6. /\ tree' \in [Files -> Trees \cup {None}] /\ tree'[f] = t
      /\ \A o \in Files \ {f} : tree'[o] = tree[o]
  BY <1>3, <1>4 DEF TypeOK
<1>7. /\ direct' = [direct EXCEPT !.todo = @ \ {f}]
      /\ UNCHANGED <<at, status, ours, parser, backfill>>
  BY DEF DirectUpdate
<1>8. t # None
  BY <1>3, NoneFacts
<1> QED
  BY <1>1, <1>3, <1>5, <1>6, <1>7, <1>8

LEMMA ScanFacts ==
  ASSUME TypeOK, BackfillScan
  PROVE  /\ Grown([kind |-> "scan", file |-> None, direction |-> None])
         /\ backfill' = {a \in Acks : tree[a] # None}
         /\ UNCHANGED <<at, status, tree, ours, parser, direct>>
BY DEF BackfillScan, Note, Grown, Entries, Kinds

LEMMA AbortFacts ==
  ASSUME TypeOK, BackfillAbort
  PROVE  /\ Grown([kind |-> "abort", file |-> None, direction |-> None])
         /\ backfill' = {}
         /\ UNCHANGED <<at, status, tree, ours, parser, direct>>
BY DEF BackfillAbort, Note, Grown, Entries, Kinds

\* The steps that say nothing in the history and leave the trees alone.
Silent == \/ \E p \in Parsers : \/ Read(p) \/ GiveUp(p)
                               \/ \E f \in Files : Ingest(p, f) \/ Reparse(p, f)
          \/ SetOurIsaIds \/ DirectScan \/ DirectAbort
          \/ UNCHANGED vars

LEMMA StepKinds ==
  ASSUME [Next]_vars
  PROVE  \/ \E p \in Parsers : Commit(p)
         \/ \E a \in Acks : BackfillAck(a)
         \/ \E f \in Files : DirectUpdate(f)
         \/ BackfillScan \/ BackfillAbort \/ Silent
BY DEF Next, Parsing, Silent
-----------------------------------------------------------------------------
(* Types and bookkeeping.                                                  *)

LEMMA ClockType == ASSUME TypeOK PROVE Clock \in Nat
<1>1. {f \in Files : at[f] # 0} \in SUBSET Files /\ IsFiniteSet(Files)
  BY ConfirmationAssumption
<1> QED
  BY <1>1, FS_Subset, FS_CardinalityType DEF Clock

LEMMA IngestFacts ==
  ASSUME TypeOK, StoredFirst, NEW p \in Parsers, NEW f \in Files, Ingest(p, f)
  PROVE  TypeOK' /\ StoredFirst' /\ UNCHANGED <<tree, log, backfill>>
         /\ \A g \in Files : at[g] # 0 => at'[g] = at[g]
<1>1. Clock \in Nat
  BY ClockType
<1>2. at' = [at EXCEPT ![f] = Clock + 1] /\ Clock + 1 # 0 /\ Clock + 1 \in Nat
  BY <1>1 DEF Ingest
<1>3. /\ status[f] = None /\ status' = [status EXCEPT ![f] = "RECEIVED"]
      /\ parser' = [parser EXCEPT ![p].file = f]
      /\ UNCHANGED <<tree, ours, backfill, direct, log>>
  BY DEF Ingest
<1>4. at' \in [Files -> Nat] /\ at'[f] # 0 /\ \A g \in Files \ {f} : at'[g] = at[g]
  BY <1>2 DEF TypeOK
<1>5. /\ status' \in [Files -> {None, "RECEIVED", "PARSED", "PARSE_ERROR"}]
      /\ status'[f] = "RECEIVED" /\ \A g \in Files \ {f} : status'[g] = status[g]
  BY <1>3 DEF TypeOK
<1>6. parser' \in [Parsers -> [file : Files \cup {None}, read : BOOLEAN \cup {None}]]
  BY <1>3 DEF TypeOK
<1>7. \A q \in Parsers : parser'[q].file \in {f, parser[q].file}
  BY <1>3 DEF TypeOK
<1>8. at[f] = 0 /\ tree[f] = None
  BY <1>3, NoneFacts DEF StoredFirst
<1>9. TypeOK'
  BY <1>3, <1>4, <1>5, <1>6 DEF TypeOK
<1>10. StoredFirst'
  <2>1. \A g \in Files : status'[g] \in {"PARSED", "PARSE_ERROR"} <=> tree'[g] # None
    BY <1>3, <1>5, <1>8 DEF StoredFirst
  <2>2. \A g \in Files : status'[g] # None <=> at'[g] # 0
    BY <1>4, <1>5, NoneFacts DEF StoredFirst
  <2>3. \A q \in Parsers : parser'[q].file # None => status'[parser'[q].file] # None
    <3> SUFFICES ASSUME NEW q \in Parsers, parser'[q].file # None
                 PROVE  status'[parser'[q].file] # None
      OBVIOUS
    <3>1. parser'[q].file \in Files
      BY <1>6
    <3> QED
      BY <1>5, <1>7, <3>1, NoneFacts DEF StoredFirst
  <2> QED
    BY <1>3, <2>1, <2>2, <2>3 DEF StoredFirst
<1> QED
  BY <1>3, <1>4, <1>8, <1>9, <1>10

LEMMA SilentFacts ==
  ASSUME TypeOK, StoredFirst, Silent
  PROVE  TypeOK' /\ StoredFirst' /\ UNCHANGED <<tree, log, backfill>>
         /\ \A g \in Files : at[g] # 0 => at'[g] = at[g]
<1>1. ASSUME NEW p \in Parsers, NEW f \in Files, Ingest(p, f)
      PROVE  TypeOK' /\ StoredFirst' /\ UNCHANGED <<tree, log, backfill>>
             /\ \A g \in Files : at[g] # 0 => at'[g] = at[g]
  BY <1>1, IngestFacts
<1>2. ASSUME NEW p \in Parsers, NEW r, r \in [file : Files \cup {None}, read : BOOLEAN \cup {None}],
             r.file # None => status[r.file] # None,
             parser' = [parser EXCEPT ![p] = r], UNCHANGED <<at, status, tree, ours, backfill, direct, log>>
      PROVE  TypeOK' /\ StoredFirst'
  <2>1. /\ parser' \in [Parsers -> [file : Files \cup {None}, read : BOOLEAN \cup {None}]]
        /\ \A q \in Parsers : parser'[q] = IF q = p THEN r ELSE parser[q]
    BY <1>2 DEF TypeOK
  <2>2. TypeOK'
    BY <1>2, <2>1 DEF TypeOK
  <2>3. \A q \in Parsers : parser'[q].file # None => status'[parser'[q].file] # None
    BY <1>2, <2>1 DEF StoredFirst
  <2> QED
    BY <1>2, <2>2, <2>3 DEF StoredFirst
<1>3. ASSUME NEW p \in Parsers, Read(p)
      PROVE  TypeOK' /\ StoredFirst' /\ UNCHANGED <<tree, log, backfill, at>>
  <2> DEFINE r == [parser[p] EXCEPT !.read = ours]
  <2>1. r \in [file : Files \cup {None}, read : BOOLEAN \cup {None}] /\ r.file = parser[p].file
    BY DEF TypeOK
  <2>2. parser' = [parser EXCEPT ![p] = r] /\ UNCHANGED <<at, status, tree, ours, backfill, direct, log>>
    BY <1>3 DEF Read
  <2>3. r.file # None => status[r.file] # None
    BY <2>1 DEF StoredFirst
  <2> HIDE DEF r
  <2> QED
    BY <1>2, <2>1, <2>2, <2>3
<1>4. ASSUME NEW p \in Parsers, GiveUp(p)
      PROVE  TypeOK' /\ StoredFirst' /\ UNCHANGED <<tree, log, backfill, at>>
  <2>1. NoParse \in [file : Files \cup {None}, read : BOOLEAN \cup {None}] /\ NoParse.file = None
    BY DEF NoParse
  <2>2. parser' = [parser EXCEPT ![p] = NoParse] /\ UNCHANGED <<at, status, tree, ours, backfill, direct, log>>
    BY <1>4 DEF GiveUp
  <2> QED
    BY <1>2, <2>1, <2>2
<1>5. ASSUME NEW p \in Parsers, NEW f \in Files, Reparse(p, f)
      PROVE  TypeOK' /\ StoredFirst' /\ UNCHANGED <<tree, log, backfill, at>>
  <2> DEFINE r == [parser[p] EXCEPT !.file = f]
  <2>1. r \in [file : Files \cup {None}, read : BOOLEAN \cup {None}] /\ r.file = f
    BY DEF TypeOK
  <2>2. /\ parser' = [parser EXCEPT ![p] = r] /\ status[f] # None
        /\ UNCHANGED <<at, status, tree, ours, backfill, direct, log>>
    BY <1>5 DEF Reparse
  <2> HIDE DEF r
  <2> QED
    BY <1>2, <2>1, <2>2
<1>6. CASE SetOurIsaIds
  BY <1>6 DEF SetOurIsaIds, work, TypeOK, StoredFirst
<1>7. ASSUME direct' \in [todo : SUBSET Files, gone : SUBSET Files],
             \A f \in direct'.todo : tree[f] # None,
             UNCHANGED <<at, status, tree, ours, parser, backfill, log>>
      PROVE  TypeOK' /\ StoredFirst'
  BY <1>7 DEF TypeOK, StoredFirst
<1>8. CASE DirectScan
  <2> DEFINE T == {f \in Files : /\ tree[f] # None
                                /\ tree[f].direction # Direction(f, TRUE)}
  <2>1. /\ direct' = [NoUpdate EXCEPT !.todo = T]
        /\ T \in SUBSET Files /\ \A f \in T : tree[f] # None
    BY <1>8 DEF DirectScan
  <2> HIDE DEF T
  <2>2. direct'.todo = T /\ direct' \in [todo : SUBSET Files, gone : SUBSET Files]
    BY <2>1 DEF NoUpdate
  <2> QED
    BY <1>7, <1>8, <2>1, <2>2 DEF DirectScan
<1>9. CASE DirectAbort
  BY <1>7, <1>9 DEF DirectAbort, NoUpdate
<1>10. CASE UNCHANGED vars
  BY <1>10 DEF vars, work, TypeOK, StoredFirst
<1> QED
  BY <1>1, <1>3, <1>4, <1>5, <1>6, <1>8, <1>9, <1>10 DEF Silent, SetOurIsaIds, DirectScan, DirectAbort, vars, work

LEMMA Booked ==
  ASSUME TypeOK, StoredFirst, [Next]_vars
  PROVE  TypeOK' /\ StoredFirst'
<1>1. ASSUME NEW p \in Parsers, Commit(p) PROVE TypeOK' /\ StoredFirst'
  <2> DEFINE f == parser[p].file
             d == Direction(f, parser[p].read)
  <2>1. /\ f \in Files
        /\ Grown(Parsed(f, d))
        /\ tree' \in [Files -> Trees \cup {None}]
        /\ tree'[f] = [direction |-> d, confirmed |-> 0]
        /\ \A o \in Files \ {f} : tree'[o] = IF f \in Acks THEN Confirm(f, tree[o], o) ELSE tree[o]
        /\ status' = [status EXCEPT ![f] = FinalStatus(f)]
        /\ parser' = [parser EXCEPT ![p] = NoParse]
        /\ direct' \in [todo : {direct.todo}, gone : SUBSET Files]
        /\ UNCHANGED <<at, ours, backfill>>
    BY <1>1, CommitFacts
  <2>2. log' \in Seq(Entries)
    BY <2>1, GrownLog
  <2>3. d \in Directions
    BY <1>1, CommitFacts, DirectionType
  <2>4. [direction |-> d, confirmed |-> 0] \in Trees
    BY <2>3 DEF Trees
  <2>5. tree'[f] # None
    BY <2>1, <2>4, NoneFacts
  <2> HIDE DEF f, d
  <2>6. \A o \in Files \ {f} : tree'[o] = None <=> tree[o] = None
    BY <2>1, ConfirmFacts DEF TypeOK
  <2>7. FinalStatus(f) \in {"PARSED", "PARSE_ERROR"}
    BY DEF FinalStatus
  <2>8. NoParse \in [file : Files \cup {None}, read : BOOLEAN \cup {None}] /\ NoParse.file = None
    BY DEF NoParse
  <2>9. /\ parser' \in [Parsers -> [file : Files \cup {None}, read : BOOLEAN \cup {None}]]
        /\ \A q \in Parsers : parser'[q] = IF q = p THEN NoParse ELSE parser[q]
    BY <2>1, <2>8 DEF TypeOK
  <2>10. /\ status' \in [Files -> {None, "RECEIVED", "PARSED", "PARSE_ERROR"}]
         /\ \A g \in Files : status'[g] = IF g = f THEN FinalStatus(f) ELSE status[g]
    BY <2>1, <2>7 DEF TypeOK
  <2>11. direct' \in [todo : SUBSET Files, gone : SUBSET Files] /\ direct'.todo = direct.todo
    BY <2>1 DEF TypeOK
  <2>12. TypeOK'
    BY <2>1, <2>2, <2>9, <2>10, <2>11 DEF TypeOK
  <2>13. status[f] # None
    <3>1. parser[p].file # None
      BY <2>1, NoneFacts DEF f
    <3> QED
      BY <3>1 DEF StoredFirst, f
  <2>14. \A g \in Files : status'[g] \in {"PARSED", "PARSE_ERROR"} <=> tree'[g] # None
    BY <2>5, <2>6, <2>7, <2>10 DEF StoredFirst
  <2>15. \A g \in Files : status'[g] # None <=> at'[g] # 0
    BY <2>1, <2>7, <2>10, <2>13, NoneFacts DEF StoredFirst
  <2>16. \A q \in Parsers : parser'[q].file # None => status'[parser'[q].file] # None
    BY <2>7, <2>8, <2>9, <2>10, NoneFacts DEF StoredFirst, TypeOK
  <2>17. /\ \A a \in backfill' : tree'[a] # None
         /\ \A g \in direct'.todo : tree'[g] # None
    BY <2>1, <2>5, <2>6, <2>11 DEF StoredFirst, TypeOK, Files
  <2> QED
    BY <2>12, <2>14, <2>15, <2>16, <2>17 DEF StoredFirst
<1>2. ASSUME NEW a \in Acks, BackfillAck(a) PROVE TypeOK' /\ StoredFirst'
  <2>1. /\ Grown([kind |-> "apply", file |-> a, direction |-> None])
        /\ tree' \in [Files -> Trees \cup {None}]
        /\ \A o \in Files : tree'[o] = Confirm(a, tree[o], o)
        /\ backfill' = backfill \ {a}
        /\ UNCHANGED <<at, status, ours, parser, direct>>
    BY <1>2, BackfillAckFacts
  <2>2. log' \in Seq(Entries)
    BY <2>1, GrownLog
  <2>3. \A o \in Files : tree'[o] = None <=> tree[o] = None
    BY <2>1, ConfirmFacts DEF TypeOK
  <2>4. TypeOK'
    BY <2>1, <2>2 DEF TypeOK
  <2>5. \A g \in direct'.todo : tree'[g] # None
    BY <2>1, <2>3 DEF StoredFirst, TypeOK
  <2> QED
    BY <2>1, <2>3, <2>4, <2>5 DEF StoredFirst, TypeOK, Files
<1>3. ASSUME NEW f \in Files, DirectUpdate(f) PROVE TypeOK' /\ StoredFirst'
  <2>1. /\ Grown([kind |-> "direct", file |-> f, direction |-> Direction(f, TRUE)])
        /\ tree' \in [Files -> Trees \cup {None}]
        /\ tree[f] # None /\ tree'[f] # None
        /\ \A o \in Files \ {f} : tree'[o] = tree[o]
        /\ direct' = [direct EXCEPT !.todo = @ \ {f}]
        /\ UNCHANGED <<at, status, ours, parser, backfill>>
    BY <1>3, DirectUpdateFacts
  <2>2. log' \in Seq(Entries)
    BY <2>1, GrownLog
  <2>3. \A o \in Files : tree'[o] = None <=> tree[o] = None
    BY <2>1
  <2>4. direct' \in [todo : SUBSET Files, gone : SUBSET Files] /\ direct'.todo = direct.todo \ {f}
    BY <2>1 DEF TypeOK
  <2>5. TypeOK'
    BY <2>1, <2>2, <2>4 DEF TypeOK
  <2>6. \A g \in direct'.todo : tree'[g] # None
    BY <2>3, <2>4 DEF StoredFirst, TypeOK
  <2> QED
    BY <2>1, <2>3, <2>5, <2>6 DEF StoredFirst, TypeOK, Files
<1>4. CASE BackfillScan
  <2>1. /\ Grown([kind |-> "scan", file |-> None, direction |-> None])
        /\ backfill' = {a \in Acks : tree[a] # None}
        /\ UNCHANGED <<at, status, tree, ours, parser, direct>>
    BY <1>4, ScanFacts
  <2>2. log' \in Seq(Entries)
    BY <2>1, GrownLog
  <2> QED
    BY <2>1, <2>2 DEF TypeOK, StoredFirst
<1>5. CASE BackfillAbort
  <2>1. /\ Grown([kind |-> "abort", file |-> None, direction |-> None])
        /\ backfill' = {}
        /\ UNCHANGED <<at, status, tree, ours, parser, direct>>
    BY <1>5, AbortFacts
  <2>2. log' \in Seq(Entries)
    BY <2>1, GrownLog
  <2> QED
    BY <2>1, <2>2 DEF TypeOK, StoredFirst
<1>6. CASE Silent
  BY <1>6, SilentFacts
<1> QED
  BY <1>1, <1>2, <1>3, <1>4, <1>5, <1>6, StepKinds
-----------------------------------------------------------------------------
(* Every entry says what it did to the trees.                              *)

\* Does the entry store o anew, does it give o a direction, does it bring an
\* acknowledgment that confirms a row t of o?
Stores(e, o)   == e.kind = "parse" /\ e.file = o
Directs(e, o)  == e.kind \in {"parse", "direct"} /\ e.file = o
Confirms(e, o) == e.kind \in {"parse", "apply"} /\ Acknowledges(e.file, o)

Written(e) ==
  /\ Grown(e) /\ UNCHANGED at
  /\ e.kind \in {"parse", "direct", "apply"} => e.file \in Files /\ at[e.file] # 0
  /\ e.kind = "parse" => \E c \in BOOLEAN : e.direction = Direction(e.file, c)
  /\ e.kind = "direct" => e.direction = Direction(e.file, TRUE)
  /\ e.kind \in {"direct", "apply"} => tree[e.file] # None
  /\ \A o \in Files : tree'[o] = None <=> tree[o] = None /\ ~Stores(e, o)
  /\ \A o \in Files : tree'[o] # None =>
       tree'[o].direction = IF Directs(e, o) THEN e.direction ELSE tree[o].direction
  /\ \A o \in Originals : tree'[o] # None =>
       tree'[o].confirmed = IF Stores(e, o) THEN 0
                            ELSE IF Confirms(e, o) /\ tree[o].direction = "outbound" /\ tree[o].confirmed = 0
                            THEN at[e.file] ELSE tree[o].confirmed
  /\ e.kind = "scan" => backfill' = {a \in Acks : tree[a] # None}
  /\ e.kind = "apply" => backfill' = backfill \ {e.file}
  /\ e.kind \in {"parse", "direct"} => backfill' = backfill

LEMMA CommitWrites ==
  ASSUME TypeOK, StoredFirst, NEW p \in Parsers, Commit(p)
  PROVE  Written(Parsed(parser[p].file, Direction(parser[p].file, parser[p].read)))
<1> DEFINE f == parser[p].file
           d == Direction(f, parser[p].read)
           e == Parsed(f, d)
           t == [direction |-> d, confirmed |-> 0]
<1>1. /\ f \in Files /\ parser[p].read \in BOOLEAN
      /\ Grown(e)
      /\ tree' \in [Files -> Trees \cup {None}]
      /\ tree'[f] = t
      /\ \A o \in Files \ {f} : tree'[o] = IF f \in Acks THEN Confirm(f, tree[o], o) ELSE tree[o]
      /\ UNCHANGED <<at, backfill>>
  BY CommitFacts
<1>2. e.kind = "parse" /\ e.file = f /\ e.direction = d
  BY DEF Parsed
<1>3. at[f] # 0
  <2>1. f # None
    BY <1>1, NoneFacts
  <2> QED
    BY <1>1, <2>1 DEF StoredFirst
<1>4. t \in Trees /\ t.direction = d /\ t.confirmed = 0
  BY <1>1, DirectionType DEF Trees
<1>5. \E c \in BOOLEAN : d = Direction(f, c)
  BY <1>1
<1> HIDE DEF e, t, d
<1>6. \A o \in Files \ {f} :
        /\ tree'[o] = None <=> tree[o] = None
        /\ tree[o] # None =>
             /\ tree'[o].direction = tree[o].direction
             /\ o \in Originals =>
                  tree'[o].confirmed = IF Acknowledges(f, o) /\ tree[o].direction = "outbound" /\ tree[o].confirmed = 0
                                       THEN at[f] ELSE tree[o].confirmed
  <2> HIDE DEF f
  <2> SUFFICES ASSUME NEW o \in Files \ {f}
               PROVE  /\ tree'[o] = None <=> tree[o] = None
                      /\ tree[o] # None =>
                           /\ tree'[o].direction = tree[o].direction
                           /\ o \in Originals =>
                                tree'[o].confirmed = IF Acknowledges(f, o) /\ tree[o].direction = "outbound" /\ tree[o].confirmed = 0
                                                     THEN at[f] ELSE tree[o].confirmed
    OBVIOUS
  <2>1. CASE f \in Acks
    <3>1. tree'[o] = Confirm(f, tree[o], o)
      BY <1>1, <2>1
    <3> QED
      BY <2>1, <3>1, ConfirmFacts DEF TypeOK
  <2>2. CASE f \notin Acks
    BY <1>1, <2>2 DEF Acknowledges
  <2> QED
    BY <2>1, <2>2
<1>7. tree'[f] # None /\ tree'[f].direction = d /\ tree'[f].confirmed = 0
  BY <1>1, <1>4, NoneFacts
<1> HIDE DEF f
<1>8. \A o \in Files : tree'[o] = None <=> tree[o] = None /\ ~Stores(e, o)
  BY <1>1, <1>2, <1>6, <1>7 DEF Stores
<1>9. \A o \in Files : tree'[o] # None =>
        tree'[o].direction = IF Directs(e, o) THEN e.direction ELSE tree[o].direction
  BY <1>1, <1>2, <1>6, <1>7 DEF Directs
<1>10. \A o \in Originals : tree'[o] # None =>
        tree'[o].confirmed = IF Stores(e, o) THEN 0
                             ELSE IF Confirms(e, o) /\ tree[o].direction = "outbound" /\ tree[o].confirmed = 0
                             THEN at[e.file] ELSE tree[o].confirmed
  BY <1>1, <1>2, <1>6, <1>7, NoneFacts DEF Stores, Confirms
<1>11. Written(e)
  BY <1>1, <1>2, <1>3, <1>5, <1>8, <1>9, <1>10 DEF Written
<1> QED
  BY <1>11 DEF e, d, f

LEMMA AckWrites ==
  ASSUME TypeOK, StoredFirst, NEW a \in Acks, BackfillAck(a)
  PROVE  Written([kind |-> "apply", file |-> a, direction |-> None])
<1> DEFINE e == [kind |-> "apply", file |-> a, direction |-> None]
<1>1. /\ Grown(e) /\ tree' \in [Files -> Trees \cup {None}]
      /\ \A o \in Files : tree'[o] = Confirm(a, tree[o], o)
      /\ a \in backfill /\ backfill' = backfill \ {a} /\ UNCHANGED at
  BY BackfillAckFacts
<1>2. e.kind = "apply" /\ e.file = a
  OBVIOUS
<1>3. a \in Files /\ tree[a] # None /\ at[a] # 0
  BY <1>1, NoneFacts DEF StoredFirst
<1> HIDE DEF e
<1>4. \A o \in Files : /\ tree'[o] = None <=> tree[o] = None
                       /\ tree[o] # None =>
                            /\ tree'[o].direction = tree[o].direction
                            /\ o \in Originals =>
                                 tree'[o].confirmed =
                                   IF tree[o].direction = "outbound" /\ Acknowledges(a, o) /\ tree[o].confirmed = 0
                                   THEN at[a] ELSE tree[o].confirmed
  BY <1>1, ConfirmFacts DEF TypeOK
<1>5. Written(e)
  BY <1>1, <1>2, <1>3, <1>4, NoneFacts DEF Written, Stores, Directs, Confirms
<1> QED
  BY <1>5 DEF e

LEMMA DirectWrites ==
  ASSUME TypeOK, StoredFirst, NEW f \in Files, DirectUpdate(f)
  PROVE  Written([kind |-> "direct", file |-> f, direction |-> Direction(f, TRUE)])
<1> DEFINE e == [kind |-> "direct", file |-> f, direction |-> Direction(f, TRUE)]
<1>1. /\ Grown(e)
      /\ tree[f] # None /\ tree'[f] # None
      /\ tree'[f].direction = Direction(f, TRUE) /\ tree'[f].confirmed = tree[f].confirmed
      /\ \A o \in Files \ {f} : tree'[o] = tree[o]
      /\ UNCHANGED <<at, backfill>>
  BY DirectUpdateFacts
<1>2. e.kind = "direct" /\ e.file = f /\ e.direction = Direction(f, TRUE)
  OBVIOUS
<1>3. at[f] # 0
  BY <1>1, NoneFacts DEF StoredFirst
<1> HIDE DEF e
<1>4. Written(e)
  BY <1>1, <1>2, <1>3, NoneFacts DEF Written, Stores, Directs, Confirms
<1> QED
  BY <1>4 DEF e

LEMMA MarkWrites ==
  ASSUME TypeOK, NEW kind \in {"scan", "abort"},
         Grown([kind |-> kind, file |-> None, direction |-> None]), UNCHANGED <<at, tree>>,
         kind = "scan" => backfill' = {a \in Acks : tree[a] # None}
  PROVE  Written([kind |-> kind, file |-> None, direction |-> None])
BY DEF Written, Stores, Directs, Confirms

\* A step either writes one entry, or leaves the trees and the history alone.
LEMMA StepsAreWritten ==
  ASSUME TypeOK, StoredFirst, [Next]_vars
  PROVE  \/ \E e : Written(e)
         \/ UNCHANGED <<tree, log, backfill>> /\ \A g \in Files : at[g] # 0 => at'[g] = at[g]
BY StepKinds, CommitWrites, AckWrites, DirectWrites, ScanFacts, AbortFacts, MarkWrites, SilentFacts

LEMMA ChronicleGrows ==
  ASSUME TypeOK, Chronicle, NEW e, Written(e)
  PROVE  Chronicle'
<1> DEFINE n == Len(log)
<1>1. /\ n \in Nat /\ DOMAIN log = 1..n /\ DOMAIN log' = 1..(n + 1)
      /\ log'[n + 1] = e /\ \A i \in 1..n : log'[i] = log[i]
  BY GrownLog DEF Written
<1> Grown(e)
  BY DEF Written
<1>2. \A f : At({"parse"}, f)' = IF Stores(e, f) THEN At({"parse"}, f) \cup {n + 1} ELSE At({"parse"}, f)
  <2> TAKE f
  <2>1. At({"parse"}, f)' = IF e.kind \in {"parse"} /\ e.file = f
                            THEN At({"parse"}, f) \cup {n + 1} ELSE At({"parse"}, f)
    BY GrownAt
  <2> QED
    BY <2>1 DEF Stores
<1>3. \A f \in Files : tree'[f] # None <=> At({"parse"}, f)' # {}
  BY <1>2 DEF Written, Chronicle
<1>4. ASSUME NEW f \in Files, tree'[f] # None
      PROVE  tree'[f].direction = log'[Current(f)'].direction
  <2> DEFINE C == At({"parse", "direct"}, f)
  <2>1. C' = IF Directs(e, f) THEN C \cup {n + 1} ELSE C
    <3>1. At({"parse", "direct"}, f)' = IF e.kind \in {"parse", "direct"} /\ e.file = f
                                        THEN At({"parse", "direct"}, f) \cup {n + 1}
                                        ELSE At({"parse", "direct"}, f)
      BY GrownAt
    <3> QED
      BY <3>1 DEF Directs
  <2>2. n \in Nat /\ C \in SUBSET (1..n)
    BY AtIsPlaces
  <2>3. Current(f) = Last(C) /\ Current(f)' = Last(C')
    BY DEF Current
  <2>4. CASE Directs(e, f)
    <3>1. Last(C \cup {n + 1}) = n + 1
      BY <2>2, LastIsNew
    <3>2. Current(f)' = n + 1
      BY <2>1, <2>3, <2>4, <3>1
    <3> QED
      BY <1>1, <1>4, <2>4, <3>2 DEF Written
  <2>5. CASE ~Directs(e, f)
    <3>1. tree[f] # None /\ tree'[f].direction = tree[f].direction
      BY <1>4, <2>5 DEF Written, Stores, Directs
    <3>2. Current(f) \in 1..n
      BY <3>1, <2>2, OutboundNow
    <3>3. log'[Current(f)] = log[Current(f)]
      BY <1>1, <3>2
    <3> QED
      BY <2>1, <2>3, <2>5, <3>1, <3>3 DEF Chronicle
  <2> QED
    BY <2>4, <2>5
<1>5. ASSUME NEW i \in 1..n
      PROVE  /\ log'[i].kind \in {"parse", "direct", "apply"} => log'[i].file \in Files /\ at'[log'[i].file] # 0
             /\ log'[i].kind = "parse" => \E c \in BOOLEAN : log'[i].direction = Direction(log'[i].file, c)
             /\ log'[i].kind = "direct" => log'[i].direction = Direction(log'[i].file, TRUE)
             /\ log'[i].kind = "apply" =>
                  \E j \in 1..(i - 1) : log'[j].kind = "parse" /\ log'[j].file = log'[i].file
  <2>1. log'[i] = log[i] /\ \A j \in 1..(i - 1) : log'[j] = log[j]
    BY <1>1
  <2>2. at' = at /\ i \in DOMAIN log
    BY <1>1 DEF Written
  <2>3. /\ log[i].kind \in {"parse", "direct", "apply"} => log[i].file \in Files /\ at[log[i].file] # 0
        /\ log[i].kind = "parse" => \E c \in BOOLEAN : log[i].direction = Direction(log[i].file, c)
        /\ log[i].kind = "direct" => log[i].direction = Direction(log[i].file, TRUE)
        /\ log[i].kind = "apply" =>
             \E j \in 1..(i - 1) : log[j].kind = "parse" /\ log[j].file = log[i].file
    BY <2>2 DEF Chronicle
  <2> QED
    BY <2>1, <2>2, <2>3
<1>6. e.kind = "apply" => \E j \in 1..n : log'[j].kind = "parse" /\ log'[j].file = e.file
  <2> SUFFICES ASSUME e.kind = "apply" PROVE \E j \in 1..n : log'[j].kind = "parse" /\ log'[j].file = e.file
    OBVIOUS
  <2>1. At({"parse"}, e.file) # {}
    BY DEF Written, Chronicle
  <2>2. PICK j \in DOMAIN log : log[j].kind = "parse" /\ log[j].file = e.file
    BY <2>1 DEF At
  <2> QED
    BY <1>1, <2>2
<1>7. \A i \in 1..(n + 1) :
        /\ log'[i].kind \in {"parse", "direct", "apply"} => log'[i].file \in Files /\ at'[log'[i].file] # 0
        /\ log'[i].kind = "parse" => \E c \in BOOLEAN : log'[i].direction = Direction(log'[i].file, c)
        /\ log'[i].kind = "direct" => log'[i].direction = Direction(log'[i].file, TRUE)
        /\ log'[i].kind = "apply" =>
             \E j \in 1..(i - 1) : log'[j].kind = "parse" /\ log'[j].file = log'[i].file
  <2> SUFFICES ASSUME NEW i \in 1..(n + 1), i \notin 1..n
               PROVE  /\ log'[i].kind \in {"parse", "direct", "apply"} => log'[i].file \in Files /\ at'[log'[i].file] # 0
                      /\ log'[i].kind = "parse" => \E c \in BOOLEAN : log'[i].direction = Direction(log'[i].file, c)
                      /\ log'[i].kind = "direct" => log'[i].direction = Direction(log'[i].file, TRUE)
                      /\ log'[i].kind = "apply" =>
                           \E j \in 1..(i - 1) : log'[j].kind = "parse" /\ log'[j].file = log'[i].file
    BY <1>5
  <2>1. i = n + 1 /\ i - 1 = n
    BY <1>1
  <2>2. log'[i] = e
    BY <1>1, <2>1
  <2> QED
    BY <2>1, <2>2, <1>6 DEF Written
<1> QED
  BY <1>1, <1>3, <1>4, <1>7 DEF Chronicle

LEMMA StoredIsPlace ==
  ASSUME TypeOK, NEW o
  PROVE  /\ Len(log) \in Nat /\ Stored(o) \in 0..Len(log)
         /\ Stored(o) # 0 <=> At({"parse"}, o) # {}
         /\ Stored(o) # 0 => Stored(o) \in At({"parse"}, o)
         /\ \A i \in At({"parse"}, o) : i <= Stored(o)
<1> DEFINE S == At({"parse"}, o)
<1>1. Len(log) \in Nat /\ S \in SUBSET (1..Len(log))
  BY AtIsPlaces
<1>2. Stored(o) = Last(S)
  BY DEF Stored
<1> HIDE DEF S
<1>3. /\ S = {} => Last(S) = 0
      /\ S # {} => Last(S) \in S /\ \A k \in S : k <= Last(S)
  BY <1>1, LastIs
<1>4. S # {} => Last(S) \in 1..Len(log)
  BY <1>1, <1>3
<1> QED
  BY <1>1, <1>2, <1>3, <1>4 DEF S

LEMMA AppliedIsPlaces ==
  ASSUME TypeOK, NEW o \in Files
  PROVE  Applied(o) \in SUBSET (1..Len(log))
BY StoredIsPlace DEF Applied

LEMMA AppliedGrows ==
  ASSUME TypeOK, Chronicle, NEW e, Written(e), NEW o \in Files, tree[o] # None
  PROVE  Applied(o)' = IF Stores(e, o) THEN {}
                       ELSE IF Confirms(e, o) /\ tree[o].direction = "outbound"
                       THEN Applied(o) \cup {Len(log) + 1} ELSE Applied(o)
<1> DEFINE n == Len(log)
<1>1. /\ n \in Nat /\ Len(log') = n + 1
      /\ log'[n + 1] = e /\ \A i \in 1..n : log'[i] = log[i]
  BY GrownLog DEF Written
<1>2. Stored(o)' = IF Stores(e, o) THEN n + 1 ELSE Stored(o)
  BY GrownStored DEF Written, Stores
<1>3. \A i \in 1..(n + 1) : OutboundThen(o, i)' <=> OutboundThen(o, i)
  BY GrownThen DEF Written
<1>4. OutboundThen(o, n + 1) <=> tree[o].direction = "outbound"
  BY OutboundNow
<1>5. Stored(o) \in 0..n
  BY StoredIsPlace
<1>6. \A i : i \in Applied(o)' <=> /\ i \in (Stored(o)' + 1)..(n + 1)
                                   /\ log'[i].kind \in {"parse", "apply"}
                                   /\ Acknowledges(log'[i].file, o)
                                   /\ OutboundThen(o, i)'
  BY <1>1 DEF Applied, Acknowledges
<1>7. \A i : i \in Applied(o) <=> /\ i \in (Stored(o) + 1)..n
                                  /\ log[i].kind \in {"parse", "apply"}
                                  /\ Acknowledges(log[i].file, o)
                                  /\ OutboundThen(o, i)
  BY DEF Applied
<1> HIDE DEF n
<1>8. CASE Stores(e, o)
  <2>1. \A i : i \notin (Stored(o)' + 1)..(n + 1)
    BY <1>1, <1>2, <1>8
  <2> QED
    BY <1>6, <1>8, <2>1
<1>9. CASE ~Stores(e, o)
  <2>1. \A i : i \in (Stored(o) + 1)..(n + 1) <=> i \in (Stored(o) + 1)..n \/ i = n + 1
    BY <1>1, <1>5
  <2>2. \A i \in (Stored(o) + 1)..n : i \in 1..n
    BY <1>1, <1>5
  <2>3. \A i \in (Stored(o) + 1)..n : i \in Applied(o)' <=> i \in Applied(o)
    BY <1>1, <1>2, <1>3, <1>6, <1>7, <1>9, <2>1, <2>2
  <2>4. n + 1 \in Applied(o)' <=> Confirms(e, o) /\ tree[o].direction = "outbound"
    BY <1>1, <1>2, <1>3, <1>4, <1>6, <1>9, <2>1 DEF Confirms
  <2>5. n + 1 \notin Applied(o)
    BY <1>1, <1>5, <1>7
  <2>6. \A i : i \in Applied(o)' <=> i \in Applied(o) \/ (i = n + 1 /\ Confirms(e, o) /\ tree[o].direction = "outbound")
    BY <1>2, <1>6, <1>7, <1>9, <2>1, <2>3, <2>4, <2>5
  <2> QED
    BY <1>9, <2>6 DEF n
<1> QED
  BY <1>8, <1>9

LEMMA ByFirstGrows ==
  ASSUME TypeOK, TypeOK', Chronicle, ByFirst, NEW e, Written(e)
  PROVE  ByFirst'
<1> DEFINE n == Len(log)
<1> SUFFICES ASSUME NEW o \in Originals, tree'[o] # None
             PROVE  tree'[o].confirmed = IF Applied(o)' = {} THEN 0 ELSE at'[log'[Min(Applied(o)')].file]
  BY DEF ByFirst
<1>1. /\ n \in Nat /\ log'[n + 1] = e
      /\ \A i \in 1..n : log'[i] = log[i]
  BY GrownLog DEF Written
<1>2. o \in Files /\ at' = at
  BY NoneFacts DEF Written
<1>3. CASE Stores(e, o)
  <2>1. tree'[o].confirmed = 0
    BY <1>3 DEF Written
  <2>2. Applied(o)' = {}
    <3>1. Stored(o)' = n + 1 /\ Len(log') = n + 1
      BY <1>3, GrownStored, GrownLog DEF Written, Stores
    <3>2. (n + 1 + 1)..(n + 1) = {}
      BY <1>1
    <3> QED
      BY <3>1, <3>2 DEF Applied
  <2> QED
    BY <2>1, <2>2
<1>4. CASE ~Stores(e, o)
  <2>1. tree[o] # None
    BY <1>2, <1>4 DEF Written
  <2>2. Applied(o) \in SUBSET (1..n)
    BY <1>2, AppliedIsPlaces
  <2>3. Applied(o) # {} => log'[Min(Applied(o))] = log[Min(Applied(o))] /\ Min(Applied(o)) \in 1..n
                           /\ Min(Applied(o)) \in Applied(o)
    <3> SUFFICES ASSUME Applied(o) # {}
                 PROVE  log'[Min(Applied(o))] = log[Min(Applied(o))] /\ Min(Applied(o)) \in 1..n
                        /\ Min(Applied(o)) \in Applied(o)
      OBVIOUS
    <3>1. Applied(o) \in SUBSET Nat
      BY <1>1, <2>2
    <3>2. Min(Applied(o)) \in Applied(o)
      BY <3>1, MinIs
    <3> QED
      BY <1>1, <2>2, <3>2
  <2>4. tree[o].confirmed = 0 <=> Applied(o) = {}
    <3>1. Applied(o) # {} => at[log[Min(Applied(o))].file] # 0
      <4> SUFFICES ASSUME Applied(o) # {} PROVE at[log[Min(Applied(o))].file] # 0
        OBVIOUS
      <4>1. log[Min(Applied(o))].kind \in {"parse", "apply"} /\ Min(Applied(o)) \in DOMAIN log
        BY <2>3, GrownLog DEF Applied, Written
      <4> QED
        BY <4>1 DEF Chronicle
    <3> QED
      BY <2>1, <3>1 DEF ByFirst
  <2>5. CASE Confirms(e, o) /\ tree[o].direction = "outbound"
    <3>1. Applied(o)' = Applied(o) \cup {n + 1}
      BY <1>2, <1>4, <2>1, <2>5, AppliedGrows
    <3>2. CASE Applied(o) = {}
      <4>1. Min(Applied(o)') = n + 1
        BY <1>1, <3>1, <3>2, MinOfOne
      <4>2. tree'[o].confirmed = at[e.file]
        BY <1>4, <2>4, <2>5, <3>2 DEF Written
      <4> QED
        BY <1>1, <1>2, <3>1, <4>1, <4>2
    <3>3. CASE Applied(o) # {}
      <4>1. Min(Applied(o)') = Min(Applied(o))
        BY <1>1, <2>2, <3>1, <3>3, MinIsKept
      <4>2. tree'[o].confirmed = tree[o].confirmed
        BY <1>4, <2>4, <2>5, <3>3 DEF Written
      <4> QED
        BY <1>2, <2>1, <2>3, <3>1, <3>3, <4>1, <4>2 DEF ByFirst
    <3> QED
      BY <3>2, <3>3
  <2>6. CASE ~(Confirms(e, o) /\ tree[o].direction = "outbound")
    <3>1. Applied(o)' = Applied(o)
      BY <1>2, <1>4, <2>1, <2>6, AppliedGrows
    <3>2. tree'[o].confirmed = tree[o].confirmed
      BY <1>4, <2>6 DEF Written
    <3> QED
      BY <1>2, <2>1, <2>3, <3>1, <3>2 DEF ByFirst
  <2> QED
    BY <2>5, <2>6
<1> QED
  BY <1>3, <1>4
-----------------------------------------------------------------------------
(* What the history implies.                                               *)

\* Once a row was outbound, only a parse can make it anything else.
LEMMA OutboundStays ==
  ASSUME TypeOK, Chronicle, NEW o \in Files, NEW i \in DOMAIN log, NEW j \in DOMAIN log,
         log[i].kind \in {"parse", "direct"}, log[i].file = o, log[i].direction = "outbound",
         log[j].kind = "direct", log[j].file = o
  PROVE  log[j].direction = "outbound"
<1>1. \E c \in BOOLEAN : log[i].direction = Direction(o, c)
  BY DEF Chronicle
<1>2. log[j].direction = Direction(o, TRUE)
  BY DEF Chronicle
<1> QED
  BY <1>1, <1>2 DEF Direction

\* An acknowledgment that was parsed after the original, while nothing else of the
\* original was parsed, found it outbound.
LEMMA AppliedIfLater ==
  ASSUME TypeOK, Chronicle, NEW o \in Originals, NEW i \in DOMAIN log,
         Stored(o) # 0, log[Stored(o)].direction = "outbound", Stored(o) < i,
         log[i].kind = "parse", Acknowledges(log[i].file, o)
  PROVE  i \in Applied(o)
<1> DEFINE s == Stored(o)
           C == At({"parse", "direct"}, o)
           B == {k \in C : k < i}
<1>1. o \in Files /\ Len(log) \in Nat /\ DOMAIN log = 1..Len(log)
  BY NoneFacts DEF TypeOK
<1>2. s \in At({"parse"}, o) /\ s \in Nat /\ \A k \in At({"parse"}, o) : k <= s
  BY StoredIsPlace
<1>3. s \in B
  BY <1>2 DEF At
<1>4. B \in SUBSET (1..Len(log))
  BY <1>1 DEF At
<1>5. Last(B) \in B /\ s <= Last(B)
  <2> HIDE DEF B, s
  <2> QED
    BY <1>1, <1>3, <1>4, LastIs
<1>6. Last(B) \in DOMAIN log /\ log[Last(B)].kind \in {"parse", "direct"} /\ log[Last(B)].file = o
  BY <1>5 DEF At
<1>7. s \in DOMAIN log /\ log[s].kind = "parse" /\ log[s].file = o
  BY <1>2 DEF At
<1>8. log[Last(B)].direction = "outbound"
  <2>1. CASE log[Last(B)].kind = "parse"
    <3>1. Last(B) <= s
      BY <1>2, <1>6, <2>1 DEF At
    <3>2. Last(B) = s
      BY <1>1, <1>5, <1>6, <1>2, <3>1
    <3> QED
      BY <3>2
  <2>2. CASE log[Last(B)].kind = "direct"
    BY <1>1, <1>6, <1>7, <2>2, OutboundStays
  <2> QED
    BY <1>6, <2>1, <2>2
<1>9. OutboundThen(o, i)
  BY <1>1, <1>6, <1>8 DEF OutboundThen
<1> QED
  BY <1>1, <1>2, <1>9 DEF Applied

\* The third conjunct of ConfirmedByFirst.
LEMMA EarliestInOrder ==
  ASSUME TypeOK, StoredFirst, Chronicle, ByFirst, InOrder, NEW o \in Originals
  PROVE  LET later == {at[a] : a \in {b \in Acks : /\ Acknowledges(b, o)
                                                   /\ tree[b] # None /\ at[b] > at[o]}}
         IN Stored(o) # 0 /\ log[Stored(o)].direction = "outbound" /\ later # {} =>
              tree[o].confirmed \in 1..Min(later)
<1> DEFINE B == {b \in Acks : /\ Acknowledges(b, o) /\ tree[b] # None /\ at[b] > at[o]}
           later == {at[a] : a \in B}
           s == Stored(o)
           m == Min(Applied(o))
<1> SUFFICES ASSUME s # 0, log[s].direction = "outbound", later # {}
             PROVE  tree[o].confirmed \in 1..Min(later)
  OBVIOUS
<1>1. o \in Files /\ Len(log) \in Nat /\ DOMAIN log = 1..Len(log) /\ at \in [Files -> Nat]
  BY NoneFacts DEF TypeOK
<1>2. s \in At({"parse"}, o) /\ s \in DOMAIN log /\ log[s].kind = "parse" /\ log[s].file = o
  BY StoredIsPlace DEF At
<1>3. tree[o] # None
  BY <1>1, <1>2 DEF Chronicle
<1>4. ASSUME NEW b \in B
      PROVE  \E i \in DOMAIN log : /\ log[i].kind = "parse" /\ log[i].file = b /\ i \in Applied(o)
  <2>1. b \in Files /\ b \in Acks /\ b # o /\ tree[b] # None /\ at[b] > at[o] /\ Acknowledges(b, o)
    BY <1>4, NoneFacts
  <2>2. PICK i \in DOMAIN log : log[i].kind = "parse" /\ log[i].file = b
    BY <2>1 DEF Chronicle, At
  <2>3. ~(i < s)
    <3>1. i < s => at[b] < at[o]
      BY <1>2, <2>2 DEF InOrder
    <3> QED
      BY <1>1, <2>1, <3>1
  <2>4. i # s
    BY <1>2, <2>1, <2>2
  <2>5. s < i
    BY <1>1, <1>2, <2>2, <2>3, <2>4
  <2>6. i \in Applied(o)
    BY <2>1, <2>2, <2>5, AppliedIfLater
  <2> QED
    BY <2>2, <2>6
<1>5. Applied(o) # {}
  BY <1>4
<1>6. m \in Applied(o) /\ \A k \in Applied(o) : m <= k
  <2>1. Applied(o) \in SUBSET Nat
    BY <1>1, AppliedIsPlaces
  <2> QED
    BY <1>5, <2>1, MinIs
<1>7. m \in DOMAIN log /\ log[m].kind \in {"parse", "apply"}
  BY <1>1, <1>6, AppliedIsPlaces DEF Applied
<1>8. tree[o].confirmed = at[log[m].file]
  BY <1>3, <1>5 DEF ByFirst
<1>9. log[m].file \in Files /\ at[log[m].file] # 0 /\ at[log[m].file] \in Nat
  BY <1>1, <1>7 DEF Chronicle
<1>10. \E j \in 1..m : log[j].kind = "parse" /\ log[j].file = log[m].file
  <2>1. m \in 1..m /\ \A k \in 1..(m - 1) : k \in 1..m
    <3> HIDE DEF m
    <3> QED
      BY <1>1, <1>7
  <2>2. log[m].kind = "apply" => \E j \in 1..(m - 1) : log[j].kind = "parse" /\ log[j].file = log[m].file
    BY <1>7 DEF Chronicle
  <2> HIDE DEF m
  <2> QED
    BY <1>7, <2>1, <2>2
<1> PICK j \in 1..m : log[j].kind = "parse" /\ log[j].file = log[m].file
  BY <1>10
<1>11. ASSUME NEW b \in B PROVE at[log[m].file] <= at[b]
  <2>1. PICK i \in DOMAIN log : log[i].kind = "parse" /\ log[i].file = b /\ i \in Applied(o)
    BY <1>4, <1>11
  <2>2. m <= i
    BY <1>6, <2>1
  <2>3. j \in DOMAIN log /\ j <= i
    <3> HIDE DEF m
    <3> QED
      BY <1>1, <1>7, <2>1, <2>2
  <2>4. b \in Files /\ at[b] \in Nat
    BY <1>1, NoneFacts
  <2>5. CASE j = i
    BY <1>9, <1>10, <2>1, <2>5
  <2>6. CASE j # i
    <3>1. j < i
      BY <1>1, <2>1, <2>3, <2>6
    <3>2. at[log[j].file] < at[log[i].file]
      BY <1>10, <2>1, <2>3, <3>1 DEF InOrder
    <3> QED
      BY <1>9, <1>10, <2>1, <2>4, <3>2
  <2> QED
    BY <2>5, <2>6
<1>12. later \in SUBSET Nat
  BY <1>1, NoneFacts
<1>13. \A x \in later : tree[o].confirmed <= x
  <2> TAKE x \in later
  <2>1. PICK b \in B : x = at[b]
    OBVIOUS
  <2> QED
    BY <1>8, <1>11, <2>1
<1>14. Min(later) \in later
  <2> HIDE DEF later
  <2> QED
    BY <1>12, MinIs
<1>15. Min(later) \in Nat /\ tree[o].confirmed <= Min(later)
  BY <1>12, <1>13, <1>14
<1> HIDE DEF later, m
<1> QED
  BY <1>8, <1>9, <1>15
-----------------------------------------------------------------------------
(* The script that applies stored acknowledgments.                         *)

ScanAt == Last({i \in DOMAIN log : log[i].kind = "scan"})
Unbroken == \A i \in (ScanAt + 1)..Len(log) : log[i].kind # "abort"

\* What the run of the script that began at the last scan must have applied.
Due(a, o) == /\ Acknowledges(a, o)
             /\ 0 < Stored(a) /\ \E i \in At({"parse"}, a) : i < ScanAt
             /\ 0 < Stored(o) /\ Stored(o) < ScanAt /\ OutboundThen(o, ScanAt)

\* Until the script is through, what is due is confirmed or still to be applied.
Pending == ScanAt # 0 /\ Unbroken =>
             \A o \in Originals, a \in Acks :
               Due(a, o) => a \in backfill \/ tree[o].confirmed # 0

LEMMA ScanAtFacts ==
  ASSUME TypeOK
  PROVE  Len(log) \in Nat /\ ScanAt \in 0..Len(log)
<1> DEFINE S == {i \in DOMAIN log : log[i].kind = "scan"}
<1>1. Len(log) \in Nat /\ S \in SUBSET (1..Len(log))
  BY DEF TypeOK
<1>2. ScanAt = Last(S)
  BY DEF ScanAt
<1> HIDE DEF S
<1>3. S # {} => Last(S) \in 1..Len(log)
  BY <1>1, LastIs
<1>4. S = {} => Last(S) = 0
  BY <1>1, LastIs
<1> QED
  BY <1>1, <1>2, <1>3, <1>4

LEMMA ScanAtGrows ==
  ASSUME TypeOK, NEW e, Grown(e)
  PROVE  ScanAt' = IF e.kind = "scan" THEN Len(log) + 1 ELSE ScanAt
<1> DEFINE S == {i \in DOMAIN log : log[i].kind = "scan"}
<1>1. /\ Len(log) \in Nat /\ log'[Len(log) + 1] = e
      /\ DOMAIN log = 1..Len(log) /\ DOMAIN log' = 1..(Len(log) + 1)
      /\ \A i \in 1..Len(log) : log'[i] = log[i]
  BY GrownLog
<1>2. \A i : i \in S' <=> i \in S \/ (i = Len(log) + 1 /\ e.kind = "scan")
  BY <1>1
<1>3. S' = IF e.kind = "scan" THEN S \cup {Len(log) + 1} ELSE S
  BY <1>2
<1>4. S \in SUBSET (1..Len(log))
  BY <1>1
<1>5. ScanAt = Last(S) /\ ScanAt' = Last(S')
  BY DEF ScanAt
<1> HIDE DEF S
<1>6. Last(S \cup {Len(log) + 1}) = Len(log) + 1
  BY <1>1, <1>4, LastIsNew
<1> QED
  BY <1>3, <1>5, <1>6

\* What was outbound at the scan, and not parsed since, is outbound still.
LEMMA OutboundSince ==
  ASSUME TypeOK, Chronicle, NEW o \in Files, tree[o] # None, NEW i \in 1..Len(log),
         Stored(o) < i, OutboundThen(o, i)
  PROVE  tree[o].direction = "outbound"
<1> DEFINE C == At({"parse", "direct"}, o)
           B == {k \in C : k < i}
           c == Current(o)
<1>1. Len(log) \in Nat /\ C \in SUBSET (1..Len(log)) /\ DOMAIN log = 1..Len(log)
  BY AtIsPlaces, GrownLog DEF TypeOK
<1>2. c \in C /\ c \in DOMAIN log /\ log[c].kind \in {"parse", "direct"} /\ log[c].file = o
  BY OutboundNow DEF At
<1>3. tree[o].direction = log[c].direction
  BY DEF Chronicle
<1>4. \A k \in C : k <= c
  <2>1. C # {} /\ c = Last(C)
    BY <1>2 DEF Current
  <2> HIDE DEF C, c
  <2> QED
    BY <1>1, <2>1, LastIs
<1>5. Last(B) # 0 /\ log[Last(B)].direction = "outbound"
  BY DEF OutboundThen
<1>6. Last(B) \in B /\ \A k \in B : k <= Last(B)
  <2>1. B \in SUBSET (1..Len(log))
    BY <1>1
  <2> HIDE DEF B
  <2> QED
    BY <1>1, <1>5, <2>1, LastIs
<1>7. CASE c < i
  <2>1. c \in B
    BY <1>2, <1>7
  <2>2. c <= Last(B) /\ Last(B) <= c /\ c \in Nat /\ Last(B) \in Nat
    BY <1>1, <1>2, <1>4, <1>6, <2>1
  <2>3. c = Last(B)
    <3> HIDE DEF c, B
    <3> QED
      BY <2>2
  <2> QED
    BY <1>3, <1>5, <2>3
<1>8. CASE ~(c < i)
  <2>1. Stored(o) < c
    BY <1>1, <1>2, <1>8, StoredIsPlace
  <2>2. c \notin At({"parse"}, o)
    BY <1>1, <1>2, <2>1, StoredIsPlace
  <2>3. log[c].kind = "direct"
    BY <1>2, <2>2 DEF At
  <2>4. Last(B) \in DOMAIN log /\ log[Last(B)].kind \in {"parse", "direct"} /\ log[Last(B)].file = o
    BY <1>1, <1>6 DEF At
  <2> QED
    BY <1>2, <1>3, <1>5, <2>3, <2>4, OutboundStays
<1> QED
  BY <1>7, <1>8

LEMMA PendingGrows ==
  ASSUME TypeOK, TypeOK', Chronicle, Pending, NEW e, Written(e)
  PROVE  Pending'
<1> DEFINE n == Len(log)
<1> Grown(e)
  BY DEF Written
<1>1. /\ n \in Nat /\ Len(log') = n + 1 /\ log'[n + 1] = e
      /\ \A i \in 1..n : log'[i] = log[i]
  BY GrownLog
<1> SUFFICES ASSUME ScanAt' # 0, Unbroken', NEW o \in Originals, NEW a \in Acks, Due(a, o)'
             PROVE  a \in backfill' \/ tree'[o].confirmed # 0
  BY DEF Pending
<1>2. o \in Files /\ a \in Files
  BY NoneFacts
<1>3. CASE e.kind = "scan"
  <2>1. At({"parse"}, a)' = At({"parse"}, a)
    BY <1>3, GrownAt
  <2>2. tree[a] # None
    BY <1>2, <2>1 DEF Due, Chronicle
  <2> QED
    BY <1>3, <2>2 DEF Written
<1>4. CASE e.kind # "scan"
  <2>1. ScanAt' = ScanAt /\ ScanAt \in 1..n
    BY <1>4, ScanAtGrows, ScanAtFacts
  <2>2. e.kind # "abort" /\ Unbroken
    <3>1. n + 1 \in (ScanAt' + 1)..Len(log')
      BY <1>1, <2>1
    <3>2. \A i \in (ScanAt + 1)..n : i \in (ScanAt' + 1)..Len(log') /\ log'[i] = log[i]
      BY <1>1, <2>1
    <3> QED
      BY <1>1, <3>1, <3>2 DEF Unbroken
  <2>3. ~Stores(e, o) /\ Stored(o)' = Stored(o)
    <3>1. Stored(o)' = IF Stores(e, o) THEN n + 1 ELSE Stored(o)
      BY GrownStored DEF Stores
    <3>2. Stored(o)' < ScanAt
      BY <2>1 DEF Due
    <3> QED
      BY <1>1, <2>1, <3>1, <3>2
  <2>4. \E i \in At({"parse"}, a) : i < ScanAt
    <3>1. At({"parse"}, a)' \in {At({"parse"}, a), At({"parse"}, a) \cup {n + 1}}
      BY GrownAt
    <3>2. \E i \in At({"parse"}, a)' : i < ScanAt
      BY <2>1 DEF Due
    <3> QED
      BY <1>1, <2>1, <3>1, <3>2
  <2>5. 0 < Stored(a)
    BY <2>4, StoredIsPlace
  <2>6. OutboundThen(o, ScanAt)
    <3> PICK i \in 1..(n + 1) : i = ScanAt
      BY <1>1, <2>1
    <3> DEFINE C == At({"parse", "direct"}, o)
    <3>1. {k \in C' : k < ScanAt'} = {k \in C' : k < i} /\ {k \in C : k < ScanAt} = {k \in C : k < i}
      BY <2>1
    <3>2. OutboundThen(o, ScanAt)' <=> OutboundThen(o, i)'
      BY <3>1 DEF OutboundThen
    <3>3. OutboundThen(o, ScanAt) <=> OutboundThen(o, i)
      BY <3>1 DEF OutboundThen
    <3>4. OutboundThen(o, i)' <=> OutboundThen(o, i)
      BY GrownThen
    <3> QED
      BY <3>2, <3>3, <3>4 DEF Due
  <2>7. Due(a, o)
    BY <2>1, <2>3, <2>4, <2>5, <2>6 DEF Due, Acknowledges
  <2>8. a \in backfill \/ tree[o].confirmed # 0
    BY <2>1, <2>2, <2>7 DEF Pending
  <2>9. tree[o] # None /\ tree'[o] # None
    <3>1. tree[o] # None
      BY <1>2, <2>7, StoredIsPlace DEF Due, Chronicle
    <3> QED
      BY <1>2, <3>1 DEF Written
  <2>10. CASE tree[o].confirmed # 0
    BY <2>3, <2>9, <2>10 DEF Written
  <2>11. CASE tree[o].confirmed = 0
    <3>1. a \in backfill
      BY <2>8, <2>11
    <3>2. CASE e.kind = "apply" /\ e.file = a
      <4>1. tree[o].direction = "outbound"
        BY <1>2, <2>1, <2>7, <2>9, OutboundSince DEF Due
      <4>2. Confirms(e, o)
        BY <2>7, <3>2 DEF Due, Confirms
      <4>3. tree'[o].confirmed = at[e.file]
        BY <2>3, <2>9, <2>11, <4>1, <4>2 DEF Written
      <4> QED
        BY <3>2, <4>3 DEF Written
    <3>3. CASE ~(e.kind = "apply" /\ e.file = a)
      <4>1. e.kind \in {"parse", "direct", "apply"}
        BY <1>4, <2>2 DEF Grown, Entries, Kinds
      <4> QED
        BY <3>1, <3>3, <4>1 DEF Written
    <3> QED
      BY <3>2, <3>3
  <2> QED
    BY <2>10, <2>11
<1> QED
  BY <1>3, <1>4
-----------------------------------------------------------------------------
ConfInv == TypeOK /\ StoredFirst /\ Chronicle /\ ByFirst /\ Pending

LEMMA ConfInit == Init => ConfInv
<1> SUFFICES ASSUME Init PROVE ConfInv
  OBVIOUS
<1>1. log = <<>> /\ Len(log) = 0 /\ DOMAIN log = {}
  BY DEF Init
<1>2. TypeOK
  BY DEF Init, TypeOK, NoParse, NoUpdate
<1>3. StoredFirst
  BY NoneFacts DEF Init, StoredFirst, NoParse, NoUpdate
<1>4. \A kinds, f : At(kinds, f) = {}
  BY <1>1 DEF At
<1>5. \A f \in Files : tree[f] = None
  BY DEF Init
<1>6. Chronicle
  BY <1>1, <1>4, <1>5 DEF Chronicle
<1>7. ByFirst
  BY <1>5, NoneFacts DEF ByFirst
<1>8. ScanAt = 0
  <2>1. {i \in DOMAIN log : log[i].kind = "scan"} = {}
    BY <1>1
  <2> QED
    BY <2>1 DEF ScanAt, Last
<1> QED
  BY <1>2, <1>3, <1>6, <1>7, <1>8 DEF ConfInv, Pending

LEMMA QuietKeeps ==
  ASSUME ConfInv, UNCHANGED <<tree, log, backfill>>, \A g \in Files : at[g] # 0 => at'[g] = at[g]
  PROVE  Chronicle' /\ ByFirst' /\ Pending'
<1>1. \A i \in DOMAIN log : log[i].kind \in {"parse", "direct", "apply"} =>
        log[i].file \in Files /\ at[log[i].file] # 0 /\ at'[log[i].file] = at[log[i].file]
  BY DEF ConfInv, Chronicle
<1> log' = log /\ tree' = tree /\ backfill' = backfill
  OBVIOUS
<1>2. Chronicle'
  <2>1. \A kinds, f : At(kinds, f)' = At(kinds, f)
    BY DEF At
  <2>2. \A f : Current(f)' = Current(f)
    BY DEF Current, At
  <2>3. Chronicle
    BY DEF ConfInv
  <2>4. \A f \in Files : tree'[f] # None <=> At({"parse"}, f)' # {}
    BY <2>1, <2>3 DEF Chronicle
  <2>5. \A f \in Files : tree'[f] # None => tree'[f].direction = log'[Current(f)'].direction
    BY <2>2, <2>3 DEF Chronicle
  <2>6. \A i \in DOMAIN log' :
          /\ log'[i].kind \in {"parse", "direct", "apply"} => log'[i].file \in Files /\ at'[log'[i].file] # 0
          /\ log'[i].kind = "parse" => \E c \in BOOLEAN : log'[i].direction = Direction(log'[i].file, c)
          /\ log'[i].kind = "direct" => log'[i].direction = Direction(log'[i].file, TRUE)
          /\ log'[i].kind = "apply" =>
               \E j \in 1..(i - 1) : log'[j].kind = "parse" /\ log'[j].file = log'[i].file
    <3> TAKE i \in DOMAIN log'
    <3>1. i \in DOMAIN log /\ log'[i] = log[i]
      OBVIOUS
    <3>2. \A j : log'[j] = log[j]
      OBVIOUS
    <3>3. log[i].kind \in {"parse", "direct", "apply"} => log[i].file \in Files /\ at'[log[i].file] # 0
      BY <1>1, <3>1
    <3>4. log[i].kind = "parse" => \E c \in BOOLEAN : log[i].direction = Direction(log[i].file, c)
      BY <2>3, <3>1 DEF Chronicle
    <3>5. log[i].kind = "direct" => log[i].direction = Direction(log[i].file, TRUE)
      BY <2>3, <3>1 DEF Chronicle
    <3>6. log[i].kind = "apply" => \E j \in 1..(i - 1) : log[j].kind = "parse" /\ log[j].file = log[i].file
      BY <2>3, <3>1 DEF Chronicle
    <3>7. log'[i].kind = log[i].kind /\ log'[i].file = log[i].file /\ log'[i].direction = log[i].direction
      BY <3>2
    <3>8. \A j : log'[j].kind = log[j].kind /\ log'[j].file = log[j].file
      BY <3>2
    <3> QED
      BY <3>3, <3>4, <3>5, <3>6, <3>7, <3>8
  <2> QED
    BY <2>4, <2>5, <2>6 DEF Chronicle
<1>3. ByFirst'
  <2>0. ASSUME NEW o PROVE Applied(o)' = Applied(o)
    <3>1. \A i : OutboundThen(o, i)' = OutboundThen(o, i)
      BY DEF OutboundThen, At
    <3>2. Stored(o)' = Stored(o)
      BY DEF Stored, At
    <3> QED
      BY <3>1, <3>2 DEF Applied, Acknowledges
  <2> SUFFICES ASSUME NEW o \in Originals, tree[o] # None
               PROVE  tree[o].confirmed = IF Applied(o) = {} THEN 0 ELSE at'[log[Min(Applied(o))].file]
    BY <2>0 DEF ByFirst
  <2>1. CASE Applied(o) = {}
    BY <2>1 DEF ConfInv, ByFirst
  <2>2. CASE Applied(o) # {}
    <3>1. Applied(o) \in SUBSET Nat /\ Applied(o) \in SUBSET (DOMAIN log)
      BY NoneFacts, AppliedIsPlaces, GrownLog DEF ConfInv, TypeOK
    <3>2. Min(Applied(o)) \in Applied(o)
      BY <2>2, <3>1, MinIs
    <3>3. log[Min(Applied(o))].kind \in {"parse", "apply"} /\ Min(Applied(o)) \in DOMAIN log
      BY <3>1, <3>2 DEF Applied
    <3>4. at'[log[Min(Applied(o))].file] = at[log[Min(Applied(o))].file]
      BY <1>1, <3>3
    <3> QED
      BY <2>2, <3>4 DEF ConfInv, ByFirst
  <2> QED
    BY <2>1, <2>2
<1>4. Pending'
  <2>1. ScanAt' = ScanAt /\ Unbroken' = Unbroken
    BY DEF ScanAt, Unbroken
  <2>2. \A a, o : Due(a, o)' = Due(a, o)
    BY DEF Due, ScanAt, Stored, At, OutboundThen, Acknowledges
  <2> QED
    BY <2>1, <2>2 DEF ConfInv, Pending
<1> QED
  BY <1>2, <1>3, <1>4

LEMMA ConfNext == ConfInv /\ [Next]_vars => ConfInv'
<1> SUFFICES ASSUME ConfInv, [Next]_vars PROVE ConfInv'
  OBVIOUS
<1>1. TypeOK' /\ StoredFirst'
  BY Booked DEF ConfInv
<1>2. CASE \E e : Written(e)
  <2> PICK e : Written(e)
    BY <1>2
  <2> QED
    BY <1>1, ChronicleGrows, ByFirstGrows, PendingGrows DEF ConfInv
<1>3. CASE UNCHANGED <<tree, log, backfill>> /\ \A g \in Files : at[g] # 0 => at'[g] = at[g]
  BY <1>1, <1>3, QuietKeeps DEF ConfInv
<1> QED
  BY <1>2, <1>3, StepsAreWritten DEF ConfInv

THEOREM Typing == Spec => []TypeOK
<1>1. ConfInv => TypeOK
  BY DEF ConfInv
<1> QED
  BY <1>1, ConfInit, ConfNext, PTL DEF Spec

\* confirmedAt is the arrival of the acknowledgment that was applied first, and the
\* earliest one if files are parsed in the order of their arrival (parsing.ts:231-266).
THEOREM ConfirmationsAreEarned == Spec => []ConfirmedByFirst
<1>1. ConfInv => ConfirmedByFirst
  <2> SUFFICES ASSUME ConfInv PROVE ConfirmedByFirst
    OBVIOUS
  <2>1. \A f \in Files : status[f] \in {"PARSED", "PARSE_ERROR"} <=> tree[f] # None
    BY DEF ConfInv, StoredFirst
  <2>2. \A o \in Originals :
          tree[o] # None =>
            tree[o].confirmed = IF Applied(o) = {} THEN 0 ELSE at[log[Min(Applied(o))].file]
    BY DEF ConfInv, ByFirst
  <2> QED
    BY <2>1, <2>2, EarliestInOrder DEF ConfInv, ConfirmedByFirst
<1> QED
  BY <1>1, ConfInit, ConfNext, PTL DEF Spec

\* A run of the backfill that goes through leaves no original unconfirmed whose
\* acknowledgment was stored when it began (parsing.ts:296-302).
THEOREM BackfillsStitch == Spec => []BackfillStitches
<1>1. ConfInv => BackfillStitches
  <2> SUFFICES ASSUME ConfInv, ScanAt # 0, backfill = {}, Unbroken,
                      NEW o \in Originals, NEW a \in Acks, Due(a, o)
               PROVE  tree[o].confirmed # 0
    BY DEF BackfillStitches, ScanAt, Unbroken, Due
  <2> QED
    BY DEF ConfInv, Pending
<1> QED
  BY <1>1, ConfInit, ConfNext, PTL DEF Spec
=============================================================================
