---------------------------- MODULE Confirmation ----------------------------
(***************************************************************************)
(* Parsing a stored file into its tree of transactions, and the time at    *)
(* which an outbound original counts as confirmed by its partner's 997/999 *)
(* (apps/api/src/services/parsing.ts; scripts/backfill-parse.ts,           *)
(* backfill-confirmed-at.ts, backfill-direction.ts).                       *)
(*                                                                         *)
(* A file holds one transaction: an original, known to its partner by a    *)
(* key (group control number, set and control number), or an               *)
(* acknowledgment of some keys.  A parse reads the tenant's ISA ids, then  *)
(* commits one database transaction; several may run at once, of one file  *)
(* or of different ones.  Times are the order in which files arrived.      *)
(***************************************************************************)
EXTENDS Naturals, Sequences, FiniteSets, FiniteSetsExt

CONSTANTS
  Originals,  \* files with an original
  Acks,       \* files with an acknowledgment
  Sent,       \* the originals whose sender is one of our ids, once configured
  Flawed,     \* the files with a transaction that validation rejects
  Key,        \* the key of each original
  Covers,     \* the keys each acknowledgment names
  Parsers,    \* parse calls that may run at once
  None,
  MaxReparses, \* bound: parses of files that were stored before
  MaxScripts,  \* bound: runs of each backfill script
  MaxSettings  \* bound: changes of the tenant's ISA ids

Files == Originals \cup Acks

ASSUME ConfirmationAssumption ==
  /\ Originals \cap Acks = {} /\ IsFiniteSet(Files)
  /\ None \notin Files /\ None \notin BOOLEAN /\ None \notin {"RECEIVED", "PARSED", "PARSE_ERROR"}
  /\ None \notin [direction : {"unknown", "outbound", "inbound"}, confirmed : Nat]
  /\ Sent \subseteq Originals /\ Flawed \subseteq Files
  /\ MaxReparses \in Nat /\ MaxScripts \in Nat /\ MaxSettings \in Nat

VARIABLES
  at,       \* raw_files.ingested_at, 0 for a file that has not arrived
  status,   \* raw_files.status, or None
  tree,     \* the parsed transaction of each file, or None
  ours,     \* are our ISA ids configured on the tenant
  parser,   \* per parse call: its file, and the ISA ids it has read
  backfill, \* acknowledgments the confirmed-at script has yet to apply
  direct,   \* the direction script: rows to update, and those replaced since
  log,      \* history: parses, direction changes and acknowledgments, in order
  reparses, scripts, settings

work   == <<parser, backfill, direct>>
bounds == <<reparses, scripts, settings>>
vars   == <<at, status, tree, ours, work, log, bounds>>

Clock == Cardinality({f \in Files : at[f] # 0})

NoParse  == [file |-> None, read |-> None]
NoUpdate == [todo |-> {}, gone |-> {}]

\* computeDirection of a file's transaction, with the ids configured or not.
Direction(f, configured) == IF ~configured THEN "unknown"
                            ELSE IF f \in Sent THEN "outbound" ELSE "inbound"

FinalStatus(f) == IF f \in Flawed THEN "PARSE_ERROR" ELSE "PARSED"

Note(kind, f, direction) ==
  log' = Append(log, [kind |-> kind, file |-> f, direction |-> direction])
-----------------------------------------------------------------------------
Init == /\ at = [f \in Files |-> 0]
        /\ status = [f \in Files |-> None]
        /\ tree = [f \in Files |-> None]
        /\ ours \in BOOLEAN
        /\ parser = [p \in Parsers |-> NoParse]
        /\ backfill = {}
        /\ direct = NoUpdate
        /\ log = <<>>
        /\ reparses = 0 /\ scripts = 0 /\ settings = 0

\* A new file is stored, and its inline parse begins.
Ingest(p, f) ==
  /\ status[f] = None
  /\ parser[p] = NoParse
  /\ at' = [at EXCEPT ![f] = Clock + 1]
  /\ status' = [status EXCEPT ![f] = "RECEIVED"]
  /\ parser' = [parser EXCEPT ![p].file = f]
  /\ UNCHANGED <<tree, ours, backfill, direct, log, bounds>>

\* Reconcile or the parse script takes up a file that was stored before.
Reparse(p, f) ==
  /\ reparses < MaxReparses
  /\ status[f] # None
  /\ parser[p] = NoParse
  /\ parser' = [parser EXCEPT ![p].file = f]
  /\ reparses' = reparses + 1
  /\ UNCHANGED <<at, status, tree, ours, backfill, direct, log, scripts, settings>>

\* The parse looks up the tenant.
Read(p) ==
  /\ parser[p].file # None /\ parser[p].read = None
  /\ parser' = [parser EXCEPT ![p].read = ours]
  /\ UNCHANGED <<at, status, tree, ours, backfill, direct, log, bounds>>

\* Slip: without the guard on confirmedAt.
ConfirmUnguarded(a, t, o) ==
  IF /\ o \in Originals /\ t # None
     /\ t.direction = "outbound" /\ Key[o] \in Covers[a]
  THEN [t EXCEPT !.confirmed = at[a]]
  ELSE t

\* propagateConfirmedAtForAcks, for one acknowledgment a and one row t of o.
Confirm(a, t, o) ==
  IF /\ o \in Originals /\ t # None
     /\ t.direction = "outbound" /\ Key[o] \in Covers[a]
     /\ t.confirmed = 0
  THEN [t EXCEPT !.confirmed = at[a]]
  ELSE t

\* The parse's transaction: the old tree is deleted, the new one created, the
\* status set, and the acknowledgments of this file applied to the originals.
Commit(p) ==
  LET f == parser[p].file
      t == [direction |-> Direction(f, parser[p].read), confirmed |-> 0]
      new == [tree EXCEPT ![f] = t]
  IN /\ f # None /\ parser[p].read # None
     /\ tree' = IF f \in Acks THEN [o \in Files |-> Confirm(f, new[o], o)] ELSE new
     /\ status' = [status EXCEPT ![f] = FinalStatus(f)]
     /\ parser' = [parser EXCEPT ![p] = NoParse]
     /\ direct' = [direct EXCEPT !.gone = @ \cup ({f} \cap direct.todo)]
     /\ Note("parse", f, t.direction)
     /\ UNCHANGED <<at, ours, backfill, bounds>>

\* The parse throws, its transaction rolls back (another parse of the file won
\* the unique row, or a call failed), or the process dies.
GiveUp(p) ==
  /\ parser[p] # NoParse
  /\ parser' = [parser EXCEPT ![p] = NoParse]
  /\ UNCHANGED <<at, status, tree, ours, backfill, direct, log, bounds>>

\* The tenant's ISA ids are set, or cleared.  No stored row is recomputed.
SetOurIsaIds ==
  /\ settings < MaxSettings
  /\ settings' = settings + 1
  /\ ours' = ~ours
  /\ UNCHANGED <<at, status, tree, work, log, reparses, scripts>>
-----------------------------------------------------------------------------
Script == scripts < MaxScripts /\ scripts' = scripts + 1

\* Slip: acknowledgments in a file with an error elsewhere are left out.
BackfillScanParsed ==
  /\ Script
  /\ backfill = {}
  /\ backfill' = {a \in Acks : status[a] = "PARSED"}
  /\ Note("scan", None, None)
  /\ UNCHANGED <<at, status, tree, ours, parser, direct, reparses, settings>>

\* backfillConfirmedAt reads every stored acknowledgment, then applies them
\* one by one, in the order the database returned them.
BackfillScan ==
  /\ Script
  /\ backfill = {}
  /\ backfill' = {a \in Acks : tree[a] # None}
  /\ Note("scan", None, None)
  /\ UNCHANGED <<at, status, tree, ours, parser, direct, reparses, settings>>

BackfillAck(a) ==
  /\ a \in backfill
  /\ tree' = [o \in Files |-> Confirm(a, tree[o], o)]
  /\ backfill' = backfill \ {a}
  /\ Note("apply", a, None)
  /\ UNCHANGED <<at, status, ours, parser, direct, bounds>>

\* An update fails: the script ends.
BackfillAbort ==
  /\ backfill # {}
  /\ backfill' = {}
  /\ Note("abort", None, None)
  /\ UNCHANGED <<at, status, tree, ours, parser, direct, bounds>>

\* backfill-direction reads every row, if the ids are configured, and updates
\* the ones whose direction is another now.
DirectScan ==
  /\ Script
  /\ ours
  /\ direct = NoUpdate
  /\ direct' = [NoUpdate EXCEPT !.todo = {f \in Files : /\ tree[f] # None
                                                        /\ tree[f].direction # Direction(f, TRUE)}]
  /\ UNCHANGED <<at, status, tree, ours, parser, backfill, log, reparses, settings>>

DirectUpdate(f) ==
  /\ f \in direct.todo \ direct.gone
  /\ tree' = [tree EXCEPT ![f].direction = Direction(f, TRUE)]
  /\ direct' = [direct EXCEPT !.todo = @ \ {f}]
  /\ Note("direct", f, Direction(f, TRUE))
  /\ UNCHANGED <<at, status, ours, parser, backfill, bounds>>

\* A row was replaced by a parse, so that its update finds nothing, or an update
\* fails: the script ends.
DirectAbort ==
  /\ direct.todo # {}
  /\ direct' = NoUpdate
  /\ UNCHANGED <<at, status, tree, ours, parser, backfill, log, bounds>>
-----------------------------------------------------------------------------
Parsing(p) == Read(p) \/ Commit(p) \/ GiveUp(p)

Next == \/ \E p \in Parsers : \/ Parsing(p)
                              \/ \E f \in Files : Ingest(p, f) \/ Reparse(p, f)
        \/ SetOurIsaIds
        \/ BackfillScan \/ BackfillAbort \/ \E a \in Acks : BackfillAck(a)
        \/ DirectScan \/ DirectAbort \/ \E f \in Files : DirectUpdate(f)

Spec == Init /\ [][Next]_vars
-----------------------------------------------------------------------------

\* What the history says of an original: where it was last stored, and which
\* acknowledgments were applied to it since, while it was outbound.
Last(S) == IF S = {} THEN 0 ELSE Max(S)
At(kinds, f) == {i \in DOMAIN log : log[i].kind \in kinds /\ log[i].file = f}
Stored(o) == Last(At({"parse"}, o))
OutboundThen(o, i) ==
  LET j == Last({k \in At({"parse", "direct"}, o) : k < i})
  IN j # 0 /\ log[j].direction = "outbound"
Acknowledges(a, o) == a \in Acks /\ Key[o] \in Covers[a]
Applied(o) == {i \in (Stored(o) + 1)..Len(log) :
                 /\ log[i].kind \in {"parse", "apply"}
                 /\ Acknowledges(log[i].file, o)
                 /\ OutboundThen(o, i)}

\* Every file so far was parsed in the order in which the files arrived, and once.
InOrder == \A i, j \in DOMAIN log :
             log[i].kind = "parse" /\ log[j].kind = "parse" /\ i < j =>
               at[log[i].file] < at[log[j].file]

\* Confirmations are earned, whatever parses run at once or roll back.  A file is
\* marked as parsed exactly when its tree is stored (parsing.ts:385-396).
\* confirmedAt is the arrival of the acknowledgment that was applied first since
\* the original was last stored; an original that none was applied to, or that was
\* not outbound then, is not confirmed (parsing.ts:231-266).  That is the earliest
\* acknowledgment at the latest if files are parsed in the order in which they
\* arrived (parsing.ts:235-238).
ConfirmedByFirst ==
  /\ \A f \in Files : status[f] \in {"PARSED", "PARSE_ERROR"} <=> tree[f] # None
  /\ \A o \in Originals :
       tree[o] # None =>
         tree[o].confirmed = IF Applied(o) = {} THEN 0 ELSE at[log[Min(Applied(o))].file]
  /\ InOrder =>
       \A o \in Originals :
         LET later == {at[a] : a \in {b \in Acks : /\ Acknowledges(b, o)
                                                  /\ tree[b] # None /\ at[b] > at[o]}}
         IN Stored(o) # 0 /\ log[Stored(o)].direction = "outbound" /\ later # {} =>
              tree[o].confirmed \in 1..Min(later)

\* After a backfill that went through, every original that was stored and
\* outbound when it began, and not stored again since, is confirmed if an
\* acknowledgment of it was stored by then (parsing.ts:296-302).
BackfillStitches ==
  LET s == Last({i \in DOMAIN log : log[i].kind = "scan"})
      through == backfill = {} /\ \A i \in (s + 1)..Len(log) : log[i].kind # "abort"
  IN s # 0 /\ through =>
       \A o \in Originals, a \in Acks :
         /\ Acknowledges(a, o)
         /\ 0 < Stored(a) /\ \E i \in At({"parse"}, a) : i < s
         /\ 0 < Stored(o) /\ Stored(o) < s /\ OutboundThen(o, s)
         => tree[o].confirmed # 0
=============================================================================
