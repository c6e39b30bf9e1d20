----------------------------- MODULE Ingestion -----------------------------
(***************************************************************************)
(* How a file becomes a raw_files row: the pipeline every channel funnels  *)
(* through (apps/api/src/services/ingestion.ts), the drop folders and HTTP *)
(* uploads that feed it (channels/drop-folder.ts, routes/ingest.ts) and    *)
(* the reconcile that a boot runs (services/parsing.ts, index.ts).         *)
(*                                                                         *)
(* One tenant: the drop folders are pinned to it and the control number is *)
(* unique per tenant.  A file is its content; two files may have the same  *)
(* control number or the same basename.  A call of ingestRawFile is a      *)
(* chain of awaited database and storage calls, one action each.  The age  *)
(* of a row is kept as "older than the reconcile window or not", and the   *)
(* files a channel has queued are a set: it takes them one at a time, and  *)
(* no property depends on which comes first.                               *)
(***************************************************************************)
EXTENDS Naturals, FiniteSets

CONSTANTS
  Files,      \* contents that may arrive
  Control,    \* the ISA control number of each, or None
  Class,      \* "x12", "broken" (an X12 envelope that does not read), "foreign" or "empty"
  Good,       \* the files that parse without an error
  NameOf,     \* the basename of each
  Channels,   \* drop folders, each with its own three directories
  Uploads,    \* HTTP upload requests that may run at once
  None,
  MaxTries,   \* config.retry.maxAttempts
  Ids,        \* bound: identities for stored objects and rows
  MaxGiven,   \* bound: how often one content is sent
  MaxCrashes, \* bound: process crashes
  MaxFaults   \* bound: database, storage or file-system calls that fail

Names    == {NameOf[f] : f \in Files}
Agents   == Channels \cup Uploads
Statuses == {"RECEIVED", "PARSED", "PARSE_ERROR", "UNRECOGNIZED_FORMAT"}
Rows     == [file : Files, status : Statuses, old : BOOLEAN]

ASSUME IngestionAssumption ==
  /\ Class \in [Files -> {"x12", "broken", "foreign", "empty"}]
  /\ \A f \in Files : Control[f] # None <=> Class[f] = "x12"
  /\ Good \subseteq {f \in Files : Class[f] = "x12"}
  /\ None \notin Files \cup Ids /\ None \notin Rows
  /\ Channels \cap Uploads = {} /\ Agents # {}
  /\ IsFiniteSet(Ids) /\ IsFiniteSet(Agents)
  /\ MaxTries \in Nat \ {0} /\ MaxGiven \in [Files -> Nat] /\ MaxCrashes \in Nat /\ MaxFaults \in Nat

VARIABLES
  watch, processed, failed, \* per channel and basename: the file there, or None
  queued,     \* per channel: basenames with an 'add' event not yet handled
  call,       \* per agent: its call of ingestRawFile, and what is left to do
  objects,    \* storage: the bytes under each key, or None
  rows,       \* raw_files: the row with each id, or None
  up,         \* is the API process running
  scanDue,    \* this boot's reconcile has not looked for stuck rows yet
  stuck,      \* rows this boot's reconcile still has to parse
  given,      \* history: how often each file was dropped or uploaded
  dropped,    \* history: files dropped into a watch folder
  answered,   \* history: files whose upload was answered with 200
  crashes, faults

folders == <<watch, processed, failed, queued>>
boot    == <<up, scanDue, stuck>>
past    == <<given, dropped, answered>>
bounds  == <<crashes, faults>>
vars    == <<folders, call, objects, rows, boot, past, bounds>>

NoCall == [at |-> "idle", file |-> None, id |-> None, tries |-> 0]
Stages == {"idle", "probe", "upload", "insert", "race", "parse",
           "ok", "bad", "caught"}

Row(f, status) == [file |-> f, status |-> status, old |-> FALSE]

\* The row that the unique index on (tenant, ISA control number) knows.
Known(f) == \E i \in Ids : /\ rows[i] # None
                           /\ Class[f] = "x12"
                           /\ Control[rows[i].file] = Control[f]

\* A random UUID: one that nothing has, and no matter which.
UsedIds == {i \in Ids : rows[i] # None \/ objects[i] # None}
             \cup {call[a].id : a \in Agents}
FreshId == CHOOSE i \in Ids : i \notin UsedIds

FirstStatus(f) == CASE Class[f] = "x12"     -> "RECEIVED"
                    [] Class[f] = "broken"  -> "PARSE_ERROR"
                    [] Class[f] = "foreign" -> "UNRECOGNIZED_FORMAT"
ParsedStatus(f) == IF f \in Good THEN "PARSED" ELSE "PARSE_ERROR"

Step(a, from, to) == /\ up
                     /\ call[a].at = from
                     /\ call' = [call EXCEPT ![a].at = to]

Fault == /\ faults < MaxFaults
         /\ faults' = faults + 1
         /\ UNCHANGED crashes
-----------------------------------------------------------------------------
EmptyDirs == [c \in Channels |-> [n \in Names |-> None]]

Init == /\ watch = EmptyDirs /\ processed = EmptyDirs /\ failed = EmptyDirs
        /\ queued = [c \in Channels |-> {}]
        /\ call = [a \in Agents |-> NoCall]
        /\ objects = [i \in Ids |-> None]
        /\ rows = [i \in Ids |-> None]
        /\ up = TRUE /\ scanDue = TRUE /\ stuck = {}
        /\ given = [f \in Files |-> 0]
        /\ dropped = {} /\ answered = {}
        /\ crashes = 0 /\ faults = 0

\* A partner writes a file into a watch folder, under a name that is free
\* there.  The watcher, if it runs, reports it.
Drop(c, f) ==
  /\ f \notin dropped
  /\ watch[c][NameOf[f]] = None
  /\ watch' = [watch EXCEPT ![c][NameOf[f]] = f]
  /\ queued' = IF up THEN [queued EXCEPT ![c] = @ \cup {NameOf[f]}] ELSE queued
  /\ given' = [given EXCEPT ![f] = @ + 1]
  /\ dropped' = dropped \cup {f}
  /\ UNCHANGED <<processed, failed, call, objects, rows, boot, answered, bounds>>

\* The beginning of ingestRawFile: refuse an empty file, else go to the database.
Begin(a, f) ==
  call' = [call EXCEPT ![a] =
             [at |-> IF Class[f] = "empty" THEN "bad" ELSE "probe",
              file |-> f, id |-> None, tries |-> 0]]

\* The channel takes the next queued file and reads it.
Take(c, n) ==
  /\ up
  /\ call[c].at = "idle"
  /\ n \in queued[c]
  /\ watch[c][n] # None
  /\ Begin(c, watch[c][n])
  /\ queued' = [queued EXCEPT ![c] = @ \ {n}]
  /\ UNCHANGED <<watch, processed, failed, objects, rows, boot, past, bounds>>

\* A client posts a content, perhaps one that was dropped, or posted and
\* answered, before.
Upload(u, f) ==
  /\ up
  /\ call[u].at = "idle"
  /\ given[f] < MaxGiven[f]
  /\ Begin(u, f)
  /\ given' = [given EXCEPT ![f] = @ + 1]
  /\ UNCHANGED <<folders, objects, rows, boot, dropped, answered, bounds>>

\* Slip: no look at the database before the bytes are stored.
ProbeSkipped(a) ==
  /\ up /\ call[a].at = "probe"
  /\ Ids \ UsedIds # {}
  /\ call' = [call EXCEPT ![a].at = "upload", ![a].id = FreshId]
  /\ UNCHANGED <<folders, objects, rows, boot, past, bounds>>

\* The database is asked before storage is touched: a known control number is
\* a duplicate, a new file gets its id.
Probe(a) ==
  /\ \/ /\ Step(a, "probe", "ok")
        /\ Known(call[a].file)
     \/ /\ up /\ call[a].at = "probe"
        /\ ~Known(call[a].file)
        /\ Ids \ UsedIds # {}
        /\ call' = [call EXCEPT ![a].at = "upload", ![a].id = FreshId]
  /\ UNCHANGED <<folders, objects, rows, boot, past, bounds>>

\* Slip: the upload is not awaited.
StoreNotAwaited(a) ==
  /\ Step(a, "upload", "insert")
  /\ \/ UNCHANGED objects
     \/ objects' = [objects EXCEPT ![call[a].id] = call[a].file]
  /\ UNCHANGED <<folders, rows, boot, past, bounds>>

\* The bytes are stored under the new key.
Store(a) ==
  /\ Step(a, "upload", "insert")
  /\ objects' = [objects EXCEPT ![call[a].id] = call[a].file]
  /\ UNCHANGED <<folders, rows, boot, past, bounds>>

\* The row is inserted, unless the unique index finds the control number.
Insert(a) ==
  LET f == call[a].file IN
  /\ \/ /\ Step(a, "insert", "race")
        /\ Known(f)
        /\ UNCHANGED rows
     \/ /\ Step(a, "insert", IF Class[f] = "x12" THEN "parse" ELSE "ok")
        /\ ~Known(f)
        /\ rows' = [rows EXCEPT ![call[a].id] = Row(f, FirstStatus(f))]
  /\ UNCHANGED <<folders, objects, boot, past, bounds>>

\* The row that won the race is found: this file is a duplicate after all.
Race(a) ==
  /\ Step(a, "race", IF Known(call[a].file) THEN "ok" ELSE "bad")
  /\ UNCHANGED <<folders, objects, rows, boot, past, bounds>>

\* The inline parse commits; whatever becomes of it, the file counts as stored.
Parse(a) ==
  /\ Step(a, "parse", "ok")
  /\ rows' = [rows EXCEPT ![call[a].id] = Row(call[a].file, ParsedStatus(call[a].file))]
  /\ UNCHANGED <<folders, objects, boot, past, bounds>>
-----------------------------------------------------------------------------
(* Awaited calls that fail.  A write may have been applied all the same.   *)

\* The file cannot be read: handleFile's catch gets it.
TakeErrs(c, n) ==
  /\ Fault
  /\ up
  /\ call[c].at = "idle"
  /\ n \in queued[c]
  /\ watch[c][n] # None
  /\ call' = [call EXCEPT ![c] = [at |-> "caught", file |-> watch[c][n],
                                  id |-> None, tries |-> 0]]
  /\ queued' = [queued EXCEPT ![c] = @ \ {n}]
  /\ UNCHANGED <<watch, processed, failed, objects, rows, boot, past>>

ProbeErrs(a) ==
  /\ Fault
  /\ Step(a, "probe", "bad")
  /\ UNCHANGED <<folders, objects, rows, boot, past>>

\* uploadWithRetry: a transient error is tried again, up to MaxTries.
StoreErrs(a) ==
  /\ Fault
  /\ up /\ call[a].at = "upload"
  /\ \/ /\ call[a].tries + 1 < MaxTries
        /\ call' = [call EXCEPT ![a].tries = @ + 1]
     \/ call' = [call EXCEPT ![a].at = "bad"]
  /\ \/ UNCHANGED objects
     \/ objects' = [objects EXCEPT ![call[a].id] = call[a].file]
  /\ UNCHANGED <<folders, rows, boot, past>>

InsertErrs(a) ==
  LET f == call[a].file IN
  /\ Fault
  /\ Step(a, "insert", "bad")
  /\ \/ UNCHANGED rows
     \/ ~Known(f) /\ rows' = [rows EXCEPT ![call[a].id] = Row(f, FirstStatus(f))]
  /\ UNCHANGED <<folders, objects, boot, past>>

\* The second lookup throws out of ingestRawFile.
RaceErrs(a) ==
  /\ Fault
  /\ Step(a, "race", IF a \in Channels THEN "caught" ELSE "bad")
  /\ UNCHANGED <<folders, objects, rows, boot, past>>

ParseErrs(a) ==
  /\ Fault
  /\ Step(a, "parse", "ok")
  /\ \/ UNCHANGED rows
     \/ rows' = [rows EXCEPT ![call[a].id] = Row(call[a].file, ParsedStatus(call[a].file))]
  /\ UNCHANGED <<folders, objects, boot, past>>
-----------------------------------------------------------------------------
(* What the channel does with the file, and the route with the answer.     *)

Done(a) == call' = [call EXCEPT ![a] = NoCall]

\* Slip: every file goes to processed/, whatever the outcome was.
MoveAlways(c) ==
  LET f == call[c].file  n == NameOf[f] IN
  /\ up /\ call[c].at \in {"ok", "bad", "caught"}
  /\ watch' = [watch EXCEPT ![c][n] = None]
  /\ processed' = [processed EXCEPT ![c][n] = f]
  /\ Done(c)
  /\ UNCHANGED <<failed, queued, objects, rows, boot, past, bounds>>

\* moveFile: rename onto the same basename in processed/ or failed/,
\* replacing whatever lies there.
Move(c) ==
  LET f == call[c].file  n == NameOf[f] IN
  /\ up /\ call[c].at \in {"ok", "bad", "caught"}
  /\ watch' = [watch EXCEPT ![c][n] = None]
  /\ \/ /\ call[c].at = "ok"
        /\ processed' = [processed EXCEPT ![c][n] = f]
        /\ UNCHANGED failed
     \/ /\ call[c].at # "ok"
        /\ failed' = [failed EXCEPT ![c][n] = f]
        /\ UNCHANGED processed
  /\ Done(c)
  /\ UNCHANGED <<queued, objects, rows, boot, past, bounds>>

\* The move throws, once: handleFile's catch moves the file to failed/; twice:
\* it is logged and the file stays where it is.  Across devices the copy may
\* be there although the original is, too.
MoveErrs(c) ==
  LET f == call[c].file  n == NameOf[f] IN
  /\ Fault
  /\ up
  /\ \/ /\ call[c].at = "ok"
        /\ call' = [call EXCEPT ![c].at = "caught"]
        /\ \/ UNCHANGED processed
           \/ processed' = [processed EXCEPT ![c][n] = f]
        /\ UNCHANGED failed
     \/ /\ call[c].at = "bad"
        /\ call' = [call EXCEPT ![c].at = "caught"]
        /\ UNCHANGED <<processed, failed>>
     \/ /\ call[c].at = "caught"
        /\ Done(c)
        /\ \/ UNCHANGED failed
           \/ failed' = [failed EXCEPT ![c][n] = f]
        /\ UNCHANGED processed
  /\ UNCHANGED <<watch, queued, objects, rows, boot, past>>

\* The route answers 200 for stored and duplicate, an error otherwise.
Answer(u) ==
  /\ up
  /\ \/ /\ call[u].at = "ok"
        /\ answered' = answered \cup {call[u].file}
     \/ call[u].at = "bad" /\ UNCHANGED answered
  /\ Done(u)
  /\ UNCHANGED <<folders, objects, rows, boot, given, dropped, bounds>>
-----------------------------------------------------------------------------
(* The process: it dies, boots again, and reconciles once per boot.        *)

Crash == /\ up
         /\ crashes < MaxCrashes
         /\ crashes' = crashes + 1
         /\ up' = FALSE
         /\ stuck' = {}
         /\ call' = [a \in Agents |-> NoCall]
         /\ queued' = [c \in Channels |-> {}]
         /\ UNCHANGED <<watch, processed, failed, objects, rows, scanDue, past, faults>>

\* The channels start and report every file already in their watch folder.
Boot == /\ ~up
        /\ up' = TRUE
        /\ scanDue' = TRUE
        /\ queued' = [c \in Channels |-> {n \in Names : watch[c][n] # None}]
        /\ UNCHANGED <<watch, processed, failed, call, objects, rows, stuck,
                       past, bounds>>

Received(i) == rows[i] # None /\ rows[i].status = "RECEIVED"

\* Slip: the comparison with the cutoff is the wrong way round.
ReconcileScanYoung ==
  /\ up /\ scanDue
  /\ scanDue' = FALSE
  /\ stuck' = {i \in Ids : Received(i) /\ ~rows[i].old}
  /\ UNCHANGED <<folders, call, objects, rows, up, past, bounds>>

\* reconcileStuckReceived looks once, for rows older than the window.
ReconcileScan ==
  /\ up /\ scanDue
  /\ scanDue' = FALSE
  /\ stuck' = {i \in Ids : Received(i) /\ rows[i].old}
  /\ UNCHANGED <<folders, call, objects, rows, up, past, bounds>>

ReconcileParse(i) ==
  /\ up
  /\ i \in stuck
  /\ stuck' = stuck \ {i}
  /\ rows' = [rows EXCEPT ![i] = Row(rows[i].file, ParsedStatus(rows[i].file))]
  /\ UNCHANGED <<folders, call, objects, up, scanDue, past, bounds>>

\* The scan or one parse throws: the rest of the reconcile is given up.
ReconcileErrs ==
  /\ Fault
  /\ up /\ (scanDue \/ stuck # {})
  /\ scanDue' = FALSE
  /\ stuck' = {}
  /\ UNCHANGED <<folders, call, objects, rows, up, past>>

\* A row becomes older than the reconcile window, while that still matters.
Age(i) == /\ Received(i) /\ ~rows[i].old
          /\ rows' = [rows EXCEPT ![i].old = TRUE]
          /\ UNCHANGED <<folders, call, objects, boot, past, bounds>>
-----------------------------------------------------------------------------
Pipeline(a) == Probe(a) \/ Store(a) \/ Insert(a) \/ Race(a) \/ Parse(a)

Trouble(a) == \/ ProbeErrs(a) \/ StoreErrs(a) \/ InsertErrs(a)
              \/ RaceErrs(a) \/ ParseErrs(a)

Reconcile == ReconcileScan \/ \E i \in Ids : ReconcileParse(i)

Handle(c) == Move(c) \/ \E n \in Names : Take(c, n)

Next == \/ \E a \in Agents : Pipeline(a) \/ Trouble(a)
        \/ \E c \in Channels : Handle(c) \/ MoveErrs(c) \/ \E n \in Names : TakeErrs(c, n)
        \/ \E c \in Channels, f \in Files : Drop(c, f)
        \/ \E u \in Uploads : Answer(u) \/ \E f \in Files : Upload(u, f)
        \/ Crash \/ Boot \/ Reconcile \/ ReconcileErrs
        \/ \E i \in Ids : Age(i)

Spec == Init /\ [][Next]_vars

\* Awaited calls settle, the channel takes what is queued, a crashed process
\* is started again and its reconcile runs.  Nobody has to send a file.
Fairness == /\ \A a \in Agents : WF_vars(Pipeline(a))
            /\ \A c \in Channels : WF_vars(Handle(c))
            /\ WF_vars(Boot) /\ WF_vars(Reconcile)

FairSpec == Spec /\ Fairness
-----------------------------------------------------------------------------
TypeOK ==
  /\ \A d \in {watch, processed, failed} :
       d \in [Channels -> [Names -> Files \cup {None}]]
  /\ queued \in [Channels -> SUBSET Names]
  /\ call \in [Agents -> [at : Stages, file : Files \cup {None},
                          id : Ids \cup {None}, tries : 0..(MaxTries - 1)]]
  /\ objects \in [Ids -> Files \cup {None}]
  /\ rows \in [Ids -> Rows \cup {None}]
  /\ up \in BOOLEAN /\ scanDue \in BOOLEAN
  /\ stuck \subseteq Ids
  /\ given \in [Files -> Nat]
  /\ dropped \subseteq Files /\ answered \subseteq Files
  /\ crashes \in 0..MaxCrashes /\ faults \in 0..MaxFaults

\* Recorded(f): the content has a row, or its control number does.
Recorded(f) == Known(f) \/ \E i \in Ids : rows[i] # None /\ rows[i].file = f

\* Every row has its bytes in storage, whatever fails and whenever the process
\* dies: bytes first, row second (ingestion.ts:14-18).
RowHasBytes == \A i \in Ids : rows[i] # None => objects[i] = rows[i].file

\* No success without a record: a file that was moved to processed/, or whose
\* upload was answered 200, is recorded (drop-folder.ts:78-83, ingest.ts:64-77).
SuccessIsRecorded ==
  /\ \A f \in answered : Recorded(f)
  /\ \A c \in Channels, n \in Names :
       processed[c][n] # None => Recorded(processed[c][n])

\* Bytes without a row, and bytes in two rows.
Orphans(f) == {i \in Ids : /\ rows[i] = None /\ objects[i] = f
                           /\ \A a \in Agents : call[a].id # i}
Copies(f) == Cardinality({i \in Ids : rows[i] # None /\ rows[i].file = f})

\* Nothing is stored that cannot be accounted for.  Bytes without a row are left
\* only by a crash, a failing call, or a race of two deliveries of one control
\* number; as the database is asked first, each other agent can lose that race at
\* most once (ingestion.ts:126-127, 204-218).  And a content is stored again only
\* because somebody sent it again, or a crash or a failing call kept its first
\* answer from taking effect.
StoredAsDelivered ==
  \A f \in Files :
    /\ crashes + faults = 0 =>
         Cardinality(Orphans(f)) <= IF Class[f] = "x12" THEN Cardinality(Agents) - 1 ELSE 0
    /\ Copies(f) <= given[f] + crashes + faults

Waiting(f) == \E i \in Ids : Received(i) /\ rows[i].file = f
Overdue(f) == \E i \in Ids : Received(i) /\ rows[i].file = f /\ rows[i].old

\* What a dead process left is taken up.  A dropped file does not stay in the
\* watch folder: the next boot takes it up, and only a failing move leaves it (or
\* the bound on ids, once it is reached).  A row older than the window when the
\* process boots is parsed by its reconcile, unless a call fails or the process
\* dies again.
TakenUp ==
  /\ \A c \in Channels, n \in Names :
       watch[c][n] # None ~> watch[c][n] = None \/ faults > 0 \/ Ids \subseteq UsedIds
  /\ \A f \in Files : up /\ scanDue /\ Overdue(f) ~> ~Waiting(f) \/ faults > 0 \/ ~up
=============================================================================
