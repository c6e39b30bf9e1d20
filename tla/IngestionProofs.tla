-------------------------- MODULE IngestionProofs --------------------------
(***************************************************************************)
(* Theorems about Ingestion: for any number of channels, requests, files   *)
(* and identities, and however often calls fail and the process dies; and  *)
(* about Parser: for transmissions and acknowledgments of any length.      *)
(***************************************************************************)
EXTENDS Ingestion, Parser, FiniteSetTheorems, TLAPS

\* A random id is one that no row, object or other call has.
LEMMA FreshIdIsFree ==
  ASSUME Ids \ UsedIds # {}
  PROVE  FreshId \in Ids /\ FreshId \notin UsedIds
BY DEF FreshId

LEMMA FirstStatusType ==
  ASSUME NEW f \in Files, Class[f] # "empty"
  PROVE  FirstStatus(f) \in Statuses
BY IngestionAssumption DEF FirstStatus, Statuses

LEMMA ParsedStatusType ==
  ASSUME NEW f
  PROVE  ParsedStatus(f) \in Statuses
BY DEF ParsedStatus, Statuses

LEMMA RowType ==
  ASSUME NEW f \in Files, NEW s \in Statuses
  PROVE  /\ Row(f, s) \in Rows
         /\ Row(f, s) # None
         /\ Row(f, s).file = f
<1>1. Row(f, s) \in Rows
  BY DEF Row, Rows
<1>2. Row(f, s).file = f
  BY DEF Row
<1>3. None \notin Rows
  BY IngestionAssumption
<1> QED
  BY <1>1, <1>2, <1>3

Calls == [at : Stages, file : Files \cup {None},
          id : Ids \cup {None}, tries : 0..(MaxTries - 1)]

LEMMA NoCallType == NoCall \in Calls
BY IngestionAssumption DEF NoCall, Calls, Stages

LEMMA BeginFacts ==
  ASSUME TypeOK, NEW a \in Agents, NEW f \in Files, Begin(a, f)
  PROVE  /\ call' \in [Agents -> Calls]
         /\ call'[a].file = f /\ call'[a].id = None
         /\ call'[a].at = IF Class[f] = "empty" THEN "bad" ELSE "probe"
         /\ \A b \in Agents \ {a} : call'[b] = call[b]
<1> DEFINE to == IF Class[f] = "empty" THEN "bad" ELSE "probe"
           c == [at |-> to, file |-> f, id |-> None, tries |-> 0]
<1>1. call' = [call EXCEPT ![a] = c]
  BY DEF Begin
<1>2. to \in Stages
  BY DEF Stages
<1>3. c \in Calls
  BY <1>2, IngestionAssumption DEF Calls
<1>4. call \in [Agents -> Calls]
  BY DEF TypeOK, Calls
<1> HIDE DEF c
<1>5. call' \in [Agents -> Calls] /\ call'[a] = c
  BY <1>1, <1>3, <1>4
<1>6. \A b \in Agents \ {a} : call'[b] = call[b]
  BY <1>1, <1>4
<1> QED
  BY <1>5, <1>6 DEF c

\* One stage ends and another begins: nothing else of any call changes.
LEMMA StepFacts ==
  ASSUME TypeOK, NEW a \in Agents, NEW from, NEW to \in Stages, Step(a, from, to)
  PROVE  /\ call' \in [Agents -> Calls]
         /\ call[a].at = from /\ call'[a].at = to
         /\ call'[a].file = call[a].file /\ call'[a].id = call[a].id
         /\ \A b \in Agents \ {a} : call'[b] = call[b]
BY DEF TypeOK, Calls, Step

\* A call gets its id.
LEMMA NamedFacts ==
  ASSUME TypeOK, NEW a \in Agents, Ids \ UsedIds # {},
         call' = [call EXCEPT ![a].at = "upload", ![a].id = FreshId]
  PROVE  /\ call' \in [Agents -> Calls]
         /\ call'[a].at = "upload" /\ call'[a].id = FreshId
         /\ call'[a].file = call[a].file
         /\ \A b \in Agents \ {a} : call'[b] = call[b]
<1> DEFINE mid == [call EXCEPT ![a].at = "upload"]
<1>1. call' = [mid EXCEPT ![a].id = FreshId]
  OBVIOUS
<1>2. mid \in [Agents -> Calls] /\ mid[a].at = "upload" /\ mid[a].file = call[a].file
  BY DEF TypeOK, Calls, Stages
<1>3. \A b \in Agents \ {a} : mid[b] = call[b]
  BY DEF TypeOK
<1>4. FreshId \in Ids
  BY FreshIdIsFree
<1> HIDE DEF mid
<1>5. [mid[a] EXCEPT !.id = FreshId] \in Calls
  BY <1>2, <1>4 DEF Calls
<1>6. call' \in [Agents -> Calls] /\ \A b \in Agents \ {a} : call'[b] = call[b]
  BY <1>1, <1>2, <1>3, <1>5
<1>7. call'[a] = [mid[a] EXCEPT !.id = FreshId]
  BY <1>1, <1>2
<1>8. /\ call'[a].at = "upload" /\ call'[a].id = FreshId
      /\ call'[a].file = call[a].file
  BY <1>2, <1>7 DEF Calls
<1> QED
  BY <1>6, <1>8

LEMMA DoneFacts ==
  ASSUME TypeOK, NEW a \in Agents, Done(a)
  PROVE  /\ call' \in [Agents -> Calls]
         /\ call'[a].at = "idle" /\ call'[a].id = None
         /\ \A b \in Agents \ {a} : call'[b] = call[b]
<1>1. call \in [Agents -> Calls]
  BY DEF TypeOK, Calls
<1>2. call' = [call EXCEPT ![a] = NoCall]
  BY DEF Done
<1> QED
  BY <1>1, <1>2, NoCallType DEF NoCall
-----------------------------------------------------------------------------
(* The calls of ingestRawFile that are under way: what each stage has       *)
(* established, and that no two of them work on one id.                     *)
Checked == {"probe", "upload", "insert", "race", "parse", "ok"}
Named   == {"upload", "insert", "race", "parse"}

CallOK(a) ==
  LET f == call[a].file  i == call[a].id IN
  /\ call[a].at # "idle" => f \in Files
  /\ call[a].at \in Checked => Class[f] # "empty"
  /\ call[a].at \in Named => i \in Ids
  /\ call[a].at = "upload" => rows[i] = None
  /\ call[a].at = "insert" => rows[i] = None /\ objects[i] = f
  /\ call[a].at = "parse"  => rows[i] # None /\ rows[i].file = f
  /\ call[a].at = "ok" => Recorded(f)

OneIdEach == \A a, b \in Agents :
               a # b /\ call[a].id = call[b].id => call[a].id = None

StuckHasRow == \A i \in stuck : rows[i] # None

CallsOK == \A a \in Agents : CallOK(a)

PipeInv == TypeOK /\ CallsOK /\ OneIdEach /\ StuckHasRow

\* Rows are never taken back and never change their file.
Grow == \A i \in Ids : rows[i] # None => rows'[i] # None /\ rows'[i].file = rows[i].file

LEMMA RecordedStays ==
  ASSUME Grow, NEW f, Recorded(f)
  PROVE  Recorded(f)'
BY DEF Grow, Recorded, Known

\* One row is written, and it is new or keeps its file.
LEMMA GrowByPut ==
  ASSUME TypeOK, NEW i \in Ids, NEW row \in Rows,
         rows' = [rows EXCEPT ![i] = row],
         rows[i] # None => row.file = rows[i].file
  PROVE  Grow
<1>1. row # None
  BY IngestionAssumption
<1> QED
  BY <1>1 DEF Grow, TypeOK

\* A step that leaves a call and its id alone keeps what the call knows.
Untouched(b) ==
  /\ call'[b] = call[b]
  /\ call[b].id \in Ids => /\ rows[call[b].id] = None => rows'[call[b].id] = None
                           /\ objects'[call[b].id] = objects[call[b].id]

LEMMA OthersKeep ==
  ASSUME Grow, NEW b \in Agents, CallOK(b), Untouched(b)
  PROVE  CallOK(b)'
<1>2. call'[b] = call[b]
  BY DEF Untouched
<1>1. call[b].at = "ok" => Recorded(call[b].file)'
  <2>1. \A f : Recorded(f) => Recorded(f)'
    BY RecordedStays
  <2> QED
    BY <1>2, <2>1 DEF CallOK, Recorded, Known
<1>3. call[b].at \in Named => call[b].id \in Ids
  BY DEF CallOK
<1>4. CASE call[b].at \in Named
  <2> DEFINE i == call[b].id
  <2>1. i \in Ids /\ call'[b].id = i
    BY <1>2, <1>3, <1>4
  <2>2. objects'[i] = objects[i] /\ (rows[i] = None => rows'[i] = None)
    BY <2>1 DEF Untouched
  <2>3. rows[i] # None => rows'[i] # None /\ rows'[i].file = rows[i].file
    BY <2>1 DEF Grow
  <2> QED
    BY <1>1, <1>2, <2>1, <2>2, <2>3 DEF CallOK
<1>5. CASE call[b].at \notin Named
  BY <1>1, <1>2, <1>5 DEF CallOK, Named
<1> QED
  BY <1>4, <1>5

LEMMA IdsKept ==
  ASSUME OneIdEach,
         \A b \in Agents : call'[b].id = call[b].id \/ call'[b].id = None
  PROVE  OneIdEach'
BY DEF OneIdEach
-----------------------------------------------------------------------------
(* Types.  A row gets a status because the stage that writes it was reached *)
(* only by files for which classify() has one.                              *)
LEMMA PutFile ==
  ASSUME NEW dir \in [Channels -> [Names -> Files \cup {None}]],
         NEW c \in Channels, NEW n \in Names, NEW f \in Files \cup {None}
  PROVE  [dir EXCEPT ![c][n] = f] \in [Channels -> [Names -> Files \cup {None}]]
<1>1. [dir[c] EXCEPT ![n] = f] \in [Names -> Files \cup {None}]
  OBVIOUS
<1> QED
  BY <1>1

LEMMA PutObject ==
  ASSUME TypeOK, NEW a \in Agents, call[a].id \in Ids, call[a].file \in Files
  PROVE  [objects EXCEPT ![call[a].id] = call[a].file] \in [Ids -> Files \cup {None}]
BY DEF TypeOK

LEMMA PutRow ==
  ASSUME TypeOK, NEW i, NEW row \in Rows
  PROVE  [rows EXCEPT ![i] = row] \in [Ids -> Rows \cup {None}]
BY DEF TypeOK

\* A failing call is counted within its bound.
LEMMA FaultType ==
  ASSUME TypeOK, Fault
  PROVE  faults' \in 0..MaxFaults /\ crashes' = crashes
BY IngestionAssumption DEF TypeOK, Fault

\* The calls' stages, between the file being taken and its outcome.
LEMMA PipelineType ==
  ASSUME PipeInv, NEW a \in Agents, Pipeline(a) \/ Trouble(a)
  PROVE  TypeOK'
<1> USE DEF folders, boot, past, bounds, PipeInv
<1> DEFINE f == call[a].file  i == call[a].id
<1>0. CallOK(a)
  BY DEF CallsOK
<1>1. call[a].at \in Named => i \in Ids /\ f \in Files /\ Class[f] # "empty"
  BY <1>0 DEF CallOK, Named, Checked
<1>2. call[a].at \in Named => /\ Row(f, FirstStatus(f)) \in Rows
                              /\ Row(f, ParsedStatus(f)) \in Rows
  BY <1>1, RowType, FirstStatusType, ParsedStatusType
<1>3. CASE Probe(a)
  <2>1. CASE Step(a, "probe", "ok")
    <3>1. call' \in [Agents -> Calls]
      BY <2>1, StepFacts DEF Stages
    <3> QED
      BY <1>3, <3>1 DEF Probe, TypeOK, Calls
  <2>2. CASE /\ Ids \ UsedIds # {}
             /\ call' = [call EXCEPT ![a].at = "upload", ![a].id = FreshId]
    <3>1. call' \in [Agents -> Calls]
      BY <2>2, NamedFacts
    <3> QED
      BY <1>3, <3>1 DEF Probe, TypeOK, Calls
  <2> QED
    BY <1>3, <2>1, <2>2 DEF Probe
<1>4. CASE Store(a)
  <2>1. call' \in [Agents -> Calls] /\ call[a].at = "upload"
    BY <1>4, StepFacts DEF Store, Stages
  <2>2. objects' \in [Ids -> Files \cup {None}]
    BY <1>1, <1>4, <2>1, PutObject DEF Store, Named
  <2> QED
    BY <1>4, <2>1, <2>2 DEF Store, TypeOK, Calls
<1>5. CASE Insert(a)
  <2>1. call' \in [Agents -> Calls] /\ call[a].at = "insert"
    BY <1>5, StepFacts DEF Insert, Stages
  <2>2. \/ UNCHANGED rows
        \/ rows' = [rows EXCEPT ![i] = Row(f, FirstStatus(f))]
    BY <1>5 DEF Insert
  <2>3. rows' \in [Ids -> Rows \cup {None}]
    BY <1>2, <2>1, <2>2, PutRow DEF Named, TypeOK
  <2> QED
    BY <1>5, <2>1, <2>3 DEF Insert, TypeOK, Calls
<1>6. CASE Race(a)
  <2>1. call' \in [Agents -> Calls]
    BY <1>6, StepFacts DEF Race, Stages
  <2> QED
    BY <1>6, <2>1 DEF Race, TypeOK, Calls
<1>7. CASE Parse(a)
  <2>1. call' \in [Agents -> Calls] /\ call[a].at = "parse"
    BY <1>7, StepFacts DEF Parse, Stages
  <2>2. rows' \in [Ids -> Rows \cup {None}]
    BY <1>2, <1>7, <2>1, PutRow DEF Parse, Named
  <2> QED
    BY <1>7, <2>1, <2>2 DEF Parse, TypeOK, Calls
<1>8. CASE ProbeErrs(a)
  <2>1. call' \in [Agents -> Calls]
    BY <1>8, StepFacts DEF ProbeErrs, Stages
  <2> QED
    BY <1>8, <2>1, FaultType DEF ProbeErrs, TypeOK, Calls
<1>9. CASE StoreErrs(a)
  <2>1. call[a].at = "upload"
    BY <1>9 DEF StoreErrs
  <2>2. call' \in [Agents -> Calls]
    <3>1. CASE call' = [call EXCEPT ![a].at = "bad"]
      BY <3>1 DEF TypeOK, Calls, Stages
    <3>2. CASE /\ call[a].tries + 1 < MaxTries
               /\ call' = [call EXCEPT ![a].tries = @ + 1]
      <4>1. call[a].tries \in 0..(MaxTries - 1)
        BY DEF TypeOK
      <4>2. call[a].tries + 1 \in 0..(MaxTries - 1)
        BY <3>2, <4>1, IngestionAssumption
      <4>3. call \in [Agents -> Calls]
        BY DEF TypeOK, Calls
      <4>4. [call[a] EXCEPT !.tries = @ + 1] \in Calls
        BY <4>2, <4>3 DEF Calls
      <4> QED
        BY <3>2, <4>3, <4>4
    <3> QED
      BY <1>9, <3>1, <3>2 DEF StoreErrs
  <2>3. objects' \in [Ids -> Files \cup {None}]
    BY <1>1, <1>9, <2>1, PutObject DEF StoreErrs, Named, TypeOK
  <2> QED
    BY <1>9, <2>2, <2>3, FaultType DEF StoreErrs, TypeOK, Calls
<1>10. CASE InsertErrs(a)
  <2>1. call' \in [Agents -> Calls] /\ call[a].at = "insert"
    BY <1>10, StepFacts DEF InsertErrs, Stages
  <2>2. rows' \in [Ids -> Rows \cup {None}]
    BY <1>2, <1>10, <2>1, PutRow DEF InsertErrs, Named, TypeOK
  <2> QED
    BY <1>10, <2>1, <2>2, FaultType DEF InsertErrs, TypeOK, Calls
<1>11. CASE RaceErrs(a)
  <2>1. call' \in [Agents -> Calls]
    BY <1>11, StepFacts DEF RaceErrs, Stages
  <2> QED
    BY <1>11, <2>1, FaultType DEF RaceErrs, TypeOK, Calls
<1>12. CASE ParseErrs(a)
  <2>1. call' \in [Agents -> Calls] /\ call[a].at = "parse"
    BY <1>12, StepFacts DEF ParseErrs, Stages
  <2>2. rows' \in [Ids -> Rows \cup {None}]
    BY <1>2, <1>12, <2>1, PutRow DEF ParseErrs, Named, TypeOK
  <2> QED
    BY <1>12, <2>1, <2>2, FaultType DEF ParseErrs, TypeOK, Calls
<1> QED
  BY <1>3, <1>4, <1>5, <1>6, <1>7, <1>8, <1>9, <1>10, <1>11, <1>12
     DEF Pipeline, Trouble

\* What channels and requests do before and after the pipeline.
LEMMA AgentType ==
  ASSUME PipeInv,
         \/ \E c \in Channels : Handle(c) \/ MoveErrs(c) \/ \E n \in Names : TakeErrs(c, n)
         \/ \E c \in Channels, f \in Files : Drop(c, f)
         \/ \E u \in Uploads : Answer(u) \/ \E f \in Files : Upload(u, f)
  PROVE  TypeOK'
<1> USE DEF folders, boot, past, bounds, PipeInv
<1>1. ASSUME NEW c \in Channels, NEW n \in Names, Take(c, n)
      PROVE  TypeOK'
  <2>1. c \in Agents /\ watch[c][n] \in Files
    BY <1>1 DEF Take, TypeOK, Agents
  <2>2. call' \in [Agents -> Calls]
    BY <1>1, <2>1, BeginFacts DEF Take
  <2>3. queued' \in [Channels -> SUBSET Names]
    BY <1>1 DEF Take, TypeOK
  <2> QED
    BY <1>1, <2>2, <2>3 DEF Take, TypeOK, Calls
<1>2. ASSUME NEW c \in Channels, NEW n \in Names, TakeErrs(c, n)
      PROVE  TypeOK'
  <2>1. c \in Agents /\ watch[c][n] \in Files
    BY <1>2 DEF TakeErrs, TypeOK, Agents
  <2> DEFINE rec == [at |-> "caught", file |-> watch[c][n], id |-> None, tries |-> 0]
  <2>2. rec \in Calls
    BY <2>1, IngestionAssumption DEF Calls, Stages
  <2>3. call' \in [Agents -> Calls]
    BY <1>2, <2>2 DEF TakeErrs, TypeOK, Calls
  <2>4. queued' \in [Channels -> SUBSET Names]
    BY <1>2 DEF TakeErrs, TypeOK
  <2> QED
    BY <1>2, <2>3, <2>4, FaultType DEF TakeErrs, TypeOK, Calls
<1>3. ASSUME NEW c \in Channels, Move(c) \/ MoveErrs(c)
      PROVE  TypeOK'
  <2> DEFINE f == call[c].file  n == NameOf[f]
  <2>1. c \in Agents
    BY DEF Agents
  <2>2. f \in Files /\ n \in Names
    BY <1>3, <2>1 DEF Move, MoveErrs, CallsOK, CallOK, Names
  <2>3. /\ [watch EXCEPT ![c][n] = None] \in [Channels -> [Names -> Files \cup {None}]]
        /\ [processed EXCEPT ![c][n] = f] \in [Channels -> [Names -> Files \cup {None}]]
        /\ [failed EXCEPT ![c][n] = f] \in [Channels -> [Names -> Files \cup {None}]]
    BY <2>2, PutFile DEF TypeOK
  <2>4. CASE Move(c)
    <3>1. call' \in [Agents -> Calls]
      BY <2>1, <2>4, DoneFacts DEF Move
    <3>2. /\ watch' \in [Channels -> [Names -> Files \cup {None}]]
          /\ processed' \in [Channels -> [Names -> Files \cup {None}]]
          /\ failed' \in [Channels -> [Names -> Files \cup {None}]]
      BY <2>3, <2>4 DEF Move, TypeOK
    <3> QED
      BY <2>4, <3>1, <3>2 DEF Move, TypeOK, Calls
  <2>5. CASE MoveErrs(c)
    <3>1. call' \in [Agents -> Calls]
      <4>1. CASE call' = [call EXCEPT ![c].at = "caught"]
        BY <2>1, <4>1 DEF TypeOK, Calls, Stages
      <4>2. CASE Done(c)
        BY <2>1, <4>2, DoneFacts
      <4> QED
        BY <2>5, <4>1, <4>2 DEF MoveErrs
    <3>2. /\ processed' \in [Channels -> [Names -> Files \cup {None}]]
          /\ failed' \in [Channels -> [Names -> Files \cup {None}]]
      BY <2>3, <2>5 DEF MoveErrs, TypeOK
    <3> QED
      BY <2>5, <3>1, <3>2, FaultType DEF MoveErrs, TypeOK, Calls
  <2> QED
    BY <1>3, <2>4, <2>5
<1>4. ASSUME NEW c \in Channels, NEW f \in Files, Drop(c, f)
      PROVE  TypeOK'
  <2>1. NameOf[f] \in Names
    BY DEF Names
  <2>2. watch' \in [Channels -> [Names -> Files \cup {None}]]
    BY <1>4, <2>1, PutFile DEF Drop, TypeOK
  <2>3. queued' \in [Channels -> SUBSET Names]
    BY <1>4, <2>1 DEF Drop, TypeOK
  <2>4. given' \in [Files -> Nat] /\ dropped' \subseteq Files
    BY <1>4 DEF Drop, TypeOK
  <2> QED
    BY <1>4, <2>2, <2>3, <2>4 DEF Drop, TypeOK
<1>5. ASSUME NEW u \in Uploads, Answer(u)
      PROVE  TypeOK'
  <2>1. u \in Agents
    BY DEF Agents
  <2>2. call' \in [Agents -> Calls]
    BY <1>5, <2>1, DoneFacts DEF Answer
  <2>3. answered' \subseteq Files
    BY <1>5, <2>1 DEF Answer, TypeOK, CallsOK, CallOK
  <2> QED
    BY <1>5, <2>2, <2>3 DEF Answer, TypeOK, Calls
<1>6. ASSUME NEW u \in Uploads, NEW f \in Files, Upload(u, f)
      PROVE  TypeOK'
  <2>1. u \in Agents
    BY DEF Agents
  <2>2. call' \in [Agents -> Calls]
    BY <1>6, <2>1, BeginFacts DEF Upload
  <2>3. given' \in [Files -> Nat]
    BY <1>6 DEF Upload, TypeOK
  <2> QED
    BY <1>6, <2>2, <2>3 DEF Upload, TypeOK, Calls
<1> QED
  BY <1>1, <1>2, <1>3, <1>4, <1>5, <1>6 DEF Handle

\* The process, its reconcile, and time.
LEMMA BootType ==
  ASSUME PipeInv,
         \/ Crash \/ Boot \/ Reconcile \/ ReconcileErrs
         \/ \E i \in Ids : Age(i)
         \/ UNCHANGED vars
  PROVE  TypeOK'
<1> USE DEF folders, boot, past, bounds, PipeInv
<1>1. CASE Crash
  <2>1. call' \in [Agents -> Calls]
    BY <1>1, NoCallType DEF Crash
  <2>2. crashes' \in 0..MaxCrashes
    BY <1>1, IngestionAssumption DEF Crash, TypeOK
  <2> QED
    BY <1>1, <2>1, <2>2 DEF Crash, TypeOK, Calls
<1>2. CASE Boot
  BY <1>2 DEF Boot, TypeOK
<1>3. CASE ReconcileScan
  BY <1>3 DEF ReconcileScan, TypeOK
<1>4. ASSUME NEW i \in Ids, ReconcileParse(i)
      PROVE  TypeOK'
  <2>1. rows[i] \in Rows
    BY <1>4 DEF ReconcileParse, TypeOK, StuckHasRow
  <2>2. rows[i].file \in Files
    BY <2>1 DEF Rows
  <2>3. Row(rows[i].file, ParsedStatus(rows[i].file)) \in Rows
    BY <2>2, ParsedStatusType, RowType
  <2>4. rows' \in [Ids -> Rows \cup {None}]
    BY <1>4, <2>3, PutRow DEF ReconcileParse
  <2> QED
    BY <1>4, <2>4 DEF ReconcileParse, TypeOK
<1>5. CASE ReconcileErrs
  BY <1>5, FaultType DEF ReconcileErrs, TypeOK
<1>6. ASSUME NEW i \in Ids, Age(i)
      PROVE  TypeOK'
  <2>1. rows[i] \in Rows
    BY <1>6 DEF Age, Received, TypeOK
  <2>2. [rows[i] EXCEPT !.old = TRUE] \in Rows
    BY <2>1 DEF Rows
  <2>3. rows' \in [Ids -> Rows \cup {None}]
    BY <1>6, <2>2 DEF Age, TypeOK
  <2> QED
    BY <1>6, <2>3 DEF Age, TypeOK
<1>7. CASE UNCHANGED vars
  BY <1>7 DEF vars, TypeOK
<1> QED
  BY <1>1, <1>2, <1>3, <1>4, <1>5, <1>6, <1>7 DEF Reconcile

LEMMA TypeStep ==
  ASSUME PipeInv, [Next]_vars
  PROVE  TypeOK'
BY PipelineType, AgentType, BootType DEF Next
-----------------------------------------------------------------------------
(* Ids.  Each action of an agent a leaves every other call untouched, since *)
(* it writes at most the row and the object of a's own id.                  *)
LEMMA GrowStep ==
  ASSUME PipeInv, [Next]_vars
  PROVE  Grow
<1> USE DEF PipeInv
<1>1. CASE UNCHANGED rows
  BY <1>1 DEF Grow
<1>2. ASSUME NEW a \in Agents,
             \/ Insert(a) \/ InsertErrs(a)
             \/ Parse(a) \/ ParseErrs(a)
      PROVE  Grow
  <2> DEFINE f == call[a].file  i == call[a].id
  <2>1. CASE UNCHANGED rows
    BY <2>1 DEF Grow
  <2>2. CASE rows' # rows
    <3>1. CallOK(a) /\ call[a].at \in {"insert", "parse"}
      BY <1>2 DEF CallsOK, Insert, InsertErrs, Parse, ParseErrs, Step
    <3>2. i \in Ids /\ f \in Files /\ Class[f] # "empty"
      BY <3>1 DEF CallOK, Named, Checked
    <3>3. PICK s \in Statuses : rows' = [rows EXCEPT ![i] = Row(f, s)]
      BY <1>2, <2>2, <3>2, FirstStatusType, ParsedStatusType
         DEF Insert, InsertErrs, Parse, ParseErrs
    <3>4. Row(f, s) \in Rows /\ Row(f, s).file = f
      BY <3>2, RowType
    <3>5. rows[i] # None => f = rows[i].file
      BY <3>1 DEF CallOK
    <3> QED
      BY <3>2, <3>3, <3>4, <3>5, GrowByPut
  <2> QED
    BY <2>1, <2>2
<1>3. ASSUME NEW i \in Ids, ReconcileParse(i)
      PROVE  Grow
  <2>1. rows[i] \in Rows
    BY <1>3 DEF ReconcileParse, TypeOK, StuckHasRow
  <2> DEFINE row == Row(rows[i].file, ParsedStatus(rows[i].file))
  <2>2. row \in Rows /\ row.file = rows[i].file
    BY <2>1, ParsedStatusType, RowType DEF Rows
  <2> QED
    BY <1>3, <2>2, GrowByPut DEF ReconcileParse
<1>4. ASSUME NEW i \in Ids, Age(i)
      PROVE  Grow
  <2>1. rows[i] \in Rows
    BY <1>4 DEF Age, Received, TypeOK
  <2> DEFINE row == [rows[i] EXCEPT !.old = TRUE]
  <2>2. row \in Rows /\ row.file = rows[i].file
    BY <2>1 DEF Rows
  <2>3. rows' = [rows EXCEPT ![i] = row]
    BY <1>4 DEF Age
  <2> QED
    BY <2>2, <2>3, GrowByPut
<1>5. CASE UNCHANGED vars
  BY <1>1, <1>5 DEF vars
<1> QED
  BY <1>1, <1>2, <1>3, <1>4, <1>5
     DEF Next, Pipeline, Trouble, Handle, Reconcile, Probe, Store, Race,
         ProbeErrs, StoreErrs, RaceErrs, Take, TakeErrs, Move, MoveErrs, Drop,
         Answer, Upload, Crash, Boot, ReconcileScan, ReconcileErrs

LEMMA StuckStep ==
  ASSUME PipeInv, [Next]_vars
  PROVE  StuckHasRow'
<1>1. Grow /\ stuck \subseteq Ids
  BY GrowStep DEF PipeInv, TypeOK
<1>2. CASE stuck' \subseteq stuck
  BY <1>1, <1>2 DEF PipeInv, StuckHasRow, Grow
<1>3. CASE ReconcileScan
  BY <1>1, <1>3 DEF ReconcileScan, StuckHasRow, Received, Grow
<1> QED
  BY <1>2, <1>3
     DEF Next, Pipeline, Trouble, Handle, Reconcile, Probe, Store, Race, Insert,
         Parse, ProbeErrs, StoreErrs, InsertErrs, ParseErrs, RaceErrs, Take,
         TakeErrs, Move, MoveErrs, Drop, Answer, Upload, Crash, Boot,
         ReconcileParse, ReconcileErrs, Age, vars, boot

LEMMA OthersUntouched ==
  ASSUME PipeInv, Grow, NEW a \in Agents,
         \A b \in Agents \ {a} : call'[b] = call[b],
         \/ UNCHANGED rows
         \/ \E row : rows' = [rows EXCEPT ![call[a].id] = row],
         \/ UNCHANGED objects
         \/ objects' = [objects EXCEPT ![call[a].id] = call[a].file]
  PROVE  \A b \in Agents \ {a} : CallOK(b)'
<1> SUFFICES ASSUME NEW b \in Agents \ {a}
             PROVE  CallOK(b)'
  OBVIOUS
<1>1. CASE call[b].id \notin Ids
  BY <1>1, OthersKeep DEF Untouched, PipeInv, CallsOK
<1>2. CASE call[b].id \in Ids
  <2>1. call[b].id # call[a].id
    BY <1>2, IngestionAssumption DEF PipeInv, OneIdEach
  <2>2. rows'[call[b].id] = rows[call[b].id] /\ objects'[call[b].id] = objects[call[b].id]
    BY <1>2, <2>1 DEF PipeInv, TypeOK
  <2> QED
    BY <2>2, OthersKeep DEF Untouched, PipeInv, CallsOK
<1> QED
  BY <1>1, <1>2

LEMMA PipelineCalls ==
  ASSUME PipeInv, Grow, TypeOK', NEW a \in Agents, Pipeline(a) \/ Trouble(a)
  PROVE  CallsOK' /\ OneIdEach'
<1> DEFINE f == call[a].file  i == call[a].id
<1> USE DEF PipeInv
<1>0. CallOK(a)
  BY DEF CallsOK
<1>1. ASSUME NEW from, NEW to \in Stages, Step(a, from, to)
      PROVE  OneIdEach'
  <2>1. \A b \in Agents : call'[b].id = call[b].id
    BY <1>1, StepFacts
  <2> QED
    BY <2>1, IdsKept
<1>2. CASE Probe(a)
  <2>1. UNCHANGED <<rows, objects>>
    BY <1>2 DEF Probe
  <2>2. CASE Step(a, "probe", "ok") /\ Known(f)
    <3>1. CallOK(a)'
      <4>1. Recorded(f) /\ f \in Files /\ Class[f] # "empty"
        BY <1>0, <2>2, StepFacts DEF Recorded, CallOK, Checked, Stages
      <4>2. call'[a].at = "ok" /\ call'[a].file = f
        BY <2>2, StepFacts DEF Stages
      <4> QED
        BY <2>1, <4>1, <4>2 DEF CallOK, Recorded, Known, Named
    <3>2. \A b \in Agents \ {a} : CallOK(b)'
      BY <2>1, <2>2, StepFacts, OthersUntouched DEF Stages
    <3> QED
      BY <1>1, <2>2, <3>1, <3>2 DEF CallsOK, Stages
  <2>3. CASE /\ call[a].at = "probe"
             /\ Ids \ UsedIds # {}
             /\ call' = [call EXCEPT ![a].at = "upload", ![a].id = FreshId]
    <3>1. /\ call'[a].at = "upload" /\ call'[a].id = FreshId
          /\ call'[a].file = f
          /\ \A b \in Agents \ {a} : call'[b] = call[b]
      BY <2>3, NamedFacts
    <3>2. FreshId \in Ids /\ FreshId \notin UsedIds
      BY <2>3, FreshIdIsFree
    <3>3. rows[FreshId] = None /\ \A b \in Agents : call[b].id # FreshId
      BY <3>2 DEF UsedIds
    <3>4. f \in Files /\ Class[f] # "empty"
      BY <1>0, <2>3 DEF CallOK, Checked
    <3> HIDE DEF f
    <3>5. CallOK(a)'
      <4>1. rows'[FreshId] = None
        BY <2>1, <3>3
      <4>2. rows'[call'[a].id] = None
        BY <3>1, <4>1
      <4> QED
        BY <3>1, <3>2, <3>4, <4>2 DEF CallOK
    <3>6. \A b \in Agents \ {a} : CallOK(b)'
      BY <2>1, <3>1, OthersUntouched
    <3>7. OneIdEach'
      BY <3>1, <3>3 DEF OneIdEach
    <3> QED
      BY <3>5, <3>6, <3>7 DEF CallsOK
  <2> QED
    BY <1>2, <2>2, <2>3 DEF Probe
<1>3. CASE Store(a)
  <2>1. /\ Step(a, "upload", "insert") /\ UNCHANGED rows
        /\ objects' = [objects EXCEPT ![i] = f]
    BY <1>3 DEF Store
  <2>2. /\ call[a].at = "upload" /\ call'[a].at = "insert"
        /\ call'[a].file = f /\ call'[a].id = i
        /\ \A b \in Agents \ {a} : call'[b] = call[b]
    BY <2>1, StepFacts DEF Stages
  <2>3. i \in Ids /\ f \in Files /\ Class[f] # "empty" /\ rows[i] = None
    BY <1>0, <2>2 DEF CallOK, Checked, Named
  <2>4. objects'[i] = f /\ rows'[i] = None
    BY <2>1, <2>3 DEF TypeOK
  <2>5. CallOK(a)'
    BY <2>2, <2>3, <2>4 DEF CallOK
  <2>6. \A b \in Agents \ {a} : CallOK(b)'
    BY <2>1, <2>2, OthersUntouched
  <2> QED
    BY <1>1, <2>1, <2>5, <2>6 DEF CallsOK, Stages
<1>4. CASE Insert(a)
  <2>1. /\ call[a].at = "insert" /\ UNCHANGED objects
        /\ \/ Step(a, "insert", "race") /\ UNCHANGED rows
           \/ /\ Step(a, "insert", IF Class[f] = "x12" THEN "parse" ELSE "ok")
              /\ rows' = [rows EXCEPT ![i] = Row(f, FirstStatus(f))]
    BY <1>4 DEF Insert, Step
  <2>2. i \in Ids /\ f \in Files /\ Class[f] # "empty"
    BY <1>0, <2>1 DEF CallOK, Checked, Named
  <2>3. CASE Step(a, "insert", "race") /\ UNCHANGED rows
    <3>1. /\ call'[a].at = "race" /\ call'[a].file = f /\ call'[a].id = i
          /\ \A b \in Agents \ {a} : call'[b] = call[b]
      BY <2>3, StepFacts DEF Stages
    <3>2. CallOK(a)'
      BY <2>2, <3>1 DEF CallOK
    <3>3. \A b \in Agents \ {a} : CallOK(b)'
      BY <2>1, <2>3, <3>1, OthersUntouched
    <3> QED
      BY <1>1, <2>3, <3>2, <3>3 DEF CallsOK, Stages
  <2>4. CASE /\ Step(a, "insert", IF Class[f] = "x12" THEN "parse" ELSE "ok")
             /\ rows' = [rows EXCEPT ![i] = Row(f, FirstStatus(f))]
    <3>1. PICK to \in {"parse", "ok"} : Step(a, "insert", to)
      BY <2>4
    <3>2. /\ call'[a].at = to /\ call'[a].file = f /\ call'[a].id = i
          /\ \A b \in Agents \ {a} : call'[b] = call[b]
      BY <3>1, StepFacts DEF Stages
    <3>3. rows'[i] # None /\ rows'[i].file = f
      BY <2>2, <2>4, FirstStatusType, RowType DEF TypeOK
    <3>4. \E k \in Ids : rows'[k] # None /\ rows'[k].file = call'[a].file
      BY <2>2, <3>2, <3>3
    <3>5. Recorded(call[a].file)'
      BY <3>4 DEF Recorded
    <3>6. CallOK(a)'
      BY <2>2, <3>2, <3>3, <3>5 DEF CallOK
    <3>7. \A b \in Agents \ {a} : CallOK(b)'
      BY <2>1, <2>4, <3>2, OthersUntouched
    <3> QED
      BY <1>1, <3>1, <3>6, <3>7 DEF CallsOK, Stages
  <2> QED
    BY <2>1, <2>3, <2>4
<1>5. CASE Race(a)
  <2>1. /\ call[a].at = "race" /\ UNCHANGED <<rows, objects>>
        /\ Step(a, "race", IF Known(f) THEN "ok" ELSE "bad")
    BY <1>5 DEF Race, Step
  <2>2. PICK to \in {"ok", "bad"} : Step(a, "race", to) /\ (to = "ok" => Known(f))
    BY <2>1
  <2>3. /\ call'[a].at = to /\ call'[a].file = f /\ call'[a].id = i
        /\ \A b \in Agents \ {a} : call'[b] = call[b]
    BY <2>2, StepFacts DEF Stages
  <2>4. f \in Files /\ Class[f] # "empty"
    BY <1>0, <2>1 DEF CallOK, Checked
  <2>5. to = "ok" => Recorded(call[a].file)'
    BY <2>1, <2>2, <2>3 DEF Recorded, Known
  <2>6. CallOK(a)'
    BY <2>3, <2>4, <2>5 DEF CallOK, Named, Checked
  <2>7. \A b \in Agents \ {a} : CallOK(b)'
    BY <2>1, <2>3, OthersUntouched
  <2> QED
    BY <1>1, <2>2, <2>6, <2>7 DEF CallsOK, Stages
<1>6. CASE Parse(a) \/ ParseErrs(a)
  <2>1. /\ Step(a, "parse", "ok") /\ UNCHANGED objects
        /\ \/ UNCHANGED rows
           \/ rows' = [rows EXCEPT ![i] = Row(f, ParsedStatus(f))]
    BY <1>6 DEF Parse, ParseErrs
  <2>2. /\ call[a].at = "parse" /\ call'[a].at = "ok"
        /\ call'[a].file = f /\ call'[a].id = i
        /\ \A b \in Agents \ {a} : call'[b] = call[b]
    BY <2>1, StepFacts DEF Stages
  <2>3. /\ i \in Ids /\ f \in Files /\ Class[f] # "empty"
        /\ rows[i] # None /\ rows[i].file = f
    BY <1>0, <2>2 DEF CallOK, Checked, Named
  <2>4. rows'[i] # None /\ rows'[i].file = f
    BY <2>3 DEF Grow
  <2>5. \E k \in Ids : rows'[k] # None /\ rows'[k].file = call'[a].file
    BY <2>2, <2>3, <2>4
  <2>6. Recorded(call[a].file)'
    BY <2>5 DEF Recorded
  <2>7. CallOK(a)'
    BY <2>2, <2>3, <2>6 DEF CallOK, Named
  <2>8. \A b \in Agents \ {a} : CallOK(b)'
    BY <2>1, <2>2, OthersUntouched
  <2> QED
    BY <1>1, <2>1, <2>7, <2>8 DEF CallsOK, Stages
<1>7. ASSUME NEW to \in {"bad", "caught"}, NEW from \in {"probe", "insert", "race"},
             Step(a, from, to), UNCHANGED objects,
             \/ UNCHANGED rows
             \/ \E row : rows' = [rows EXCEPT ![i] = row]
      PROVE  CallsOK' /\ OneIdEach'
  <2>1. /\ call[a].at = from /\ call'[a].at = to
        /\ call'[a].file = f /\ call'[a].id = i
        /\ \A b \in Agents \ {a} : call'[b] = call[b]
    BY <1>7, StepFacts DEF Stages
  <2>2. f \in Files
    BY <1>0, <2>1 DEF CallOK
  <2>3. CallOK(a)'
    BY <2>1, <2>2 DEF CallOK, Named, Checked
  <2>4. \A b \in Agents \ {a} : CallOK(b)'
    BY <1>7, <2>1, OthersUntouched
  <2> QED
    BY <1>1, <1>7, <2>3, <2>4 DEF CallsOK, Stages
<1>8. CASE ProbeErrs(a) \/ InsertErrs(a) \/ RaceErrs(a)
  BY <1>7, <1>8 DEF ProbeErrs, InsertErrs, RaceErrs
<1>9. CASE StoreErrs(a)
  <2>1. /\ call[a].at = "upload" /\ UNCHANGED rows
        /\ \/ UNCHANGED objects
           \/ objects' = [objects EXCEPT ![i] = f]
        /\ \/ call' = [call EXCEPT ![a].tries = @ + 1]
           \/ call' = [call EXCEPT ![a].at = "bad"]
    BY <1>9 DEF StoreErrs
  <2>2. /\ call'[a].at \in {"upload", "bad"}
        /\ call'[a].file = f /\ call'[a].id = i
        /\ \A b \in Agents \ {a} : call'[b] = call[b]
    BY <2>1 DEF TypeOK, Calls
  <2>3. i \in Ids /\ f \in Files /\ Class[f] # "empty" /\ rows[i] = None
    BY <1>0, <2>1 DEF CallOK, Checked, Named
  <2>4. CallOK(a)'
    BY <2>1, <2>2, <2>3 DEF CallOK, Named, Checked
  <2>5. \A b \in Agents \ {a} : CallOK(b)'
    BY <2>1, <2>2, OthersUntouched
  <2>6. OneIdEach'
    BY <2>2, IdsKept
  <2> QED
    BY <2>4, <2>5, <2>6 DEF CallsOK
<1> QED
  BY <1>2, <1>3, <1>4, <1>5, <1>6, <1>8, <1>9 DEF Pipeline, Trouble

\* An agent begins or ends its call, or nothing happens to calls at all.
LEMMA AgentCalls ==
  ASSUME PipeInv, Grow,
         \/ \E c \in Channels : Handle(c) \/ MoveErrs(c) \/ \E n \in Names : TakeErrs(c, n)
         \/ \E c \in Channels, f \in Files : Drop(c, f)
         \/ \E u \in Uploads : Answer(u) \/ \E f \in Files : Upload(u, f)
  PROVE  CallsOK' /\ OneIdEach'
<1> USE DEF PipeInv
<1>1. ASSUME NEW a \in Agents, UNCHANGED <<rows, objects>>,
             \A b \in Agents \ {a} : call'[b] = call[b],
             call'[a].id = None \/ call'[a].id = call[a].id,
             call'[a].at \in {"idle", "probe", "bad", "caught"},
             call'[a].at # "idle" => call'[a].file \in Files,
             call'[a].at = "probe" => Class[call'[a].file] # "empty"
      PROVE  CallsOK' /\ OneIdEach'
  <2>1. CallOK(a)'
    BY <1>1 DEF CallOK, Checked, Named
  <2>2. \A b \in Agents \ {a} : CallOK(b)'
    BY <1>1, OthersUntouched
  <2>3. OneIdEach'
    BY <1>1, IdsKept
  <2> QED
    BY <2>1, <2>2, <2>3 DEF CallsOK
<1>2. ASSUME NEW c \in Channels, NEW n \in Names, Take(c, n)
      PROVE  CallsOK' /\ OneIdEach'
  <2>1. c \in Agents /\ watch[c][n] \in Files
    BY <1>2 DEF Take, TypeOK, Agents
  <2>2. UNCHANGED <<rows, objects>> /\ Begin(c, watch[c][n])
    BY <1>2 DEF Take
  <2> QED
    BY <1>1, <2>1, <2>2, BeginFacts
<1>3. ASSUME NEW c \in Channels, NEW n \in Names, TakeErrs(c, n)
      PROVE  CallsOK' /\ OneIdEach'
  <2>1. c \in Agents /\ watch[c][n] \in Files
    BY <1>3 DEF TakeErrs, TypeOK, Agents
  <2> DEFINE rec == [at |-> "caught", file |-> watch[c][n], id |-> None, tries |-> 0]
  <2>2. UNCHANGED <<rows, objects>> /\ call' = [call EXCEPT ![c] = rec]
    BY <1>3 DEF TakeErrs
  <2>3. call'[c] = rec /\ \A b \in Agents \ {c} : call'[b] = call[b]
    BY <2>1, <2>2 DEF TypeOK
  <2> QED
    BY <1>1, <2>1, <2>2, <2>3
<1>4. ASSUME NEW a \in Agents, Done(a), UNCHANGED <<rows, objects>>
      PROVE  CallsOK' /\ OneIdEach'
  BY <1>1, <1>4, DoneFacts
<1>5. ASSUME NEW c \in Channels, Move(c)
      PROVE  CallsOK' /\ OneIdEach'
  BY <1>4, <1>5 DEF Move, Agents
<1>6. ASSUME NEW c \in Channels, MoveErrs(c)
      PROVE  CallsOK' /\ OneIdEach'
  <2>1. c \in Agents /\ UNCHANGED <<rows, objects>>
    BY <1>6 DEF MoveErrs, Agents
  <2>2. CASE call' = [call EXCEPT ![c].at = "caught"]
    <3>1. /\ call'[c].at = "caught" /\ call'[c].file = call[c].file
          /\ call'[c].id = call[c].id
          /\ \A b \in Agents \ {c} : call'[b] = call[b]
      BY <2>1, <2>2 DEF TypeOK, Calls
    <3>2. call[c].file \in Files
      BY <1>6, <2>1 DEF MoveErrs, CallsOK, CallOK
    <3> QED
      BY <1>1, <2>1, <3>1, <3>2
  <2> QED
    BY <1>4, <1>6, <2>1, <2>2 DEF MoveErrs
<1>7. ASSUME NEW u \in Uploads, Answer(u)
      PROVE  CallsOK' /\ OneIdEach'
  BY <1>4, <1>7 DEF Answer, Agents
<1>8. ASSUME NEW u \in Uploads, NEW f \in Files, Upload(u, f)
      PROVE  CallsOK' /\ OneIdEach'
  <2>1. u \in Agents /\ UNCHANGED <<rows, objects>> /\ Begin(u, f)
    BY <1>8 DEF Upload, Agents
  <2> QED
    BY <1>1, <2>1, BeginFacts
<1>9. ASSUME NEW c \in Channels, NEW f \in Files, Drop(c, f)
      PROVE  CallsOK' /\ OneIdEach'
  <2>1. UNCHANGED <<rows, objects, call>>
    BY <1>9 DEF Drop
  <2>2. \A b \in Agents : CallOK(b)'
    BY <2>1, OthersKeep DEF Untouched, CallsOK
  <2> QED
    BY <2>1, <2>2 DEF CallsOK, OneIdEach
<1> QED
  BY <1>2, <1>3, <1>5, <1>6, <1>7, <1>8, <1>9 DEF Handle

LEMMA BootCalls ==
  ASSUME PipeInv, Grow,
         \/ Crash \/ Boot \/ Reconcile \/ ReconcileErrs
         \/ \E i \in Ids : Age(i)
         \/ UNCHANGED vars
  PROVE  CallsOK' /\ OneIdEach'
<1> USE DEF PipeInv
<1>1. CASE Crash
  <2>1. \A a \in Agents : call'[a] = NoCall
    BY <1>1 DEF Crash
  <2>2. \A a \in Agents : call'[a].at = "idle" /\ call'[a].id = None
    BY <2>1 DEF NoCall
  <2>3. \A a \in Agents : CallOK(a)'
    BY <2>2 DEF CallOK, Checked, Named
  <2> QED
    BY <2>2, <2>3 DEF CallsOK, OneIdEach
<1>2. CASE UNCHANGED <<call, objects>> /\ \A i \in Ids : rows[i] = None => rows'[i] = None
  <2>1. \A b \in Agents : CallOK(b)'
    BY <1>2, OthersKeep DEF Untouched, CallsOK
  <2> QED
    BY <1>2, <2>1 DEF CallsOK, OneIdEach
<1>3. CASE Boot \/ ReconcileScan \/ ReconcileErrs \/ UNCHANGED vars
  BY <1>2, <1>3 DEF Boot, ReconcileScan, ReconcileErrs, vars
<1>4. ASSUME NEW i \in Ids, ReconcileParse(i) \/ Age(i)
      PROVE  CallsOK' /\ OneIdEach'
  <2>1. rows[i] # None
    BY <1>4 DEF ReconcileParse, StuckHasRow, Age, Received
  <2>2. \A k \in Ids : k # i => rows'[k] = rows[k]
    BY <1>4 DEF ReconcileParse, Age, TypeOK
  <2>3. UNCHANGED <<call, objects>>
    BY <1>4 DEF ReconcileParse, Age
  <2> QED
    BY <1>2, <2>1, <2>2, <2>3
<1> QED
  BY <1>1, <1>3, <1>4 DEF Reconcile

LEMMA PipeStep ==
  ASSUME PipeInv, [Next]_vars
  PROVE  PipeInv'
<1>1. TypeOK' /\ Grow /\ StuckHasRow'
  BY TypeStep, GrowStep, StuckStep
<1>2. CallsOK' /\ OneIdEach'
  BY <1>1, PipelineCalls, AgentCalls, BootCalls DEF Next
<1> QED
  BY <1>1, <1>2 DEF PipeInv

LEMMA InitPipe == Init => PipeInv
<1> SUFFICES ASSUME Init
             PROVE  PipeInv
  OBVIOUS
<1> USE DEF Init
<1>1. \A a \in Agents : call[a].at = "idle" /\ call[a].id = None
  BY DEF NoCall
<1>2. CallsOK /\ OneIdEach /\ StuckHasRow
  BY <1>1 DEF CallsOK, CallOK, Checked, Named, OneIdEach, StuckHasRow
<1>3. call \in [Agents -> Calls]
  BY NoCallType
<1>4. /\ watch \in [Channels -> [Names -> Files \cup {None}]]
      /\ processed \in [Channels -> [Names -> Files \cup {None}]]
      /\ failed \in [Channels -> [Names -> Files \cup {None}]]
  BY DEF EmptyDirs
<1>5. crashes \in 0..MaxCrashes /\ faults \in 0..MaxFaults
  BY IngestionAssumption
<1>6. TypeOK
  BY <1>3, <1>4, <1>5 DEF TypeOK, Calls
<1> QED
  BY <1>2, <1>6 DEF PipeInv

LEMMA Inductive == Spec => []PipeInv
BY InitPipe, PipeStep, PTL DEF Spec

\* The variables keep their types, whatever fails: in particular every row has
\* a status that classify() or the parse gave it (ingestion.ts:61-75).
THEOREM Typing == Spec => []TypeOK
<1>1. PipeInv => TypeOK
  BY DEF PipeInv
<1> QED
  BY <1>1, Inductive, PTL
-----------------------------------------------------------------------------
(* Bytes first, row second.  An object is written only while no row has its *)
(* id, and a row is created only at the stage after its object was written. *)
LEMMA BytesFrame ==
  ASSUME RowHasBytes, Grow, UNCHANGED objects,
         \A i \in Ids : rows[i] = None => rows'[i] = None
  PROVE  RowHasBytes'
BY DEF RowHasBytes, Grow

LEMMA BytesStep ==
  ASSUME PipeInv, RowHasBytes, [Next]_vars
  PROVE  RowHasBytes'
<1> USE DEF PipeInv
<1>0. Grow
  BY GrowStep
<1>1. ASSUME NEW a \in Agents, Store(a) \/ StoreErrs(a)
      PROVE  RowHasBytes'
  <2>1. CallOK(a) /\ call[a].at = "upload" /\ UNCHANGED rows
    BY <1>1 DEF CallsOK, Store, StoreErrs, Step
  <2>2. rows[call[a].id] = None
    BY <2>1 DEF CallOK
  <2>3. \A i \in Ids : i # call[a].id => objects'[i] = objects[i]
    BY <1>1 DEF Store, StoreErrs, TypeOK
  <2> QED
    BY <2>1, <2>2, <2>3 DEF RowHasBytes
<1>2. ASSUME NEW a \in Agents, Insert(a) \/ InsertErrs(a)
      PROVE  RowHasBytes'
  <2> DEFINE f == call[a].file  i == call[a].id
  <2>1. CallOK(a) /\ call[a].at = "insert" /\ UNCHANGED objects
    BY <1>2 DEF CallsOK, Insert, InsertErrs, Step
  <2>2. i \in Ids /\ f \in Files /\ Class[f] # "empty" /\ objects[i] = f
    BY <2>1 DEF CallOK, Named, Checked
  <2>3. CASE UNCHANGED rows
    BY <1>0, <2>1, <2>3, BytesFrame
  <2>4. CASE rows' = [rows EXCEPT ![i] = Row(f, FirstStatus(f))]
    <3>1. rows'[i].file = f /\ \A k \in Ids : k # i => rows'[k] = rows[k]
      BY <2>2, <2>4, FirstStatusType, RowType DEF TypeOK
    <3> QED
      BY <2>1, <2>2, <3>1 DEF RowHasBytes
  <2> QED
    BY <1>2, <2>3, <2>4 DEF Insert, InsertErrs
<1>3. ASSUME NEW a \in Agents, Parse(a) \/ ParseErrs(a)
      PROVE  RowHasBytes'
  <2>1. CallOK(a) /\ call[a].at = "parse" /\ UNCHANGED objects
    BY <1>3 DEF CallsOK, Parse, ParseErrs, Step
  <2>2. rows[call[a].id] # None
    BY <2>1 DEF CallOK
  <2>3. \A k \in Ids : k # call[a].id => rows'[k] = rows[k]
    BY <1>3 DEF Parse, ParseErrs, TypeOK
  <2> QED
    BY <1>0, <2>1, <2>2, <2>3, BytesFrame
<1>4. ASSUME NEW i \in Ids, ReconcileParse(i) \/ Age(i)
      PROVE  RowHasBytes'
  <2>1. rows[i] # None /\ UNCHANGED objects
    BY <1>4 DEF ReconcileParse, StuckHasRow, Age, Received
  <2>2. \A k \in Ids : k # i => rows'[k] = rows[k]
    BY <1>4 DEF ReconcileParse, Age, TypeOK
  <2> QED
    BY <1>0, <2>1, <2>2, BytesFrame
<1>5. CASE UNCHANGED <<rows, objects>>
  BY <1>0, <1>5, BytesFrame
<1> QED
  BY <1>1, <1>2, <1>3, <1>4, <1>5
     DEF Next, Pipeline, Trouble, Handle, Reconcile, Probe, Race, ProbeErrs,
         RaceErrs, Take, TakeErrs, Move, MoveErrs, Drop, Answer, Upload, Crash,
         Boot, ReconcileScan, ReconcileErrs, vars

\* Whatever fails and whenever the process dies, no row is without the bytes it
\* stands for: bytes first, row second (ingestion.ts:14-18).
THEOREM RowsHaveBytes == Spec => []RowHasBytes
<1>1. Init => RowHasBytes
  BY DEF Init, RowHasBytes
<1> QED
  BY <1>1, BytesStep, Inductive, PTL DEF Spec
-----------------------------------------------------------------------------
(* A success means a record.  The stage "ok" is reached only with a record,  *)
(* records are never taken back, and only that stage files a success.       *)
LEMMA SuccessFrame ==
  ASSUME SuccessIsRecorded, Grow, UNCHANGED answered, UNCHANGED processed
  PROVE  SuccessIsRecorded'
<1>1. \A f : Recorded(f) => Recorded(f)'
  BY RecordedStays
<1> QED
  BY <1>1 DEF SuccessIsRecorded, Recorded, Known

LEMMA SuccessStep ==
  ASSUME PipeInv, SuccessIsRecorded, [Next]_vars
  PROVE  SuccessIsRecorded'
<1> USE DEF PipeInv
<1>0. Grow
  BY GrowStep
<1>1. \A f : Recorded(f) => Recorded(f)'
  BY <1>0, RecordedStays
<1>2. ASSUME NEW c \in Channels, Move(c) \/ MoveErrs(c)
      PROVE  SuccessIsRecorded'
  <2> DEFINE f == call[c].file  n == NameOf[f]
  <2>1. CallOK(c) /\ c \in Agents
    BY DEF CallsOK, Agents
  <2>2. CASE UNCHANGED processed
    BY <1>0, <1>2, <2>2, SuccessFrame DEF Move, MoveErrs, past
  <2>3. CASE processed' # processed
    <3>1. call[c].at = "ok" /\ processed' = [processed EXCEPT ![c][n] = f]
      BY <1>2, <2>3 DEF Move, MoveErrs
    <3>2. Recorded(f)
      BY <2>1, <3>1 DEF CallOK
    <3>3. UNCHANGED <<rows, answered>>
      BY <1>2 DEF Move, MoveErrs, past
    <3>4. ASSUME NEW d \in Channels, NEW m \in Names, processed'[d][m] # None
          PROVE  Recorded(processed'[d][m])
      <4>1. processed'[d][m] = processed[d][m] \/ processed'[d][m] = f
        BY <3>1 DEF TypeOK
      <4> QED
        BY <3>2, <3>4, <4>1 DEF SuccessIsRecorded
    <3> QED
      BY <3>3, <3>4 DEF SuccessIsRecorded, Recorded, Known
  <2> QED
    BY <2>2, <2>3
<1>3. ASSUME NEW u \in Uploads, Answer(u)
      PROVE  SuccessIsRecorded'
  <2>1. CallOK(u) /\ UNCHANGED <<rows, processed>>
    BY <1>3 DEF Answer, CallsOK, Agents, folders
  <2>2. \A f \in answered' : Recorded(f)
    BY <1>3, <2>1 DEF Answer, CallOK, SuccessIsRecorded
  <2> QED
    BY <2>1, <2>2 DEF SuccessIsRecorded, Recorded, Known
<1>4. CASE UNCHANGED <<answered, processed>>
  BY <1>0, <1>4, SuccessFrame
<1> QED
  BY <1>2, <1>3, <1>4
     DEF Next, Pipeline, Trouble, Handle, Reconcile, Probe, Store, Insert, Race,
         Parse, ProbeErrs, StoreErrs, InsertErrs, RaceErrs, ParseErrs, Take,
         TakeErrs, Drop, Upload, Crash, Boot, ReconcileScan, ReconcileParse,
         ReconcileErrs, Age, vars, folders, past

\* A file in processed/ and an upload that was answered with 200 have a record,
\* their own or that of their control number (drop-folder.ts:78-83,
\* ingest.ts:64-77).
THEOREM SuccessesAreRecorded == Spec => []SuccessIsRecorded
<1>1. Init => SuccessIsRecorded
  BY DEF Init, SuccessIsRecorded, EmptyDirs
<1> QED
  BY <1>1, SuccessStep, Inductive, PTL DEF Spec
-----------------------------------------------------------------------------
(* Nothing is stored that nobody sent.  A file that is still going to be    *)
(* stored is due at one agent: at the channel that has it queued or, while  *)
(* the process is down, in its folder, or at the call that has not inserted *)
(* it.  Every row of a file and every agent it is due at was paid for.      *)
Unstored == {"probe", "upload", "insert"}

DueAt(a, f) == \/ call[a].file = f /\ call[a].at \in Unstored
               \/ /\ a \in Channels
                  /\ watch[a][NameOf[f]] = f
                  /\ up => NameOf[f] \in queued[a]

Due(f) == {a \in Agents : DueAt(a, f)}

InFolder(c, f) == watch[c][NameOf[f]] = f

\* A file lies in one folder under its name; the one a channel is at still lies
\* there and is not queued; without a process nothing is queued or called.
FoldersOK ==
  /\ \A c \in Channels, n \in Names :
       watch[c][n] # None => NameOf[watch[c][n]] = n /\ watch[c][n] \in dropped
  /\ \A c, d \in Channels, f \in Files : InFolder(c, f) /\ InFolder(d, f) => c = d
  /\ \A c \in Channels :
       call[c].at # "idle" => /\ InFolder(c, call[c].file)
                              /\ NameOf[call[c].file] \notin queued[c]
  /\ ~up => \A a \in Agents : call[a].at = "idle"

Paid(f) == Copies(f) + Cardinality(Due(f)) <= given[f] + crashes + faults

AllPaid == \A f \in Files : Paid(f)

\* What a stage of the pipeline, failing or not, leaves alone.
LEMMA StageFacts ==
  ASSUME PipeInv, NEW a \in Agents, Pipeline(a) \/ Trouble(a)
  PROVE  /\ call[a].at # "idle" /\ call'[a].at # "idle" /\ up
         /\ call'[a].file = call[a].file
         /\ call'[a].at \in Unstored => call[a].at \in Unstored
         /\ \A b \in Agents \ {a} : call'[b] = call[b]
         /\ UNCHANGED <<watch, queued, up, given, dropped, crashes>>
         /\ faults' = faults \/ faults' = faults + 1
<1> USE DEF PipeInv, folders, boot, past, bounds, Fault
<1>1. ASSUME NEW from \in {"probe", "upload", "insert", "race", "parse"},
             NEW to \in Stages, to # "idle",
             to \in Unstored => from \in Unstored, Step(a, from, to)
      PROVE  /\ call[a].at # "idle" /\ call'[a].at # "idle" /\ up
             /\ call'[a].file = call[a].file
             /\ call'[a].at \in Unstored => call[a].at \in Unstored
             /\ \A b \in Agents \ {a} : call'[b] = call[b]
  BY <1>1, StepFacts DEF Step
<1>2. CASE Probe(a)
  <2>1. CASE Step(a, "probe", "ok")
    BY <1>1, <1>2, <2>1 DEF Probe, Stages, Unstored
  <2>2. CASE /\ up /\ call[a].at = "probe" /\ Ids \ UsedIds # {}
             /\ call' = [call EXCEPT ![a].at = "upload", ![a].id = FreshId]
    BY <1>2, <2>2, NamedFacts DEF Probe, Unstored
  <2> QED
    BY <1>2, <2>1, <2>2 DEF Probe
<1>3. CASE Store(a)
  BY <1>1, <1>3 DEF Store, Stages, Unstored
<1>4. CASE Insert(a)
  <2>1. PICK to \in {"race", "parse", "ok"} : Step(a, "insert", to)
    BY <1>4 DEF Insert
  <2> QED
    BY <1>1, <1>4, <2>1 DEF Insert, Stages, Unstored
<1>5. CASE Race(a)
  <2>1. PICK to \in {"ok", "bad"} : Step(a, "race", to)
    BY <1>5 DEF Race
  <2> QED
    BY <1>1, <1>5, <2>1 DEF Race, Stages, Unstored
<1>6. CASE Parse(a)
  BY <1>1, <1>6 DEF Parse, Stages, Unstored
<1>7. CASE ProbeErrs(a)
  BY <1>1, <1>7 DEF ProbeErrs, Stages, Unstored
<1>8. CASE StoreErrs(a)
  <2>1. /\ up /\ call[a].at = "upload"
        /\ \/ call' = [call EXCEPT ![a].tries = @ + 1]
           \/ call' = [call EXCEPT ![a].at = "bad"]
    BY <1>8 DEF StoreErrs
  <2>2. /\ call'[a].at \in {"upload", "bad"} /\ call'[a].file = call[a].file
        /\ \A b \in Agents \ {a} : call'[b] = call[b]
    BY <2>1 DEF TypeOK, Calls
  <2> QED
    BY <1>8, <2>1, <2>2 DEF StoreErrs, Unstored
<1>9. CASE InsertErrs(a)
  BY <1>1, <1>9 DEF InsertErrs, Stages, Unstored
<1>10. CASE RaceErrs(a)
  <2>1. PICK to \in {"caught", "bad"} : Step(a, "race", to)
    BY <1>10 DEF RaceErrs
  <2> QED
    BY <1>1, <1>10, <2>1 DEF RaceErrs, Stages, Unstored
<1>11. CASE ParseErrs(a)
  BY <1>1, <1>11 DEF ParseErrs, Stages, Unstored
<1> QED
  BY <1>2, <1>3, <1>4, <1>5, <1>6, <1>7, <1>8, <1>9, <1>10, <1>11
     DEF Pipeline, Trouble

\* The outcome of a call: the file is where it was, or it is moved away.
LEMMA EndFacts ==
  ASSUME PipeInv, NEW c \in Channels, Move(c) \/ MoveErrs(c)
  PROVE  /\ c \in Agents /\ call[c].at \in {"ok", "bad", "caught"} /\ up
         /\ call'[c].at \in {"idle", "caught"}
         /\ call'[c].at = "caught" => call'[c].file = call[c].file /\ call'[c].id = call[c].id
         /\ call'[c].at = "idle" => call'[c].id = None
         /\ \A b \in Agents \ {c} : call'[b] = call[b]
         /\ call'[c].at = "caught" => UNCHANGED watch
         /\ \A d \in Channels, n \in Names : watch'[d][n] = watch[d][n] \/ watch'[d][n] = None
         /\ UNCHANGED <<queued, up, given, dropped, crashes, objects, rows>>
         /\ faults' = faults \/ faults' = faults + 1
<1> USE DEF PipeInv, folders, boot, past, bounds, Fault
<1>1. c \in Agents
  BY DEF Agents
<1>2. CASE Move(c)
  <2>1. /\ call'[c].at = "idle" /\ call'[c].id = None
        /\ \A b \in Agents \ {c} : call'[b] = call[b]
    BY <1>1, <1>2, DoneFacts DEF Move
  <2>2. \A d \in Channels, n \in Names : watch'[d][n] = watch[d][n] \/ watch'[d][n] = None
    BY <1>2 DEF Move, TypeOK
  <2> QED
    BY <1>1, <1>2, <2>1, <2>2 DEF Move
<1>3. CASE MoveErrs(c)
  <2>1. CASE call' = [call EXCEPT ![c].at = "caught"]
    <3>1. /\ call'[c].at = "caught" /\ call'[c].file = call[c].file
          /\ call'[c].id = call[c].id
          /\ \A b \in Agents \ {c} : call'[b] = call[b]
      BY <1>1, <2>1 DEF TypeOK, Calls
    <3> QED
      BY <1>1, <1>3, <3>1 DEF MoveErrs
  <2>2. CASE Done(c)
    <3>1. /\ call'[c].at = "idle" /\ call'[c].id = None
          /\ \A b \in Agents \ {c} : call'[b] = call[b]
      BY <1>1, <2>2, DoneFacts
    <3> QED
      BY <1>1, <1>3, <3>1 DEF MoveErrs
  <2> QED
    BY <1>3, <2>1, <2>2 DEF MoveErrs
<1> QED
  BY <1>2, <1>3

\* The channel begins with a queued file, or fails to read it.
LEMMA TakeFacts ==
  ASSUME PipeInv, NEW c \in Channels, NEW n \in Names, Take(c, n) \/ TakeErrs(c, n)
  PROVE  /\ c \in Agents /\ up /\ call[c].at = "idle"
         /\ n \in queued[c] /\ watch[c][n] \in Files
         /\ call'[c].file = watch[c][n] /\ call'[c].id = None
         /\ call'[c].at \in {"probe", "bad", "caught"}
         /\ call'[c].at = "caught" => faults' = faults + 1
         /\ \A b \in Agents \ {c} : call'[b] = call[b]
         /\ queued' = [queued EXCEPT ![c] = @ \ {n}]
         /\ UNCHANGED <<watch, up, given, dropped, crashes, objects, rows>>
         /\ faults' = faults \/ faults' = faults + 1
<1> USE DEF PipeInv, folders, boot, past, bounds, Fault
<1>1. c \in Agents /\ watch[c][n] \in Files
  BY DEF Take, TakeErrs, TypeOK, Agents
<1>2. CASE Take(c, n)
  <2>1. Begin(c, watch[c][n])
    BY <1>2 DEF Take
  <2>2. /\ call'[c].file = watch[c][n] /\ call'[c].id = None
        /\ call'[c].at \in {"probe", "bad"}
        /\ \A b \in Agents \ {c} : call'[b] = call[b]
    BY <1>1, <2>1, BeginFacts
  <2> QED
    BY <1>1, <1>2, <2>2 DEF Take
<1>3. CASE TakeErrs(c, n)
  <2> DEFINE rec == [at |-> "caught", file |-> watch[c][n], id |-> None, tries |-> 0]
  <2>1. call'[c] = rec /\ \A b \in Agents \ {c} : call'[b] = call[b]
    BY <1>1, <1>3 DEF TakeErrs, TypeOK
  <2> QED
    BY <1>1, <1>3, <2>1 DEF TakeErrs
<1> QED
  BY <1>2, <1>3

LEMMA FoldersStep ==
  ASSUME PipeInv, FoldersOK, [Next]_vars
  PROVE  FoldersOK'
<1> USE DEF PipeInv, InFolder
<1>1. ASSUME NEW a \in Agents, Pipeline(a) \/ Trouble(a)
      PROVE  FoldersOK'
  BY <1>1, StageFacts DEF FoldersOK, Agents
<1>2. ASSUME NEW c \in Channels, NEW n \in Names, Take(c, n) \/ TakeErrs(c, n)
      PROVE  FoldersOK'
  <2>1. NameOf[watch[c][n]] = n /\ watch[c][n] # None
    BY <1>2, TakeFacts, IngestionAssumption DEF FoldersOK
  <2>2. InFolder(c, call'[c].file) /\ NameOf[call'[c].file] \notin queued'[c]
    BY <1>2, <2>1, TakeFacts DEF TypeOK
  <2>3. \A d \in Channels \ {c} : queued'[d] = queued[d] /\ call'[d] = call[d]
    BY <1>2, TakeFacts DEF TypeOK, Agents
  <2> QED
    BY <1>2, <2>2, <2>3, TakeFacts DEF FoldersOK
<1>3. ASSUME NEW c \in Channels, Move(c) \/ MoveErrs(c)
      PROVE  FoldersOK'
  <2>1. \A d \in Channels \ {c} : call'[d] = call[d]
    BY <1>3, EndFacts DEF Agents
  <2>2. \A d \in Channels : d # c /\ call[d].at # "idle" => call[d].file \in Files
    BY DEF CallsOK, CallOK, Agents
  <2>3. \A d \in Channels \ {c}, n \in Names : watch'[d][n] = watch[d][n]
    BY <1>3 DEF Move, MoveErrs, TypeOK
  <2>4. ASSUME NEW d \in Channels, call'[d].at # "idle"
        PROVE  InFolder(d, call[d].file)' /\ NameOf[call'[d].file] \notin queued'[d]
    <3>1. CASE d = c
      BY <1>3, <2>4, <3>1, EndFacts DEF FoldersOK
    <3>2. CASE d # c
      <4>1. call[d].file \in Files /\ NameOf[call[d].file] \in Names
        BY <2>1, <2>2, <2>4, <3>2 DEF Names
      <4> QED
        BY <1>3, <2>1, <2>3, <2>4, <3>2, <4>1, EndFacts DEF FoldersOK
    <3> QED
      BY <3>1, <3>2
  <2>5. ASSUME NEW d \in Channels, NEW n \in Names, watch'[d][n] # None
        PROVE  watch'[d][n] = watch[d][n]
    BY <1>3, <2>5, EndFacts
  <2>6. \A f \in Files : NameOf[f] \in Names /\ f # None
    BY IngestionAssumption DEF Names
  <2>7. \A d \in Channels, f \in Files : InFolder(d, f)' => InFolder(d, f)
    BY <2>5, <2>6
  <2> QED
    BY <1>3, <2>4, <2>5, <2>7, EndFacts DEF FoldersOK
<1>4. ASSUME NEW c \in Channels, NEW f \in Files, Drop(c, f)
      PROVE  FoldersOK'
  <2> DEFINE n == NameOf[f]
  <2>1. n \in Names /\ f # None
    BY IngestionAssumption DEF Names
  <2>2. /\ f \notin dropped /\ dropped' = dropped \cup {f}
        /\ watch[c][n] = None /\ watch'[c][n] = f
        /\ \A d \in Channels, m \in Names :
             <<d, m>> # <<c, n>> => watch'[d][m] = watch[d][m]
        /\ UNCHANGED <<up, call>>
    BY <1>4, <2>1 DEF Drop, TypeOK, boot
  <2>3. \A d \in Channels, m \in Names :
          watch'[d][m] # None => NameOf[watch'[d][m]] = m /\ watch'[d][m] \in dropped'
    BY <2>2 DEF FoldersOK
  <2>4. \A d \in Channels : watch[d][n] # f
    BY <2>1, <2>2 DEF FoldersOK
  <2>5. \A d, e \in Channels, g \in Files : InFolder(d, g)' /\ InFolder(e, g)' => d = e
    <3> SUFFICES ASSUME NEW d \in Channels, NEW e \in Channels, NEW g \in Files,
                        InFolder(d, g)', InFolder(e, g)'
                 PROVE  d = e
      OBVIOUS
    <3>1. NameOf[g] \in Names
      BY DEF Names
    <3>2. CASE g = f
      BY <2>2, <2>4, <3>1, <3>2
    <3>3. CASE g # f
      BY <2>2, <3>1, <3>3 DEF FoldersOK
    <3> QED
      BY <3>2, <3>3
  <2>6. ASSUME NEW d \in Channels, call'[d].at # "idle"
        PROVE  InFolder(d, call[d].file)' /\ NameOf[call'[d].file] \notin queued'[d]
    <3> DEFINE g == call[d].file
    <3>1. g \in Files /\ NameOf[g] \in Names /\ g # None
      BY <2>2, <2>6, IngestionAssumption DEF CallsOK, CallOK, Agents, Names
    <3>2. watch[d][NameOf[g]] = g /\ NameOf[g] \notin queued[d]
      BY <2>2, <2>6 DEF FoldersOK
    <3>3. <<d, NameOf[g]>> # <<c, n>>
      BY <2>2, <3>1, <3>2
    <3>4. NameOf[g] \notin queued'[d]
      <4>1. CASE queued' = queued
        BY <3>2, <4>1
      <4>2. CASE queued' = [queued EXCEPT ![c] = @ \cup {n}]
        BY <3>2, <3>3, <4>2 DEF TypeOK
      <4> QED
        BY <1>4, <4>1, <4>2 DEF Drop
    <3> QED
      BY <2>2, <3>1, <3>2, <3>3, <3>4
  <2>7. ~up' => \A a \in Agents : call'[a].at = "idle"
    BY <2>2 DEF FoldersOK
  <2> QED
    BY <2>3, <2>5, <2>6, <2>7 DEF FoldersOK
<1>5. ASSUME NEW u \in Uploads, Answer(u) \/ \E f \in Files : Upload(u, f)
      PROVE  FoldersOK'
  <2>1. u \in Agents /\ u \notin Channels /\ up
    BY <1>5, IngestionAssumption DEF Agents, Answer, Upload
  <2>2. \A b \in Agents \ {u} : call'[b] = call[b]
    BY <1>5, <2>1, DoneFacts, BeginFacts DEF Answer, Upload
  <2>3. UNCHANGED <<watch, queued, up, dropped>>
    BY <1>5 DEF Answer, Upload, folders, boot
  <2> QED
    BY <2>1, <2>2, <2>3 DEF FoldersOK, Agents
<1>6. CASE Crash
  <2>1. \A a \in Agents : call'[a].at = "idle"
    BY <1>6 DEF Crash, NoCall
  <2> QED
    BY <1>6, <2>1 DEF Crash, FoldersOK, Agents, past
<1>7. CASE Boot
  BY <1>7 DEF Boot, FoldersOK, Agents, past
<1>8. CASE UNCHANGED <<watch, queued, call, up, dropped>>
  BY <1>8 DEF FoldersOK
<1> QED
  BY <1>1, <1>2, <1>3, <1>4, <1>5, <1>6, <1>7, <1>8
     DEF Next, Handle, Reconcile, ReconcileScan, ReconcileParse, ReconcileErrs, Age,
         vars, folders, boot, past

\* Counting: with nothing new due and no new row, with one more agent that was
\* paid for, and with a row for one agent less.
LEMMA Finite ==
  ASSUME NEW f
  PROVE  /\ IsFiniteSet({i \in Ids : rows[i] # None /\ rows[i].file = f})
         /\ IsFiniteSet({i \in Ids : rows[i] # None /\ rows[i].file = f}')
         /\ IsFiniteSet(Due(f)) /\ IsFiniteSet(Due(f)')
         /\ Copies(f) \in Nat /\ Cardinality(Due(f)) \in Nat
         /\ Copies(f)' \in Nat /\ Cardinality(Due(f)') \in Nat
<1> DEFINE R == {i \in Ids : rows[i] # None /\ rows[i].file = f}
<1>1. R \subseteq Ids /\ R' \subseteq Ids
  OBVIOUS
<1>2. Due(f) \subseteq Agents /\ Due(f)' \subseteq Agents
  BY DEF Due
<1>3. IsFiniteSet(Ids) /\ IsFiniteSet(Agents)
  BY IngestionAssumption
<1>4. IsFiniteSet(R) /\ IsFiniteSet(R')
  BY <1>1, <1>3, FS_Subset
<1>5. IsFiniteSet(Due(f)) /\ IsFiniteSet(Due(f)')
  BY <1>2, <1>3, FS_Subset
<1>6. Cardinality(R) \in Nat /\ Cardinality(R') \in Nat
  BY <1>4, FS_CardinalityType
<1>7. Cardinality(Due(f)) \in Nat /\ Cardinality(Due(f)') \in Nat
  BY <1>5, FS_CardinalityType
<1> QED
  BY <1>4, <1>5, <1>6, <1>7 DEF Copies

Sum(f) == given[f] + crashes + faults

LEMMA PaidNumbers ==
  ASSUME TypeOK, TypeOK', NEW f \in Files, Paid(f)
  PROVE  /\ Copies(f) \in Nat /\ Cardinality(Due(f)) \in Nat
         /\ Copies(f)' \in Nat /\ Cardinality(Due(f)') \in Nat
         /\ Sum(f) \in Nat /\ Sum(f)' \in Nat
         /\ Copies(f) + Cardinality(Due(f)) <= Sum(f)
         /\ Copies(f)' + Cardinality(Due(f)') <= Sum(f)' => Paid(f)'
<1>1. Sum(f) \in Nat
  BY IngestionAssumption DEF TypeOK, Sum
<1>2. Sum(f)' \in Nat
  BY IngestionAssumption DEF TypeOK, Sum
<1>3. /\ Copies(f) \in Nat /\ Cardinality(Due(f)) \in Nat
      /\ Copies(f)' \in Nat /\ Cardinality(Due(f)') \in Nat
  BY Finite
<1>4. Copies(f) + Cardinality(Due(f)) <= Sum(f)
  BY DEF Paid, Sum
<1>5. Copies(f)' + Cardinality(Due(f)') <= Sum(f)' => Paid(f)'
  BY DEF Paid, Sum
<1> QED
  BY <1>1, <1>2, <1>3, <1>4, <1>5

LEMMA PaidStays ==
  ASSUME TypeOK, TypeOK', NEW f \in Files, Paid(f),
         Copies(f)' = Copies(f), Due(f)' \subseteq Due(f), Sum(f)' >= Sum(f)
  PROVE  Paid(f)'
<1>1. Cardinality(Due(f)') <= Cardinality(Due(f))
  BY Finite, FS_Subset
<1> QED
  BY <1>1, PaidNumbers

LEMMA PaidOnce ==
  ASSUME TypeOK, TypeOK', NEW f \in Files, Paid(f), NEW a,
         Copies(f)' = Copies(f), Due(f)' \subseteq Due(f) \cup {a},
         Sum(f)' >= Sum(f) + 1
  PROVE  Paid(f)'
<1>0. IsFiniteSet(Due(f)) /\ Cardinality(Due(f)) \in Nat
  BY Finite
<1>1. /\ IsFiniteSet(Due(f) \cup {a})
      /\ Cardinality(Due(f) \cup {a}) <= Cardinality(Due(f)) + 1
  BY <1>0, FS_AddElement
<1>2. Cardinality(Due(f)') <= Cardinality(Due(f) \cup {a})
  BY <1>1, FS_Subset
<1>3. Cardinality(Due(f) \cup {a}) \in Nat
  BY <1>1, FS_CardinalityType
<1> QED
  BY <1>1, <1>2, <1>3, PaidNumbers

LEMMA PaidRow ==
  ASSUME TypeOK, TypeOK', NEW f \in Files, Paid(f), NEW a \in Due(f),
         Copies(f)' <= Copies(f) + 1, Due(f)' \subseteq Due(f) \ {a},
         Sum(f)' >= Sum(f)
  PROVE  Paid(f)'
<1>1. /\ IsFiniteSet(Due(f) \ {a})
      /\ Cardinality(Due(f) \ {a}) = Cardinality(Due(f)) - 1
  BY Finite, FS_RemoveElement
<1>2. Cardinality(Due(f)') <= Cardinality(Due(f) \ {a})
  BY <1>1, FS_Subset
<1> QED
  BY <1>1, <1>2, PaidNumbers

\* A row that is there is not counted again.
LEMMA CopiesKept ==
  ASSUME Grow, NEW f,
         \A i \in Ids : rows[i] = None => rows'[i] = None \/ rows'[i].file # f
  PROVE  Copies(f)' = Copies(f)
<1>1. {i \in Ids : rows'[i] # None /\ rows'[i].file = f}
        = {i \in Ids : rows[i] # None /\ rows[i].file = f}
  BY DEF Grow
<1> QED
  BY <1>1 DEF Copies

LEMMA CopiesPut ==
  ASSUME Grow, NEW f, NEW i \in Ids, \A k \in Ids : k # i => rows'[k] = rows[k]
  PROVE  Copies(f)' <= Copies(f) + 1
<1> DEFINE R == {k \in Ids : rows[k] # None /\ rows[k].file = f}
<1>1. R' \subseteq R \cup {i}
  OBVIOUS
<1>2. IsFiniteSet(R)
  BY Finite
<1> HIDE DEF R
<1>3. /\ IsFiniteSet(R \cup {i})
      /\ Cardinality(R \cup {i}) <= Cardinality(R) + 1
  BY <1>2, FS_AddElement, FS_CardinalityType
<1>4. Cardinality(R') <= Cardinality(R \cup {i})
  BY <1>1, <1>3, FS_Subset
<1>5. /\ Cardinality(R) \in Nat /\ Cardinality(R \cup {i}) \in Nat
      /\ Cardinality(R') \in Nat
  BY <1>1, <1>2, <1>3, FS_Subset, FS_CardinalityType
<1>6. Cardinality(R') <= Cardinality(R) + 1
  BY <1>3, <1>4, <1>5
<1> QED
  BY <1>6 DEF Copies, R

\* An insertion that writes its row pays with the agent that was due.
LEMMA PaidInsert ==
  ASSUME PipeInv, TypeOK', FoldersOK, AllPaid, Grow, NEW a \in Agents,
         Insert(a) \/ InsertErrs(a),
         rows' = [rows EXCEPT ![call[a].id] = Row(call[a].file, FirstStatus(call[a].file))],
         NEW g \in Files
  PROVE  Paid(g)'
<1> USE DEF PipeInv
<1> DEFINE f == call[a].file  i == call[a].id
<1>1. /\ call[a].at = "insert" /\ call'[a].at \in {"race", "parse", "ok", "bad"}
      /\ call'[a].file = f /\ up
      /\ \A b \in Agents \ {a} : call'[b] = call[b]
      /\ UNCHANGED <<watch, queued, up, given, crashes>>
      /\ faults' = faults \/ faults' = faults + 1
  <2>1. PICK to \in {"race", "parse", "ok", "bad"} : Step(a, "insert", to)
    BY DEF Insert, InsertErrs
  <2>2. /\ call[a].at = "insert" /\ call'[a].at = to /\ call'[a].file = f /\ up
        /\ \A b \in Agents \ {a} : call'[b] = call[b]
    BY <2>1, StepFacts DEF Stages, Step
  <2> QED
    BY <2>2, StageFacts DEF Pipeline, Trouble
<1>2. i \in Ids /\ f \in Files /\ Class[f] # "empty" /\ rows[i] = None
  BY <1>1 DEF CallsOK, CallOK, Named, Checked
<1>3. rows'[i] # None /\ rows'[i].file = f /\ \A k \in Ids : k # i => rows'[k] = rows[k]
  BY <1>2, FirstStatusType, RowType DEF TypeOK
<1>4. Sum(g)' >= Sum(g)
  BY <1>1, IngestionAssumption DEF TypeOK, Sum
<1>5. \A b \in Agents \ {a} : DueAt(b, g)' => DueAt(b, g)
  BY <1>1 DEF DueAt
<1>6. a \in Channels => NameOf[f] \notin queued[a]
  BY <1>1 DEF FoldersOK
<1>7. CASE g = f
  <2>1. ~DueAt(a, g)'
    BY <1>1, <1>6, <1>7 DEF DueAt, Unstored
  <2>2. a \in Due(g) /\ Due(g)' \subseteq Due(g) \ {a}
    BY <1>1, <1>5, <1>7, <2>1 DEF Due, DueAt, Unstored
  <2>3. Copies(g)' <= Copies(g) + 1
    BY <1>2, <1>3, CopiesPut
  <2> QED
    BY <1>4, <2>2, <2>3, PaidRow DEF AllPaid
<1>8. CASE g # f
  <2>1. DueAt(a, g)' => DueAt(a, g)
    BY <1>1, <1>8 DEF DueAt
  <2>2. Due(g)' \subseteq Due(g)
    BY <1>5, <2>1 DEF Due
  <2>3. Copies(g)' = Copies(g)
    BY <1>3, <1>8, CopiesKept
  <2> QED
    BY <1>4, <2>2, <2>3, PaidStays DEF AllPaid
<1> QED
  BY <1>7, <1>8

LEMMA PaidStep ==
  ASSUME PipeInv, FoldersOK, AllPaid, [Next]_vars
  PROVE  AllPaid'
<1> SUFFICES ASSUME NEW g \in Files
             PROVE  Paid(g)'
  BY DEF AllPaid
<1> USE DEF PipeInv, InFolder
<1>0. TypeOK' /\ Grow /\ Paid(g) /\ NameOf[g] \in Names /\ g # None
  BY TypeStep, GrowStep, IngestionAssumption DEF AllPaid, Names
<1>1. ASSUME \A i \in Ids : rows[i] = None => rows'[i] = None,
             \A a \in Agents : DueAt(a, g)' => DueAt(a, g),
             Sum(g)' >= Sum(g)
      PROVE  Paid(g)'
  <2>1. Due(g)' \subseteq Due(g)
    BY <1>1 DEF Due
  <2>2. Copies(g)' = Copies(g)
    BY <1>0, <1>1, CopiesKept
  <2> QED
    BY <1>0, <1>1, <2>1, <2>2, PaidStays
<1>2. ASSUME NEW x, \A i \in Ids : rows[i] = None => rows'[i] = None,
             \A a \in Agents \ {x} : DueAt(a, g)' => DueAt(a, g),
             Sum(g)' >= Sum(g) + 1
      PROVE  Paid(g)'
  <2>1. Due(g)' \subseteq Due(g) \cup {x}
    BY <1>2 DEF Due
  <2>2. Copies(g)' = Copies(g)
    BY <1>0, <1>2, CopiesKept
  <2> QED
    BY <1>0, <1>2, <2>1, <2>2, PaidOnce
<1>3. ASSUME UNCHANGED <<given, crashes>>, faults' = faults \/ faults' = faults + 1
      PROVE  Sum(g)' >= Sum(g)
  BY <1>3, IngestionAssumption DEF TypeOK, Sum
<1>4. ASSUME NEW a \in Agents, Pipeline(a) \/ Trouble(a)
      PROVE  Paid(g)'
  <2> DEFINE f == call[a].file  i == call[a].id
  <2>1. \A b \in Agents : DueAt(b, g)' => DueAt(b, g)
    BY <1>4, StageFacts DEF DueAt
  <2>2. Sum(g)' >= Sum(g)
    BY <1>3, <1>4, StageFacts
  <2>3. CASE \A k \in Ids : rows[k] = None => rows'[k] = None
    BY <1>1, <2>1, <2>2, <2>3
  <2>4. CASE UNCHANGED rows
    BY <1>1, <2>1, <2>2, <2>4
  <2>5. CASE Parse(a) \/ ParseErrs(a)
    <3>1. rows[i] # None
      BY <2>5 DEF Parse, ParseErrs, Step, CallsOK, CallOK
    <3>2. \A k \in Ids : k # i => rows'[k] = rows[k]
      BY <2>5 DEF Parse, ParseErrs, TypeOK
    <3> QED
      BY <2>3, <3>1, <3>2
  <2>6. CASE /\ Insert(a) \/ InsertErrs(a)
             /\ rows' = [rows EXCEPT ![i] = Row(f, FirstStatus(f))]
    BY <1>0, <2>6, PaidInsert
  <2>7. CASE Insert(a) \/ InsertErrs(a)
    BY <2>4, <2>6, <2>7 DEF Insert, InsertErrs
  <2> QED
    BY <1>4, <2>4, <2>5, <2>7
       DEF Pipeline, Trouble, Probe, Store, Race, ProbeErrs, StoreErrs, RaceErrs
<1>5. ASSUME NEW c \in Channels, NEW n \in Names, Take(c, n) \/ TakeErrs(c, n)
      PROVE  Paid(g)'
  <2>1. NameOf[watch[c][n]] = n /\ watch[c][n] # None
    BY <1>5, TakeFacts, IngestionAssumption DEF FoldersOK
  <2>2. DueAt(c, g)' => DueAt(c, g)
    BY <1>5, <2>1, TakeFacts DEF DueAt, TypeOK
  <2>3. \A d \in Channels \ {c} : queued'[d] = queued[d]
    BY <1>5, TakeFacts DEF TypeOK
  <2>4. \A b \in Agents \ {c} : DueAt(b, g)' => DueAt(b, g)
    BY <1>5, <2>3, TakeFacts DEF DueAt
  <2>5. Sum(g)' >= Sum(g)
    BY <1>3, <1>5, TakeFacts
  <2> QED
    BY <1>1, <1>5, <2>2, <2>4, <2>5, TakeFacts
<1>6. ASSUME NEW c \in Channels, Move(c) \/ MoveErrs(c)
      PROVE  Paid(g)'
  <2>1. \A d \in Channels : watch'[d][NameOf[g]] = g => watch[d][NameOf[g]] = g
    BY <1>0, <1>6, EndFacts
  <2>2. \A b \in Agents : DueAt(b, g)' => DueAt(b, g)
    BY <1>6, <2>1, EndFacts DEF DueAt, Unstored
  <2>3. Sum(g)' >= Sum(g)
    BY <1>3, <1>6, EndFacts
  <2> QED
    BY <1>1, <1>6, <2>2, <2>3, EndFacts
<1>7. ASSUME NEW c \in Channels, NEW f \in Files, Drop(c, f)
      PROVE  Paid(g)'
  <2>1. /\ UNCHANGED <<call, rows, up, crashes, faults>>
        /\ given' = [given EXCEPT ![f] = @ + 1]
        /\ \A d \in Channels \ {c} : watch'[d] = watch[d] /\ queued'[d] = queued[d]
    BY <1>7 DEF Drop, boot, bounds, TypeOK
  <2>2. \A b \in Agents \ {c} : DueAt(b, g)' => DueAt(b, g)
    BY <2>1 DEF DueAt
  <2>3. CASE g = f
    <3>1. Sum(g)' >= Sum(g) + 1
      BY <2>1, <2>3, IngestionAssumption DEF TypeOK, Sum
    <3> QED
      BY <1>2, <2>1, <2>2, <3>1
  <2>4. CASE g # f
    <3>1. Sum(g)' >= Sum(g)
      BY <2>1, <2>4, IngestionAssumption DEF TypeOK, Sum
    <3>2. NameOf[f] \in Names /\ watch'[c] = [watch[c] EXCEPT ![NameOf[f]] = f]
      BY <1>7 DEF Drop, TypeOK, Names
    <3>3. watch'[c][NameOf[g]] = g => NameOf[g] # NameOf[f] /\ watch[c][NameOf[g]] = g
      BY <1>0, <2>4, <3>2 DEF TypeOK
    <3>4. NameOf[g] # NameOf[f] => (NameOf[g] \in queued'[c] => NameOf[g] \in queued[c])
      BY <1>7 DEF Drop, TypeOK
    <3>5. DueAt(c, g)' => DueAt(c, g)
      BY <2>1, <3>3, <3>4 DEF DueAt
    <3> QED
      BY <1>1, <2>1, <2>2, <3>1, <3>5
  <2> QED
    BY <2>3, <2>4
<1>8. ASSUME NEW u \in Uploads, Answer(u)
      PROVE  Paid(g)'
  <2>1. /\ u \in Agents /\ u \notin Channels
        /\ UNCHANGED <<watch, queued, up, rows, given, crashes, faults>>
    BY <1>8, IngestionAssumption DEF Agents, Answer, folders, boot, bounds
  <2>2. call'[u].at = "idle" /\ \A b \in Agents \ {u} : call'[b] = call[b]
    BY <1>8, <2>1, DoneFacts DEF Answer
  <2>3. \A b \in Agents : DueAt(b, g)' => DueAt(b, g)
    BY <2>1, <2>2 DEF DueAt, Unstored
  <2> QED
    BY <1>1, <1>3, <2>1, <2>3
<1>9. ASSUME NEW u \in Uploads, NEW f \in Files, Upload(u, f)
      PROVE  Paid(g)'
  <2>1. /\ u \in Agents /\ u \notin Channels
        /\ UNCHANGED <<watch, queued, up, rows, crashes, faults>>
        /\ given' = [given EXCEPT ![f] = @ + 1]
    BY <1>9, IngestionAssumption DEF Agents, Upload, folders, boot, bounds
  <2>2. call'[u].file = f /\ \A b \in Agents \ {u} : call'[b] = call[b]
    BY <1>9, <2>1, BeginFacts DEF Upload
  <2>3. \A b \in Agents \ {u} : DueAt(b, g)' => DueAt(b, g)
    BY <2>1, <2>2 DEF DueAt
  <2>4. CASE g = f
    <3>1. Sum(g)' >= Sum(g) + 1
      BY <2>1, <2>4, IngestionAssumption DEF TypeOK, Sum
    <3> QED
      BY <1>2, <2>1, <2>3, <3>1
  <2>5. CASE g # f
    <3>1. Sum(g)' >= Sum(g)
      BY <2>1, <2>5, IngestionAssumption DEF TypeOK, Sum
    <3>2. ~DueAt(u, g)'
      BY <2>1, <2>2, <2>5 DEF DueAt
    <3> QED
      BY <1>1, <2>1, <2>3, <3>1, <3>2
  <2> QED
    BY <2>4, <2>5
<1>10. CASE Crash
  <2>1. \A a \in Agents : call'[a].at = "idle"
    BY <1>10 DEF Crash, NoCall
  <2>2. UNCHANGED <<watch, rows, given, faults>> /\ crashes' = crashes + 1
    BY <1>10 DEF Crash, past
  <2>3. Sum(g)' >= Sum(g) + 1
    BY <2>2, IngestionAssumption DEF TypeOK, Sum
  <2>4. PICK x : \A c \in Channels : InFolder(c, g) => c = x
    BY DEF FoldersOK
  <2>5. \A b \in Agents \ {x} : ~DueAt(b, g)'
    BY <2>1, <2>2, <2>4 DEF DueAt, Unstored
  <2> QED
    BY <1>2, <2>2, <2>3, <2>5
<1>11. CASE Boot
  <2>1. \A b \in Agents : DueAt(b, g)' => DueAt(b, g)
    BY <1>11 DEF Boot, DueAt
  <2> QED
    BY <1>1, <1>3, <1>11, <2>1 DEF Boot, past, bounds
<1>12. ASSUME UNCHANGED <<watch, queued, call, up, given, crashes>>,
              \A i \in Ids : rows[i] = None => rows'[i] = None,
              faults' = faults \/ faults' = faults + 1
       PROVE  Paid(g)'
  <2>1. \A b \in Agents : DueAt(b, g)' => DueAt(b, g)
    BY <1>12 DEF DueAt
  <2> QED
    BY <1>1, <1>3, <1>12, <2>1
<1>13. CASE ReconcileScan \/ ReconcileErrs \/ UNCHANGED vars
  BY <1>12, <1>13
     DEF ReconcileScan, ReconcileErrs, Fault, vars, folders, boot, past, bounds
<1>14. ASSUME NEW i \in Ids, ReconcileParse(i) \/ Age(i)
       PROVE  Paid(g)'
  <2>1. rows[i] # None
    BY <1>14 DEF ReconcileParse, StuckHasRow, Age, Received
  <2>2. \A k \in Ids : k # i => rows'[k] = rows[k]
    BY <1>14 DEF ReconcileParse, Age, TypeOK
  <2>3. UNCHANGED <<watch, queued, call, up, given, crashes, faults>>
    BY <1>14 DEF ReconcileParse, Age, folders, boot, past, bounds
  <2> QED
    BY <1>12, <2>1, <2>2, <2>3
<1> QED
  BY <1>4, <1>5, <1>6, <1>7, <1>8, <1>9, <1>10, <1>11, <1>13, <1>14
     DEF Next, Handle, Reconcile
-----------------------------------------------------------------------------
(* Bytes without a row.  While nothing has failed, an agent leaves bytes    *)
(* behind only after it lost a race, and it could lose only if it had asked *)
(* the database before the control number was known: who is still to lose   *)
(* and what was left behind are together fewer than the agents.             *)
Losers(f) == {a \in Agents : /\ call[a].file = f
                             /\ call[a].id \in Ids
                             /\ rows[call[a].id] = None}

\* What a call's id and stage say about its bytes and its control number.
HeldOK(a) ==
  /\ call[a].at \in {"idle", "probe"} => call[a].id = None
  /\ call[a].at = "race" => Known(call[a].file)
  /\ call[a].id \in Ids /\ objects[call[a].id] # None
       => objects[call[a].id] = call[a].file

AllHeld == \A a \in Agents : HeldOK(a)

\* A call that ends without a failure leaves nothing, unless it lost a race.
EndsClean(a) ==
  /\ call[a].at \in {"bad", "caught"} => call[a].id = None
  /\ call[a].at = "ok" /\ call[a].id \in Ids /\ Class[call[a].file] # "x12"
       => rows[call[a].id] # None

Bounded(f) ==
  /\ ~Known(f) => Orphans(f) = {}
  /\ Known(f) => Cardinality(Orphans(f)) + Cardinality(Losers(f))
                   <= Cardinality(Agents) - 1

Calm == crashes + faults = 0 =>
          /\ \A a \in Agents : EndsClean(a)
          /\ \A f \in Files : Bounded(f)

LEMMA KnownStays ==
  ASSUME Grow, NEW f, Known(f)
  PROVE  Known(f)'
BY DEF Grow, Known

LEMMA RecordedIsKnown ==
  ASSUME NEW f \in Files, Class[f] = "x12", Recorded(f)
  PROVE  Known(f)
BY DEF Recorded, Known

\* What calls hold stays as it is when a step leaves the call, its object and
\* the rows alone.
LEMMA HeldKept ==
  ASSUME Grow, NEW b \in Agents, HeldOK(b), call'[b] = call[b],
         call[b].id \in Ids => objects'[call[b].id] = objects[call[b].id]
  PROVE  HeldOK(b)'
<1>1. Known(call[b].file) => Known(call[b].file)'
  <2>1. \A f : Known(f) => Known(f)'
    BY KnownStays
  <2> QED
    BY <2>1 DEF Known
<1> QED
  BY <1>1 DEF HeldOK

LEMMA HeldStep ==
  ASSUME PipeInv, AllHeld, [Next]_vars
  PROVE  AllHeld'
<1> USE DEF PipeInv
<1>0. Grow /\ None \notin Ids /\ None \notin Files
  BY GrowStep, IngestionAssumption
<1>1. ASSUME NEW a \in Agents, HeldOK(a)',
             \A b \in Agents \ {a} : call'[b] = call[b],
             \/ UNCHANGED objects
             \/ objects' = [objects EXCEPT ![call[a].id] = call[a].file]
      PROVE  AllHeld'
  <2> SUFFICES ASSUME NEW b \in Agents \ {a}
               PROVE  HeldOK(b)'
    BY <1>1 DEF AllHeld
  <2>1. call[b].id \in Ids => objects'[call[b].id] = objects[call[b].id]
    BY <1>0, <1>1 DEF OneIdEach, TypeOK
  <2> QED
    BY <1>0, <1>1, <2>1, HeldKept DEF AllHeld
<1>2. ASSUME NEW a \in Agents, Pipeline(a) \/ Trouble(a)
      PROVE  AllHeld'
  <2> DEFINE f == call[a].file  i == call[a].id
  <2>0. HeldOK(a) /\ CallOK(a)
    BY DEF AllHeld, CallsOK
  <2>1. \A b \in Agents \ {a} : call'[b] = call[b]
    BY <1>2, StageFacts
  <2>2. ASSUME NEW from, NEW to \in Stages, Step(a, from, to),
               to \notin {"idle", "probe"}, to = "race" => Known(f),
               \/ UNCHANGED objects
               \/ i \in Ids /\ f \in Files /\ objects' = [objects EXCEPT ![i] = f]
        PROVE  AllHeld'
    <3>1. call'[a].at = to /\ call'[a].file = f /\ call'[a].id = i
      BY <2>2, StepFacts
    <3>2. to = "race" => Known(call[a].file)'
      <4>1. \A g : Known(g) => Known(g)'
        BY <1>0, KnownStays
      <4> QED
        BY <2>2, <3>1, <4>1 DEF Known
    <3>3. i \in Ids /\ objects'[i] # None => objects'[i] = f
      BY <2>0, <2>2 DEF HeldOK, TypeOK
    <3>4. HeldOK(a)'
      BY <2>2, <3>1, <3>2, <3>3 DEF HeldOK
    <3> QED
      BY <1>1, <2>1, <2>2, <3>4
  <2>3. CASE Probe(a)
    <3>1. CASE Step(a, "probe", "ok")
      BY <2>2, <2>3, <3>1 DEF Probe, Stages
    <3>2. CASE /\ Ids \ UsedIds # {}
               /\ call' = [call EXCEPT ![a].at = "upload", ![a].id = FreshId]
      <4>1. call'[a].at = "upload" /\ call'[a].id = FreshId
        BY <3>2, NamedFacts
      <4>2. objects'[FreshId] = None
        BY <2>3, <3>2, FreshIdIsFree DEF Probe, UsedIds
      <4>3. HeldOK(a)'
        BY <4>1, <4>2 DEF HeldOK
      <4> QED
        BY <1>1, <2>1, <2>3, <4>3 DEF Probe
    <3> QED
      BY <2>3, <3>1, <3>2 DEF Probe
  <2>4. call[a].at = "upload" => i \in Ids /\ f \in Files
    BY <2>0 DEF CallOK, Named
  <2>5. CASE Store(a)
    BY <2>2, <2>4, <2>5 DEF Store, Stages, Step
  <2>6. CASE Insert(a)
    <3>1. CASE Step(a, "insert", "race") /\ Known(f)
      BY <2>2, <2>6, <3>1 DEF Insert, Stages
    <3>2. CASE Step(a, "insert", IF Class[f] = "x12" THEN "parse" ELSE "ok")
      <4>1. PICK to \in {"parse", "ok"} : Step(a, "insert", to)
        BY <3>2
      <4> QED
        BY <2>2, <2>6, <4>1 DEF Insert, Stages
    <3> QED
      BY <2>6, <3>1, <3>2 DEF Insert
  <2>7. CASE Race(a)
    <3>1. PICK to \in {"ok", "bad"} : Step(a, "race", to)
      BY <2>7 DEF Race
    <3> QED
      BY <2>2, <2>7, <3>1 DEF Race, Stages
  <2>8. CASE Parse(a) \/ ParseErrs(a)
    BY <2>2, <2>8 DEF Parse, ParseErrs, Stages
  <2>9. CASE ProbeErrs(a) \/ InsertErrs(a)
    BY <2>2, <2>9 DEF ProbeErrs, InsertErrs, Stages
  <2>10. CASE RaceErrs(a)
    <3>1. PICK to \in {"caught", "bad"} : Step(a, "race", to)
      BY <2>10 DEF RaceErrs
    <3> QED
      BY <2>2, <2>10, <3>1 DEF RaceErrs, Stages
  <2>11. CASE StoreErrs(a)
    <3>1. /\ call[a].at = "upload"
          /\ \/ call' = [call EXCEPT ![a].tries = @ + 1]
             \/ call' = [call EXCEPT ![a].at = "bad"]
          /\ \/ UNCHANGED objects
             \/ objects' = [objects EXCEPT ![i] = f]
      BY <2>11 DEF StoreErrs
    <3>2. /\ call'[a].at \in {"upload", "bad"} /\ call'[a].file = f
          /\ call'[a].id = i
      BY <3>1 DEF TypeOK, Calls
    <3>3. i \in Ids /\ objects'[i] # None => objects'[i] = f
      BY <2>0, <3>1 DEF HeldOK, TypeOK
    <3>4. HeldOK(a)'
      BY <3>2, <3>3 DEF HeldOK
    <3> QED
      BY <1>1, <2>1, <3>1, <3>4
  <2> QED
    BY <1>2, <2>3, <2>5, <2>6, <2>7, <2>8, <2>9, <2>10, <2>11
       DEF Pipeline, Trouble
<1>3. ASSUME NEW c \in Channels, NEW n \in Names, Take(c, n) \/ TakeErrs(c, n)
      PROVE  AllHeld'
  <2>1. HeldOK(c)'
    BY <1>0, <1>3, TakeFacts DEF HeldOK
  <2> QED
    BY <1>1, <1>3, <2>1, TakeFacts
<1>4. ASSUME NEW c \in Channels, Move(c) \/ MoveErrs(c)
      PROVE  AllHeld'
  <2>1. HeldOK(c)'
    BY <1>0, <1>4, EndFacts DEF HeldOK, AllHeld
  <2> QED
    BY <1>1, <1>4, <2>1, EndFacts
<1>5. ASSUME NEW u \in Uploads, Answer(u) \/ \E f \in Files : Upload(u, f)
      PROVE  AllHeld'
  <2>1. u \in Agents /\ UNCHANGED objects
    BY <1>5 DEF Agents, Answer, Upload
  <2>2. /\ call'[u].at \in {"idle", "probe", "bad"} /\ call'[u].id = None
        /\ \A b \in Agents \ {u} : call'[b] = call[b]
    BY <1>5, <2>1, DoneFacts, BeginFacts DEF Answer, Upload
  <2>3. HeldOK(u)'
    BY <1>0, <2>2 DEF HeldOK
  <2> QED
    BY <1>1, <2>1, <2>2, <2>3
<1>6. CASE Crash
  <2>1. \A a \in Agents : call'[a].at = "idle" /\ call'[a].id = None
    BY <1>6 DEF Crash, NoCall
  <2> QED
    BY <1>0, <2>1 DEF AllHeld, HeldOK
<1>7. CASE UNCHANGED <<call, objects>>
  <2>1. \A b \in Agents : HeldOK(b)'
    BY <1>0, <1>7, HeldKept DEF AllHeld
  <2> QED
    BY <2>1 DEF AllHeld
<1> QED
  BY <1>2, <1>3, <1>4, <1>5, <1>6, <1>7
     DEF Next, Handle, Reconcile, ReconcileScan, ReconcileParse, ReconcileErrs,
         Age, Drop, Boot, vars

\* Counting again: what was left behind and who may still lose.
LEMMA FiniteLost ==
  ASSUME NEW f
  PROVE  /\ IsFiniteSet(Orphans(f)) /\ IsFiniteSet(Losers(f))
         /\ Cardinality(Orphans(f)) \in Nat /\ Cardinality(Losers(f)) \in Nat
         /\ Cardinality(Agents) \in Nat
<1>1. Orphans(f) \subseteq Ids /\ Losers(f) \subseteq Agents
  BY DEF Orphans, Losers
<1>2. IsFiniteSet(Ids) /\ IsFiniteSet(Agents)
  BY IngestionAssumption
<1>3. IsFiniteSet(Orphans(f)) /\ IsFiniteSet(Losers(f))
  BY <1>1, <1>2, FS_Subset
<1> QED
  BY <1>2, <1>3, FS_CardinalityType

LEMMA BoundedKept ==
  ASSUME NEW f, Bounded(f), Known(f) => Known(f)', Known(f)' => Known(f),
         Orphans(f)' \subseteq Orphans(f), Losers(f)' \subseteq Losers(f)
  PROVE  Bounded(f)'
<1>1. /\ IsFiniteSet(Orphans(f)') /\ IsFiniteSet(Losers(f)')
      /\ Cardinality(Orphans(f)') <= Cardinality(Orphans(f))
      /\ Cardinality(Losers(f)') <= Cardinality(Losers(f))
  BY FiniteLost, FS_Subset
<1>2. Cardinality(Orphans(f)') \in Nat /\ Cardinality(Losers(f)') \in Nat
  BY <1>1, FS_CardinalityType
<1>3. /\ Cardinality(Orphans(f)) \in Nat /\ Cardinality(Losers(f)) \in Nat
      /\ Cardinality(Agents) \in Nat
  BY FiniteLost
<1>4. CASE Known(f)
  <2>1. Cardinality(Orphans(f)) + Cardinality(Losers(f)) <= Cardinality(Agents) - 1
    BY <1>4 DEF Bounded
  <2>2. Cardinality(Orphans(f)') + Cardinality(Losers(f)') <= Cardinality(Agents) - 1
    BY <1>1, <1>2, <1>3, <2>1
  <2> QED
    BY <1>4, <2>2 DEF Bounded
<1>5. CASE ~Known(f)
  BY <1>5 DEF Bounded
<1> QED
  BY <1>4, <1>5

\* The race is won: everybody else may lose it, and nothing was left before.
LEMMA BoundedWon ==
  ASSUME NEW f, Bounded(f), ~Known(f), Known(f)', NEW a \in Agents,
         Orphans(f)' \subseteq Orphans(f), a \notin Losers(f)'
  PROVE  Bounded(f)'
<1>1. Orphans(f)' = {}
  BY DEF Bounded
<1>2. Losers(f)' \subseteq Agents \ {a}
  BY DEF Losers
<1>3. /\ IsFiniteSet(Agents) /\ IsFiniteSet(Agents \ {a})
      /\ Cardinality(Agents \ {a}) = Cardinality(Agents) - 1
      /\ Cardinality(Agents) \in Nat
  BY IngestionAssumption, FS_RemoveElement, FS_CardinalityType
<1>4. Cardinality(Losers(f)') <= Cardinality(Agents) - 1
  BY <1>2, <1>3, FS_Subset
<1>5. Cardinality(Losers(f)') \in Nat
  BY <1>2, <1>3, FS_Subset, FS_CardinalityType
<1>6. Cardinality(Orphans(f)') = 0
  BY <1>1, FS_EmptySet
<1>7. Cardinality(Orphans(f)') + Cardinality(Losers(f)') <= Cardinality(Agents) - 1
  BY <1>4, <1>5, <1>6
<1> QED
  BY <1>7 DEF Bounded

\* The race is lost: one loser less, one orphan more.
LEMMA BoundedLost ==
  ASSUME NEW f, Bounded(f), Known(f), Known(f)', NEW a \in Losers(f), NEW i,
         Orphans(f)' \subseteq Orphans(f) \cup {i},
         Losers(f)' \subseteq Losers(f) \ {a}
  PROVE  Bounded(f)'
<1>0. /\ IsFiniteSet(Orphans(f)) /\ IsFiniteSet(Losers(f))
      /\ Cardinality(Orphans(f)) \in Nat /\ Cardinality(Losers(f)) \in Nat
      /\ Cardinality(Agents) \in Nat
  BY FiniteLost
<1>1. /\ IsFiniteSet(Orphans(f) \cup {i})
      /\ Cardinality(Orphans(f) \cup {i}) <= Cardinality(Orphans(f)) + 1
  <2>1. /\ IsFiniteSet(Orphans(f) \cup {i})
        /\ Cardinality(Orphans(f) \cup {i})
             = IF i \in Orphans(f) THEN Cardinality(Orphans(f))
                                   ELSE Cardinality(Orphans(f)) + 1
    BY <1>0, FS_AddElement
  <2> QED
    BY <1>0, <2>1
<1>2. /\ IsFiniteSet(Losers(f) \ {a})
      /\ Cardinality(Losers(f) \ {a}) = Cardinality(Losers(f)) - 1
  BY <1>0, FS_RemoveElement
<1>3. /\ Cardinality(Orphans(f)') <= Cardinality(Orphans(f) \cup {i})
      /\ Cardinality(Losers(f)') <= Cardinality(Losers(f) \ {a})
  BY <1>1, <1>2, FS_Subset
<1>4. /\ Cardinality(Orphans(f)') \in Nat /\ Cardinality(Losers(f)') \in Nat
      /\ Cardinality(Orphans(f) \cup {i}) \in Nat
  BY <1>1, <1>2, FS_Subset, FS_CardinalityType
<1>5. Cardinality(Orphans(f)) + Cardinality(Losers(f)) <= Cardinality(Agents) - 1
  BY DEF Bounded
<1>6. Cardinality(Orphans(f)') + Cardinality(Losers(f)') <= Cardinality(Agents) - 1
  BY <1>0, <1>1, <1>2, <1>3, <1>4, <1>5
<1> QED
  BY <1>6 DEF Bounded

\* Ids and files of the calls, and which rows there are, stay.
LEMMA BoundedFrame ==
  ASSUME Grow, NEW f, Bounded(f), UNCHANGED objects,
         \A i \in Ids : rows[i] = None => rows'[i] = None,
         \A b \in Agents : call'[b].id = call[b].id /\ call'[b].file = call[b].file
  PROVE  Bounded(f)'
<1>1. Known(f)' => Known(f)
  BY DEF Known, Grow
<1>2. Orphans(f)' \subseteq Orphans(f)
  BY DEF Orphans, Grow
<1>3. Losers(f)' \subseteq Losers(f)
  BY DEF Losers, Grow
<1> QED
  BY <1>1, <1>2, <1>3, BoundedKept, KnownStays

\* A call ends, and gives up its id.
LEMMA BoundedEnd ==
  ASSUME PipeInv, AllHeld, Grow, NEW a \in Agents, EndsClean(a),
         NEW g \in Files, Bounded(g), call[a].at \in {"ok", "bad", "caught"},
         call'[a].id = None, \A b \in Agents \ {a} : call'[b] = call[b],
         UNCHANGED <<rows, objects>>
  PROVE  Bounded(g)'
<1> USE DEF PipeInv
<1> DEFINE f == call[a].file  i == call[a].id
<1>0. None \notin Ids /\ None \notin Files /\ HeldOK(a) /\ CallOK(a)
  BY IngestionAssumption DEF AllHeld, CallsOK
<1>1. /\ Known(g)' => Known(g)
      /\ Known(g) => Known(g)'
  BY DEF Known
<1>2. Losers(g)' \subseteq Losers(g) \ {a}
  BY <1>0 DEF Losers
<1>3. Orphans(g)' \subseteq Orphans(g) \cup {i}
  BY DEF Orphans
<1>4. CASE i \notin Ids \/ rows[i] # None \/ objects[i] # g
  <2>1. i \notin Orphans(g)'
    BY <1>4 DEF Orphans
  <2> QED
    BY <1>1, <1>2, <1>3, <2>1, BoundedKept
<1>5. CASE i \in Ids /\ rows[i] = None /\ objects[i] = g
  <2>1. call[a].at = "ok" /\ f \in Files /\ Recorded(f)
    BY <1>0, <1>5 DEF EndsClean, CallOK
  <2>2. g = f /\ Class[f] = "x12"
    BY <1>0, <1>5, <2>1 DEF HeldOK, EndsClean
  <2>3. Known(g)
    BY <2>1, <2>2, RecordedIsKnown
  <2>4. a \in Losers(g)
    BY <1>5, <2>2 DEF Losers
  <2> QED
    BY <1>1, <1>2, <1>3, <2>3, <2>4, BoundedLost
<1> QED
  BY <1>4, <1>5

\* A stage of the pipeline, nothing failing.
LEMMA CalmStage ==
  ASSUME PipeInv, AllHeld, Grow, NEW a \in Agents, Pipeline(a),
         \A b \in Agents : EndsClean(b),
         \A g \in Files : Bounded(g)
  PROVE  /\ EndsClean(a)'
         /\ \A g \in Files : Bounded(g)'
<1> USE DEF PipeInv
<1> DEFINE f == call[a].file  i == call[a].id
<1>0. None \notin Ids /\ None \notin Files /\ HeldOK(a) /\ CallOK(a)
  BY IngestionAssumption DEF AllHeld, CallsOK
<1>1. ASSUME NEW from, NEW to \in Stages, Step(a, from, to), UNCHANGED objects,
             \A k \in Ids : rows[k] = None => rows'[k] = None,
             to \in {"bad", "caught"} => FALSE,
             to = "ok" => i \notin Ids \/ Class[f] = "x12" \/ rows[i] # None
      PROVE  EndsClean(a)' /\ \A g \in Files : Bounded(g)'
  <2>1. /\ call'[a].at = to /\ call'[a].file = f /\ call'[a].id = i
        /\ \A b \in Agents \ {a} : call'[b] = call[b]
    BY <1>1, StepFacts
  <2>2. EndsClean(a)'
    BY <1>1, <2>1 DEF EndsClean, Grow
  <2>3. \A g \in Files : Bounded(g)'
    BY <1>1, <2>1, BoundedFrame
  <2> QED
    BY <2>2, <2>3
<1>2. CASE Probe(a)
  <2>1. call[a].at = "probe" /\ UNCHANGED <<rows, objects>>
    BY <1>2 DEF Probe, Step
  <2>2. i = None
    BY <1>0, <2>1 DEF HeldOK
  <2>3. CASE Step(a, "probe", "ok")
    BY <1>0, <1>1, <2>1, <2>2, <2>3 DEF Stages
  <2>4. CASE /\ ~Known(f) /\ Ids \ UsedIds # {}
             /\ call' = [call EXCEPT ![a].at = "upload", ![a].id = FreshId]
    <3>1. /\ call'[a].at = "upload" /\ call'[a].file = f
          /\ \A b \in Agents \ {a} : call'[b] = call[b]
      BY <2>4, NamedFacts
    <3>2. EndsClean(a)'
      BY <3>1 DEF EndsClean
    <3>3. ASSUME NEW g \in Files
          PROVE  Bounded(g)'
      <4>1. Known(g)' => Known(g)
        BY <2>1 DEF Known
      <4>2. Known(g) => Known(g)'
        BY KnownStays
      <4>3. Orphans(g)' \subseteq Orphans(g)
        BY <1>0, <2>1, <2>2, <3>1 DEF Orphans
      <4>4. CASE g = f
        BY <2>4, <4>1, <4>3, <4>4 DEF Bounded
      <4>5. CASE g # f
        <5>1. Losers(g)' \subseteq Losers(g)
          BY <2>1, <3>1, <4>5 DEF Losers
        <5> QED
          BY <4>1, <4>2, <4>3, <5>1, BoundedKept
      <4> QED
        BY <4>4, <4>5
    <3> QED
      BY <3>2, <3>3
  <2> QED
    BY <1>2, <2>3, <2>4 DEF Probe
<1>3. CASE Store(a)
  <2>1. /\ call'[a].at = "insert" /\ call'[a].file = f /\ call'[a].id = i
        /\ call[a].at = "upload" /\ UNCHANGED rows
        /\ objects' = [objects EXCEPT ![i] = f]
        /\ \A b \in Agents \ {a} : call'[b] = call[b]
    BY <1>3, StepFacts DEF Store, Stages
  <2>2. EndsClean(a)'
    BY <2>1 DEF EndsClean
  <2>3. ASSUME NEW g \in Files
        PROVE  Bounded(g)'
    <3>1. \A k \in Ids : k # i => objects'[k] = objects[k]
      BY <2>1 DEF TypeOK
    <3>2. Orphans(g)' \subseteq Orphans(g)
      BY <2>1, <3>1 DEF Orphans
    <3>3. Losers(g)' \subseteq Losers(g)
      BY <2>1 DEF Losers
    <3>4. Known(g)' => Known(g)
      BY <2>1 DEF Known
    <3> QED
      BY <3>2, <3>3, <3>4, KnownStays, BoundedKept
  <2> QED
    BY <2>2, <2>3
<1>4. CASE Insert(a)
  <2>1. CASE Step(a, "insert", "race") /\ UNCHANGED rows
    BY <1>1, <1>4, <2>1 DEF Insert, Stages
  <2>2. CASE /\ Step(a, "insert", IF Class[f] = "x12" THEN "parse" ELSE "ok")
             /\ rows' = [rows EXCEPT ![i] = Row(f, FirstStatus(f))]
    <3>1. PICK to \in {"parse", "ok"} : Step(a, "insert", to)
      BY <2>2
    <3>2. /\ call[a].at = "insert" /\ call'[a].at = to
          /\ call'[a].file = f /\ call'[a].id = i
          /\ \A b \in Agents \ {a} : call'[b] = call[b]
          /\ UNCHANGED objects
      BY <1>4, <3>1, StepFacts DEF Insert, Stages
    <3>3. i \in Ids /\ f \in Files /\ Class[f] # "empty" /\ rows[i] = None
      BY <1>0, <3>2 DEF CallOK, Checked, Named
    <3>4. rows'[i] # None /\ rows'[i].file = f /\ \A k \in Ids : k # i => rows'[k] = rows[k]
      BY <2>2, <3>3, FirstStatusType, RowType DEF TypeOK
    <3>5. EndsClean(a)'
      BY <3>1, <3>2, <3>4 DEF EndsClean
    <3>6. ASSUME NEW g \in Files
          PROVE  Bounded(g)'
      <4>1. Orphans(g)' \subseteq Orphans(g)
        BY <3>2, <3>4 DEF Orphans
      <4>2. Losers(g)' \subseteq Losers(g) /\ a \notin Losers(g)'
        BY <3>2, <3>4 DEF Losers
      <4>3. CASE Known(g)' => Known(g)
        BY <4>1, <4>2, <4>3, KnownStays, BoundedKept
      <4>4. CASE Known(g)' /\ ~Known(g)
        BY <4>1, <4>2, <4>4, BoundedWon
      <4> QED
        BY <4>3, <4>4
    <3> QED
      BY <3>5, <3>6
  <2> QED
    BY <1>4, <2>1, <2>2 DEF Insert
<1>5. CASE Race(a)
  <2>1. call[a].at = "race"
    BY <1>5 DEF Race, Step
  <2>2. Known(f)
    BY <1>0, <2>1 DEF HeldOK
  <2>3. Step(a, "race", "ok") /\ Class[f] = "x12"
    BY <1>5, <2>2 DEF Race, Known
  <2> QED
    BY <1>1, <1>5, <2>3 DEF Race, Stages
<1>6. CASE Parse(a)
  <2>1. call[a].at = "parse"
    BY <1>6 DEF Parse, Step
  <2>2. rows[i] # None
    BY <1>0, <2>1 DEF CallOK
  <2>3. \A k \in Ids : k # i => rows'[k] = rows[k]
    BY <1>6 DEF Parse, TypeOK
  <2> QED
    BY <1>1, <1>6, <2>2, <2>3 DEF Parse, Stages
<1> QED
  BY <1>2, <1>3, <1>4, <1>5, <1>6 DEF Pipeline

LEMMA CalmStep ==
  ASSUME PipeInv, AllHeld, Calm, [Next]_vars
  PROVE  Calm'
<1> USE DEF PipeInv
<1> SUFFICES ASSUME crashes' + faults' = 0
             PROVE  /\ \A a \in Agents : EndsClean(a)'
                    /\ \A g \in Files : Bounded(g)'
  BY DEF Calm
<1>0. TypeOK' /\ Grow /\ None \notin Ids
  BY TypeStep, GrowStep, IngestionAssumption
<1>1. /\ crashes \in Nat /\ faults \in Nat
      /\ crashes' \in Nat /\ faults' \in Nat
  BY <1>0, IngestionAssumption DEF TypeOK
<1>2. crashes' = 0 /\ faults' = 0
  <2>1. \A m, n \in Nat : m + n = 0 => m = 0 /\ n = 0
    OBVIOUS
  <2> QED
    BY <1>1, <2>1
<1>3. ~Fault /\ ~Crash
  BY <1>1, <1>2 DEF Fault, Crash
<1>4. UNCHANGED <<crashes, faults>>
  BY <1>3
     DEF Next, Pipeline, Trouble, Handle, Reconcile, Probe, Store, Insert, Race,
         Parse, ProbeErrs, StoreErrs, InsertErrs, RaceErrs, ParseErrs, Take,
         TakeErrs, Move, MoveErrs, Drop, Answer, Upload, Boot, ReconcileScan,
         ReconcileParse, ReconcileErrs, Age, vars, bounds
<1>5. /\ \A a \in Agents : EndsClean(a)
      /\ \A g \in Files : Bounded(g)
  BY <1>2, <1>4 DEF Calm
<1>6. ASSUME NEW b \in Agents, call'[b] = call[b]
      PROVE  EndsClean(b)'
  BY <1>0, <1>5, <1>6 DEF EndsClean, Grow
<1>7. ASSUME NEW a \in Agents, Pipeline(a)
      PROVE  /\ \A b \in Agents : EndsClean(b)'
             /\ \A g \in Files : Bounded(g)'
  <2>1. EndsClean(a)' /\ \A g \in Files : Bounded(g)'
    BY <1>0, <1>5, <1>7, CalmStage
  <2> QED
    BY <1>6, <1>7, <2>1, StageFacts
<1>8. ASSUME NEW a \in Agents, call[a].id = None, call'[a].id = None,
             \A b \in Agents \ {a} : call'[b] = call[b], UNCHANGED <<rows, objects>>
      PROVE  /\ \A b \in Agents : EndsClean(b)'
             /\ \A g \in Files : Bounded(g)'
  <2>1. EndsClean(a)'
    BY <1>0, <1>8 DEF EndsClean
  <2>2. ASSUME NEW g \in Files
        PROVE  Bounded(g)'
    <3>1. /\ Known(g) => Known(g)'
          /\ Known(g)' => Known(g)
      BY <1>8 DEF Known
    <3>2. Orphans(g)' \subseteq Orphans(g) /\ Losers(g)' \subseteq Losers(g)
      BY <1>0, <1>8 DEF Orphans, Losers
    <3> QED
      BY <1>5, <3>1, <3>2, BoundedKept
  <2> QED
    BY <1>6, <1>8, <2>1, <2>2
<1>9. ASSUME NEW a \in Agents, Done(a), call[a].at \in {"ok", "bad", "caught"},
             UNCHANGED <<rows, objects>>
      PROVE  /\ \A b \in Agents : EndsClean(b)'
             /\ \A g \in Files : Bounded(g)'
  <2>1. /\ call'[a].at = "idle" /\ call'[a].id = None
        /\ \A b \in Agents \ {a} : call'[b] = call[b]
    BY <1>9, DoneFacts
  <2>2. EndsClean(a)'
    BY <2>1 DEF EndsClean
  <2>3. \A g \in Files : Bounded(g)'
    BY <1>0, <1>5, <1>9, <2>1, BoundedEnd
  <2> QED
    BY <1>6, <2>1, <2>2, <2>3
<1>10. ASSUME NEW c \in Channels, NEW n \in Names, Take(c, n)
       PROVE  /\ \A b \in Agents : EndsClean(b)'
              /\ \A g \in Files : Bounded(g)'
  <2>1. call[c].id = None
    BY <1>10, TakeFacts DEF AllHeld, HeldOK
  <2> QED
    BY <1>8, <1>10, <2>1, TakeFacts
<1>11. ASSUME NEW c \in Channels, Move(c)
       PROVE  /\ \A b \in Agents : EndsClean(b)'
              /\ \A g \in Files : Bounded(g)'
  BY <1>9, <1>11, EndFacts DEF Move
<1>12. ASSUME NEW u \in Uploads, Answer(u)
       PROVE  /\ \A b \in Agents : EndsClean(b)'
              /\ \A g \in Files : Bounded(g)'
  BY <1>9, <1>12 DEF Answer, Agents
<1>13. ASSUME NEW u \in Uploads, NEW f \in Files, Upload(u, f)
       PROVE  /\ \A b \in Agents : EndsClean(b)'
              /\ \A g \in Files : Bounded(g)'
  <2>1. u \in Agents /\ call[u].at = "idle" /\ UNCHANGED <<rows, objects>> /\ Begin(u, f)
    BY <1>13 DEF Upload, Agents
  <2>2. call[u].id = None
    BY <2>1 DEF AllHeld, HeldOK
  <2> QED
    BY <1>8, <2>1, <2>2, BeginFacts
<1>14. ASSUME UNCHANGED <<call, objects>>,
              \A k \in Ids : rows[k] = None => rows'[k] = None
       PROVE  /\ \A b \in Agents : EndsClean(b)'
              /\ \A g \in Files : Bounded(g)'
  BY <1>0, <1>5, <1>6, <1>14, BoundedFrame
<1>15. ASSUME NEW i \in Ids, ReconcileParse(i) \/ Age(i)
       PROVE  /\ \A b \in Agents : EndsClean(b)'
              /\ \A g \in Files : Bounded(g)'
  <2>1. rows[i] # None
    BY <1>15 DEF ReconcileParse, StuckHasRow, Age, Received
  <2>2. \A k \in Ids : k # i => rows'[k] = rows[k]
    BY <1>15 DEF ReconcileParse, Age, TypeOK
  <2> QED
    BY <1>14, <1>15, <2>1, <2>2 DEF ReconcileParse, Age
<1>16. CASE UNCHANGED <<call, objects, rows>>
  BY <1>14, <1>16
<1> QED
  BY <1>3, <1>7, <1>10, <1>11, <1>12, <1>13, <1>15, <1>16
     DEF Next, Trouble, Handle, Reconcile, ProbeErrs, StoreErrs, InsertErrs,
         RaceErrs, ParseErrs, TakeErrs, MoveErrs, Drop, Boot, ReconcileScan,
         ReconcileErrs, vars

DeliveryInv == PipeInv /\ FoldersOK /\ AllPaid /\ AllHeld /\ Calm

LEMMA InitDelivery == Init => DeliveryInv
<1> SUFFICES ASSUME Init
             PROVE  DeliveryInv
  OBVIOUS
<1>0. PipeInv /\ None \notin Ids
  BY InitPipe, IngestionAssumption
<1>1. \A a \in Agents : call[a].at = "idle" /\ call[a].id = None /\ call[a].file = None
  BY DEF Init, NoCall
<1>2. \A c \in Channels, n \in Names : watch[c][n] = None
  BY DEF Init, EmptyDirs
<1>3. \A f \in Files : NameOf[f] \in Names /\ f # None
  BY IngestionAssumption DEF Names
<1>4. FoldersOK
  BY <1>1, <1>2, <1>3 DEF FoldersOK, InFolder, Init, Agents
<1>5. AllPaid
  <2> SUFFICES ASSUME NEW f \in Files
               PROVE  Paid(f)
    BY DEF AllPaid
  <2>1. Due(f) = {}
    BY <1>1, <1>2, <1>3 DEF Due, DueAt, Unstored
  <2>2. {i \in Ids : rows[i] # None /\ rows[i].file = f} = {}
    BY DEF Init
  <2>3. Cardinality(Due(f)) = 0 /\ Copies(f) = 0
    BY <2>1, <2>2, FS_EmptySet DEF Copies
  <2>4. given[f] = 0 /\ crashes = 0 /\ faults = 0
    BY DEF Init
  <2> QED
    BY <2>3, <2>4 DEF Paid
<1>6. AllHeld
  BY <1>0, <1>1 DEF AllHeld, HeldOK
<1>7. Calm
  <2>1. \A f \in Files : ~Known(f) /\ Orphans(f) = {}
    BY <1>3 DEF Init, Known, Orphans
  <2>2. \A a \in Agents : EndsClean(a)
    BY <1>1 DEF EndsClean
  <2> QED
    BY <2>1, <2>2 DEF Calm, Bounded
<1> QED
  BY <1>0, <1>4, <1>5, <1>6, <1>7 DEF DeliveryInv

LEMMA DeliveryStep ==
  ASSUME DeliveryInv, [Next]_vars
  PROVE  DeliveryInv'
BY PipeStep, FoldersStep, PaidStep, HeldStep, CalmStep DEF DeliveryInv

LEMMA DeliveryMeans == DeliveryInv => StoredAsDelivered
<1> SUFFICES ASSUME DeliveryInv, NEW f \in Files
             PROVE  /\ crashes + faults = 0 =>
                         Cardinality(Orphans(f))
                           <= IF Class[f] = "x12" THEN Cardinality(Agents) - 1 ELSE 0
                    /\ Copies(f) <= given[f] + crashes + faults
  BY DEF StoredAsDelivered
<1>0. /\ IsFiniteSet(Agents)
      /\ Cardinality(Agents) \in Nat /\ Cardinality(Agents) # 0
      /\ Cardinality(Orphans(f)) \in Nat /\ Cardinality(Losers(f)) \in Nat
  BY IngestionAssumption, FiniteLost, FS_EmptySet
<1>1. ASSUME crashes + faults = 0
      PROVE  Cardinality(Orphans(f))
               <= IF Class[f] = "x12" THEN Cardinality(Agents) - 1 ELSE 0
  <2>1. Bounded(f)
    BY <1>1 DEF DeliveryInv, Calm
  <2>2. CASE ~Known(f)
    <3>1. Cardinality(Orphans(f)) = 0
      BY <2>1, <2>2, FS_EmptySet DEF Bounded
    <3> QED
      BY <1>0, <3>1
  <2>3. CASE Known(f)
    <3>1. Cardinality(Orphans(f)) + Cardinality(Losers(f)) <= Cardinality(Agents) - 1
      BY <2>1, <2>3 DEF Bounded
    <3>2. Class[f] = "x12"
      BY <2>3 DEF Known
    <3> QED
      BY <1>0, <3>1, <3>2
  <2> QED
    BY <2>2, <2>3
<1>2. Copies(f) <= given[f] + crashes + faults
  <2>1. Copies(f) + Cardinality(Due(f)) <= given[f] + crashes + faults
    BY DEF DeliveryInv, AllPaid, Paid
  <2>2. Copies(f) \in Nat /\ Cardinality(Due(f)) \in Nat
    BY Finite
  <2>3. given[f] + crashes + faults \in Nat
    BY IngestionAssumption DEF DeliveryInv, PipeInv, TypeOK
  <2> DEFINE n == given[f] + crashes + faults
  <2> HIDE DEF n
  <2> QED
    BY <2>1, <2>2, <2>3 DEF n
<1> QED
  BY <1>1, <1>2

\* Nothing is stored that cannot be accounted for, for any number of agents:
\* bytes without a row are fewer than the agents while nothing fails, and no
\* content has more rows than it was sent and interrupted (ingestion.ts:126-127,
\* 204-218).
THEOREM StoredIsDelivered == Spec => []StoredAsDelivered
<1>1. Spec => []DeliveryInv
  BY InitDelivery, DeliveryStep, PTL DEF Spec
<1> QED
  BY <1>1, DeliveryMeans, PTL

-----------------------------------------------------------------------------
(***************************************************************************)
(* Parser: the tree that is stored is the file that was read.              *)
(***************************************************************************)
\* What a transmission of any source is made of.
Sample(s, n) == SampleOrders[s.order].files[s.file][n]

Segments ==
  {Sample(s, n) : s \in Sources, n \in Nat}
  \cup {Opening(kind)[n] : kind \in {s.kind : s \in Sources} \cup {"997"}, n \in Nat}
  \cup {FromVendor("900000001"), FromVendor(NoText), Seg("HELLO", <<>>)}
  \cup EnvelopeSegments \cup AckSegments
  \cup UNION {DocumentSegments(s.kind) : s \in Sources}

LEMMA UpcomingAreSegments ==
  ASSUME source \in Sources, read \in Seq(Segments)
  PROVE  Upcoming \subseteq Segments
<1> DEFINE n == Len(read)
<1>0. n + 1 \in Nat
  OBVIOUS
<1> HIDE DEF n
<1>1. CASE source.kind = "sample"
  <2> DEFINE file == SampleOrders[source.order].files[source.file]
  <2>1. Sample(source, n + 1) \in Segments
    BY <1>0 DEF Segments
  <2>2. Upcoming = IF n < Len(file) THEN {Sample(source, n + 1)} ELSE {}
    BY <1>1 DEF Upcoming, n, Sample
  <2> QED
    BY <2>1, <2>2
<1>2. CASE source.kind = "any"
  <2>1. Upcoming \subseteq {FromVendor("900000001"), FromVendor(NoText), Seg("HELLO", <<>>)}
                           \cup EnvelopeSegments \cup {<<>>[n + 1]}
    BY <1>2 DEF Upcoming, n
  <2>2. {FromVendor("900000001"), FromVendor(NoText), Seg("HELLO", <<>>)}
          \cup EnvelopeSegments \subseteq Segments
    BY DEF Segments
  <2>3. Upcoming \subseteq {FromVendor("900000001"), FromVendor(NoText), Seg("HELLO", <<>>)}
                           \cup EnvelopeSegments
    BY <1>2, <1>0 DEF Upcoming, n
  <2> QED
    BY <2>2, <2>3
<1>3. CASE source.kind = "ack"
  <2>1. Opening("997")[n + 1] \in Segments /\ AckSegments \subseteq Segments
    BY <1>0 DEF Segments
  <2>2. Upcoming \subseteq {Opening("997")[n + 1]} \cup AckSegments
    BY <1>3 DEF Upcoming, n
  <2> QED
    BY <2>1, <2>2
<1>4. CASE source.kind \notin {"sample", "any", "ack"}
  <2>1. Opening(source.kind)[n + 1] \in Segments
    BY <1>0 DEF Segments
  <2>2. DocumentSegments(source.kind) \subseteq Segments
    BY DEF Segments
  <2>3. Upcoming \subseteq {Opening(source.kind)[n + 1]} \cup DocumentSegments(source.kind)
    BY <1>4 DEF Upcoming, n
  <2> QED
    BY <2>1, <2>2, <2>3
<1> QED
  BY <1>1, <1>2, <1>3, <1>4

\* What warnings are of, and the records the tree is made of.
Texts == {Ev(s, n) : s \in Segments, n \in Nat} \cup {s.tag : s \in Segments} \cup {NoText}

Kinds ==
  {"GE without GS", "GE01", "ST outside GS", "SE without ST", "SE01", "SE02", "IEA01",
   "ignored", "open ST", "open GS"}

Notes == [kind : Kinds, of : Texts]

GroupRecords == [controlNumber : Texts, declared : Nat]

TxnRecords == [transactionSetId : Texts, controlNumber : Texts, group : Nat,
               declared : Nat, segmentCount : Nat, segments : Seq(Segments)]

ReadTypes ==
  /\ read \in Seq(Segments)
  /\ source \in Sources
  /\ groups \in Seq(GroupRecords)
  /\ txns \in Seq(TxnRecords)
  /\ warnings \in Seq(Notes)
  /\ openGroup \in {0, Len(groups)}
  /\ openTxn \in {0, Len(txns)}

LEMMA ElementsAreTexts ==
  /\ NoText \in Texts
  /\ \A s \in Segments : s.tag \in Texts /\ \A n \in Nat : Ev(s, n) \in Texts
BY DEF Texts

LEMMA CountsAreNumbers ==
  ASSUME NEW raw
  PROVE  ParseCount(raw) \in Nat
<1>1. CASE \E n \in 0..NoCount - 1 : ToString(n) = raw
  <2>1. ParseCount(raw) \in 0..NoCount - 1
    BY <1>1 DEF ParseCount
  <2> QED
    BY <2>1 DEF NoCount
<1>2. CASE ~\E n \in 0..NoCount - 1 : ToString(n) = raw
  BY <1>2 DEF ParseCount, NoCount
<1> QED
  BY <1>1, <1>2

\* Warnings are only added.
Longer(old, new) == Len(old) <= Len(new) /\ \A i \in 1..Len(old) : new[i] = old[i]

LEMMA NoteType ==
  ASSUME NEW kind \in Kinds, NEW of \in Texts
  PROVE  [kind |-> kind, of |-> of] \in Notes
BY DEF Notes

LEMMA AppendedIsLonger ==
  ASSUME NEW T, NEW old \in Seq(T), NEW t \in T
  PROVE  /\ Append(old, t) \in Seq(T)
         /\ Longer(old, Append(old, t))
         /\ Append(old, t) # <<>>
<1>1. Len(Append(old, t)) = Len(old) + 1
  OBVIOUS
<1>2. Len(Append(old, t)) # 0 /\ Len(<<>>) = 0
  BY <1>1
<1>3. Append(old, t) # <<>>
  BY <1>2, Zenon
<1> QED
  BY <1>3 DEF Longer

LEMMA JoinedIsLonger ==
  ASSUME NEW T, NEW old \in Seq(T), NEW more \in Seq(T)
  PROVE  /\ old \o more \in Seq(T)
         /\ Longer(old, old \o more)
         /\ old \o more = <<>> => more = <<>>
<1>1. old \o more \in Seq(T) /\ Longer(old, old \o more)
  BY DEF Longer
<1>2. Len(old \o more) = Len(old) + Len(more)
  OBVIOUS
<1>3. old \o more = <<>> => more = <<>>
  BY <1>2
<1> QED
  BY <1>1, <1>3

LEMMA WarnIfFacts ==
  ASSUME warnings \in Seq(Notes), NEW cond \in BOOLEAN, NEW kind \in Kinds, NEW of \in Texts,
         WarnIf(cond, kind, of)
  PROVE  /\ warnings' \in Seq(Notes)
         /\ Longer(warnings, warnings')
         /\ warnings' = <<>> => ~cond /\ warnings = <<>>
         /\ cond => /\ Len(warnings') = Len(warnings) + 1
                    /\ warnings'[Len(warnings) + 1].kind = kind
<1> DEFINE note == [kind |-> kind, of |-> of]
<1>0. note \in Notes /\ note.kind = kind
  BY NoteType
<1>1. CASE cond
  <2>1. warnings' = Append(warnings, note)
    BY <1>1 DEF WarnIf, Warn
  <2> HIDE DEF note
  <2>2. /\ Append(warnings, note) \in Seq(Notes)
        /\ Longer(warnings, Append(warnings, note))
        /\ Append(warnings, note) # <<>>
    BY <1>0, AppendedIsLonger
  <2>3. /\ Len(Append(warnings, note)) = Len(warnings) + 1
        /\ Append(warnings, note)[Len(warnings) + 1] = note
    BY <1>0
  <2> QED
    BY <2>1, <2>2, <2>3, <1>0, <1>1
<1>2. CASE ~cond
  <2>1. warnings' = warnings
    BY <1>2 DEF WarnIf
  <2>2. Longer(warnings, warnings)
    BY DEF Longer
  <2> QED
    BY <2>1, <2>2, <1>2
<1> QED
  BY <1>1, <1>2

(***************************************************************************)
(* What one segment does to the tree: it leaves the transactions, begins   *)
(* one or is pushed on the open one; it leaves the groups, begins one or   *)
(* closes the open one.                                                    *)
(***************************************************************************)
TxnsKept == txns' = txns /\ openTxn' = openTxn

TxnBegun(s) ==
  /\ openTxn' = Len(txns) + 1
  /\ \E t \in TxnRecords : /\ t.group = openGroup
                           /\ t.segments = <<s>>
                           /\ t.declared = NoCount
                           /\ txns' = Append(txns, t)

TxnPushed(s) ==
  /\ openTxn # 0
  /\ \E t \in TxnRecords :
       /\ t.group = txns[openTxn].group
       /\ t.segments = Append(txns[openTxn].segments, s)
       /\ txns' = [txns EXCEPT ![openTxn] = t]
       /\ \/ /\ s.tag = "SE"
             /\ openTxn' = 0
             /\ warnings' = <<>> => t.declared \in {NoCount, Len(t.segments)}
          \/ /\ s.tag # "SE"
             /\ openTxn' = openTxn
             /\ t.declared = txns[openTxn].declared

GroupsKept == groups' = groups /\ openGroup' = openGroup

GroupBegun(s) ==
  /\ openGroup' = Len(groups) + 1
  /\ groups' = Append(groups, [controlNumber |-> Ev(s, 6), declared |-> NoCount])

GroupClosed ==
  /\ openGroup # 0
  /\ openGroup' = 0
  /\ \E g \in GroupRecords :
       /\ g.controlNumber = groups[openGroup].controlNumber
       /\ warnings' = <<>> =>
            g.declared \in {NoCount, Cardinality(Transactions(openGroup))}
       /\ groups' = [groups EXCEPT ![openGroup] = g]

TreeStep(s) ==
  /\ warnings' \in Seq(Notes)
  /\ Longer(warnings, warnings')
  /\ \/ s.tag \in {"ISA", "GS", "GE", "IEA"} /\ TxnsKept
     \/ s.tag = "ST" /\ TxnBegun(s) /\ (openGroup = 0 => Warned(Misplaced)')
     \/ s.tag \notin {"ISA", "GS", "GE", "IEA", "ST"} /\ TxnPushed(s)
     \/ s.tag \notin {"ISA", "GS", "GE", "IEA", "ST"} /\ TxnsKept /\ Warned(Misplaced)'
  /\ \/ s.tag = "GS" /\ GroupBegun(s)
     \/ s.tag = "GE" /\ GroupClosed
     \/ s.tag # "GS" /\ GroupsKept

LEMMA SameIsLonger ==
  ASSUME warnings \in Seq(Notes), warnings' = warnings
  PROVE  warnings' \in Seq(Notes) /\ Longer(warnings, warnings')
BY DEF Longer

LEMMA MisplacedIsSaid ==
  ASSUME warnings \in Seq(Notes), NEW kind \in Kinds, NEW of \in Texts,
         kind \in Misplaced, Warn(kind, of)
  PROVE  /\ warnings' \in Seq(Notes)
         /\ Longer(warnings, warnings')
         /\ Warned(Misplaced)'
<1>2. WarnIf(TRUE, kind, of)
  BY DEF WarnIf
<1>3. /\ warnings' \in Seq(Notes)
      /\ Longer(warnings, warnings')
      /\ Len(warnings') = Len(warnings) + 1
      /\ warnings'[Len(warnings) + 1].kind = kind
  BY <1>2, WarnIfFacts
<1>4. Len(warnings) + 1 \in DOMAIN warnings'
  BY <1>3
<1> QED
  BY <1>3, <1>4 DEF Warned

LEMMA ReadISAStep ==
  ASSUME ReadTypes, NEW s \in Segments, ReadISA(s)
  PROVE  TreeStep(s)
BY SameIsLonger DEF ReadISA, tree, TreeStep, ReadTypes, TxnsKept, GroupsKept

LEMMA ReadGSStep ==
  ASSUME ReadTypes, NEW s \in Segments, ReadGS(s)
  PROVE  TreeStep(s)
<1>1. warnings' \in Seq(Notes) /\ Longer(warnings, warnings')
  BY SameIsLonger DEF ReadGS, ReadTypes
<1> QED
  BY <1>1 DEF ReadGS, TreeStep, TxnsKept, GroupBegun

LEMMA ReadSTStep ==
  ASSUME ReadTypes, NEW s \in Segments, ReadST(s)
  PROVE  TreeStep(s)
<1> DEFINE t == [transactionSetId |-> Ev(s, 1), controlNumber |-> Ev(s, 2),
                 group |-> openGroup, declared |-> NoCount,
                 segmentCount |-> 0, segments |-> <<s>>]
<1>1. openGroup \in Nat
  BY DEF ReadTypes
<1>2. t \in TxnRecords
  BY <1>1, ElementsAreTexts DEF TxnRecords, NoCount
<1>3. t.group = openGroup /\ t.segments = <<s>> /\ t.declared = NoCount
  OBVIOUS
<1>4. txns' = Append(txns, t)
  BY Zenon DEF ReadST
<1>5. openTxn' = Len(txns) + 1 /\ s.tag = "ST"
  BY Zenon DEF ReadST
<1>6. GroupsKept
  BY Zenon DEF ReadST, GroupsKept
<1> HIDE DEF t
<1>7. TxnBegun(s)
  BY <1>2, <1>3, <1>4, <1>5 DEF TxnBegun
<1>8. /\ warnings' \in Seq(Notes)
      /\ Longer(warnings, warnings')
      /\ openGroup = 0 => Warned(Misplaced)'
  <2>1. Ev(s, 1) \in Texts
    BY ElementsAreTexts
  <2>2. warnings \in Seq(Notes)
    BY DEF ReadTypes
  <2>3. CASE openGroup = 0
    <3>1. Warn("ST outside GS", Ev(s, 1))
      BY <2>3, Zenon DEF ReadST, WarnIf
    <3>2. "ST outside GS" \in Misplaced
      BY DEF Misplaced
    <3>3. "ST outside GS" \in Kinds
      BY DEF Kinds
    <3> QED
      BY <3>1, <3>2, <3>3, <2>1, <2>2, MisplacedIsSaid, Zenon
  <2>4. CASE openGroup # 0
    <3>1. warnings' = warnings
      BY <2>4, Zenon DEF ReadST, WarnIf
    <3> QED
      BY <3>1, <2>2, <2>4, SameIsLonger
  <2> QED
    BY <2>3, <2>4
<1> QED
  BY <1>5, <1>6, <1>7, <1>8 DEF TreeStep

LEMMA ReadIEAStep ==
  ASSUME ReadTypes, NEW s \in Segments, ReadIEA(s)
  PROVE  TreeStep(s)
<1> DEFINE n == ParseCount(Ev(s, 1))
           cond == n # NoCount /\ n # Len(groups)
<1>1. WarnIf(cond, "IEA01", NoText) /\ s.tag = "IEA" /\ TxnsKept /\ GroupsKept
  BY DEF ReadIEA, TxnsKept, GroupsKept
<1>2. warnings \in Seq(Notes)
  BY DEF ReadTypes
<1> HIDE DEF n
<1>3. cond \in BOOLEAN
  OBVIOUS
<1> HIDE DEF cond
<1>4. NoText \in Texts /\ "IEA01" \in Kinds
  BY ElementsAreTexts DEF Kinds
<1>5. warnings' \in Seq(Notes) /\ Longer(warnings, warnings')
  BY <1>1, <1>2, <1>3, <1>4, WarnIfFacts, Zenon
<1> QED
  BY <1>1, <1>5 DEF TreeStep

LEMMA ReadGEStep ==
  ASSUME ReadTypes, NEW s \in Segments, ReadGE(s)
  PROVE  TreeStep(s)
<1> DEFINE n == ParseCount(Ev(s, 1))
           count == Cardinality(Transactions(openGroup))
           cond == n # NoCount /\ n # count
<1>1. s.tag = "GE" /\ TxnsKept
  BY Zenon DEF ReadGE, TxnsKept
<1>2. warnings \in Seq(Notes) /\ groups \in Seq(GroupRecords) /\ openGroup \in 0..Len(groups)
  BY DEF ReadTypes
<1>3. NoText \in Texts /\ "GE without GS" \in Kinds /\ "GE01" \in Kinds
  BY ElementsAreTexts DEF Kinds
<1>4. CASE openGroup = 0
  <2>1. Warn("GE without GS", NoText) /\ GroupsKept
    BY <1>4, Zenon DEF ReadGE, GroupsKept
  <2>2. WarnIf(TRUE, "GE without GS", NoText)
    BY <2>1, Zenon DEF WarnIf
  <2>3. warnings' \in Seq(Notes) /\ Longer(warnings, warnings') /\ warnings' # <<>>
    BY <2>2, <1>2, <1>3, WarnIfFacts, Zenon
  <2>4. s.tag # "GS"
    BY <1>1
  <2> QED
    BY <1>1, <2>1, <2>3, <2>4, Zenon DEF TreeStep
<1>5. CASE openGroup # 0
  <2> DEFINE g == [groups[openGroup] EXCEPT !.declared = n]
  <2>1. /\ groups' = [groups EXCEPT ![openGroup].declared = n]
        /\ WarnIf(cond, "GE01", groups[openGroup].controlNumber)
        /\ openGroup' = 0
    BY <1>5, Zenon DEF ReadGE
  <2>2. groups[openGroup] \in GroupRecords
    BY <1>2, <1>5
  <2>3. groups[openGroup].controlNumber \in Texts
    BY <2>2 DEF GroupRecords
  <2>4. n \in Nat
    BY CountsAreNumbers
  <2>5. groups' = [groups EXCEPT ![openGroup] = g]
    BY <2>1, <2>2, <1>2
  <2> HIDE DEF n, count
  <2>6. g \in GroupRecords /\ g.controlNumber = groups[openGroup].controlNumber /\ g.declared = n
    BY <2>2, <2>4 DEF GroupRecords
  <2>7. cond \in BOOLEAN
    OBVIOUS
  <2> HIDE DEF cond
  <2>8. /\ warnings' \in Seq(Notes)
        /\ Longer(warnings, warnings')
        /\ warnings' = <<>> => ~cond
    BY <2>1, <2>3, <2>7, <1>2, <1>3, WarnIfFacts, Zenon
  <2>9. warnings' = <<>> => n \in {NoCount, count}
    BY <2>8 DEF cond
  <2> HIDE DEF g
  <2>10. GroupClosed
    BY <1>5, <2>1, <2>5, <2>6, <2>9 DEF GroupClosed, count
  <2> QED
    BY <1>1, <2>8, <2>10 DEF TreeStep
<1> QED
  BY <1>4, <1>5

\* The open transaction with one more segment.
With(s) ==
  [txns[openTxn] EXCEPT !.segments = Append(@, s),
                        !.segmentCount = Len(txns[openTxn].segments) + 1]

LEMMA PushFacts ==
  ASSUME ReadTypes, openTxn # 0, NEW s \in Segments
  PROVE  /\ openTxn \in DOMAIN txns
         /\ txns[openTxn] \in TxnRecords
         /\ Push(s) = [txns EXCEPT ![openTxn] = With(s)]
         /\ With(s) \in TxnRecords
         /\ With(s).group = txns[openTxn].group
         /\ With(s).segments = Append(txns[openTxn].segments, s)
         /\ With(s).declared = txns[openTxn].declared
<1>1. txns \in Seq(TxnRecords) /\ openTxn \in DOMAIN txns
  BY DEF ReadTypes
<1>2. txns[openTxn] \in TxnRecords
  BY <1>1
<1>3. txns[openTxn].segments \in Seq(Segments)
  BY <1>2 DEF TxnRecords
<1>4. /\ Append(txns[openTxn].segments, s) \in Seq(Segments)
      /\ Len(txns[openTxn].segments) + 1 \in Nat
  BY <1>3
<1> DEFINE segs == Append(txns[openTxn].segments, s)
           count == Len(txns[openTxn].segments) + 1
<1>5. With(s) = [txns[openTxn] EXCEPT !.segments = segs, !.segmentCount = count]
  BY DEF With
<1>6. Push(s) = [txns EXCEPT ![openTxn].segments = segs, ![openTxn].segmentCount = count]
  BY DEF Push
<1>7. segs \in Seq(Segments) /\ count \in Nat
  BY <1>4
<1> HIDE DEF segs, count
<1>8. /\ With(s) \in TxnRecords
      /\ With(s).group = txns[openTxn].group
      /\ With(s).segments = segs
      /\ With(s).declared = txns[openTxn].declared
  BY <1>2, <1>5, <1>7 DEF TxnRecords
<1>9. Push(s) = [txns EXCEPT ![openTxn] = With(s)]
  BY <1>1, <1>2, <1>5, <1>6 DEF TxnRecords
<1> QED
  BY <1>1, <1>2, <1>8, <1>9 DEF segs

LEMMA ReadOtherStep ==
  ASSUME ReadTypes, NEW s \in Segments, ReadOther(s)
  PROVE  TreeStep(s)
<1>1. s.tag \notin {"ISA", "GS", "GE", "ST", "SE", "IEA"} /\ GroupsKept /\ openTxn' = openTxn
  BY Zenon DEF ReadOther, GroupsKept
<1>2. warnings \in Seq(Notes)
  BY DEF ReadTypes
<1>3. CASE openTxn = 0
  <2>1. Warn("ignored", s.tag) /\ txns' = txns
    BY <1>3, Zenon DEF ReadOther
  <2>2. "ignored" \in Misplaced /\ "ignored" \in Kinds /\ s.tag \in Texts
    BY ElementsAreTexts DEF Misplaced, Kinds
  <2>3. /\ warnings' \in Seq(Notes)
        /\ Longer(warnings, warnings')
        /\ Warned(Misplaced)'
    BY <2>1, <2>2, <1>2, MisplacedIsSaid, Zenon
  <2> QED
    BY <1>1, <2>1, <2>3 DEF TreeStep, TxnsKept
<1>4. CASE openTxn # 0
  <2>1. txns' = Push(s) /\ warnings' = warnings
    BY <1>4, Zenon DEF ReadOther
  <2>2. TxnPushed(s)
    BY <1>1, <1>4, <2>1, PushFacts DEF TxnPushed
  <2>3. warnings' \in Seq(Notes) /\ Longer(warnings, warnings')
    BY <2>1, <1>2, SameIsLonger
  <2> QED
    BY <1>1, <2>2, <2>3 DEF TreeStep
<1> QED
  BY <1>3, <1>4

LEMMA ReadSEStep ==
  ASSUME ReadTypes, NEW s \in Segments, ReadSE(s)
  PROVE  TreeStep(s)
<1>1. s.tag = "SE" /\ GroupsKept
  BY Zenon DEF ReadSE, GroupsKept
<1>2. warnings \in Seq(Notes)
  BY DEF ReadTypes
<1>3. CASE openTxn = 0
  <2>1. Warn("SE without ST", NoText) /\ TxnsKept
    BY <1>3, Zenon DEF ReadSE, TxnsKept
  <2>2. "SE without ST" \in Misplaced /\ "SE without ST" \in Kinds /\ NoText \in Texts
    BY ElementsAreTexts DEF Misplaced, Kinds
  <2>3. /\ warnings' \in Seq(Notes)
        /\ Longer(warnings, warnings')
        /\ Warned(Misplaced)'
    BY <2>1, <2>2, <1>2, MisplacedIsSaid, Zenon
  <2>4. s.tag # "GS" /\ s.tag \notin {"ISA", "GS", "GE", "IEA", "ST"}
    BY <1>1
  <2> QED
    BY <1>1, <2>1, <2>3, <2>4, Zenon DEF TreeStep
<1>4. CASE openTxn # 0
  <2> DEFINE t == txns[openTxn]
             n == ParseCount(Ev(s, 1))
             actual == Len(t.segments) + 1
             count == IF n # NoCount /\ n # actual
                      THEN <<[kind |-> "SE01", of |-> t.controlNumber]>> ELSE <<>>
             control == IF Ev(s, 2) # t.controlNumber
                        THEN <<[kind |-> "SE02", of |-> t.controlNumber]>> ELSE <<>>
             new == [With(s) EXCEPT !.declared = n]
  <2>1. /\ txns' = [Push(s) EXCEPT ![openTxn].declared = n]
        /\ warnings' = warnings \o count \o control
        /\ openTxn' = 0
    BY <1>4, Zenon DEF ReadSE
  <2>2. n \in Nat
    BY CountsAreNumbers
  <2>3. t \in TxnRecords /\ t.controlNumber \in Texts
    BY <1>4, PushFacts DEF TxnRecords
  <2>4. count \in Seq(Notes) /\ control \in Seq(Notes)
    <3>1. [kind |-> "SE01", of |-> t.controlNumber] \in Notes
      BY <2>3 DEF Notes, Kinds
    <3>2. [kind |-> "SE02", of |-> t.controlNumber] \in Notes
      BY <2>3 DEF Notes, Kinds
    <3> QED
      BY <3>1, <3>2
  <2>5. count = <<>> => n = NoCount \/ n = actual
    <3>1. <<[kind |-> "SE01", of |-> t.controlNumber]>> # <<>>
      OBVIOUS
    <3> QED
      BY <3>1, Zenon
  <2> HIDE DEF n, actual, count, control
  <2>6. /\ warnings \o count \in Seq(Notes)
        /\ Longer(warnings, warnings \o count)
        /\ warnings \o count = <<>> => count = <<>>
    BY <2>4, <1>2, JoinedIsLonger
  <2>7. /\ warnings' \in Seq(Notes)
        /\ Longer(warnings \o count, warnings')
        /\ warnings' = <<>> => Len(warnings \o count) = 0
    BY <2>1, <2>4, <2>6, JoinedIsLonger DEF Longer
  <2>8. Longer(warnings, warnings')
    BY <2>6, <2>7, <1>2 DEF Longer
  <2>9. warnings' = <<>> => n = NoCount \/ n = actual
    BY <2>5, <2>6, <2>7
  <2>10. /\ txns' = [txns EXCEPT ![openTxn] = new]
         /\ new \in TxnRecords
         /\ new.group = t.group
         /\ new.segments = Append(t.segments, s)
         /\ new.declared = n
    BY <1>4, <2>1, <2>2, PushFacts DEF TxnRecords, ReadTypes
  <2> HIDE DEF new
  <2>11. Len(new.segments) = actual
    <3>1. t.segments \in Seq(Segments)
      BY <2>3 DEF TxnRecords
    <3>2. Len(Append(t.segments, s)) = Len(t.segments) + 1
      BY <3>1
    <3> QED
      BY <3>2, <2>10 DEF actual
  <2>12. TxnPushed(s)
    BY <1>1, <1>4, <2>1, <2>9, <2>10, <2>11 DEF TxnPushed
  <2> QED
    BY <1>1, <2>7, <2>8, <2>12 DEF TreeStep
<1> QED
  BY <1>3, <1>4

LEMMA SegmentsStep ==
  ASSUME ReadTypes, NEW s \in Segments, ReadSegment(s)
  PROVE  TreeStep(s)
BY ReadISAStep, ReadGSStep, ReadGEStep, ReadSTStep, ReadSEStep, ReadIEAStep, ReadOtherStep, Zenon
   DEF ReadSegment

(***************************************************************************)
(* The inductive invariant.  While nothing was misplaced every transaction *)
(* hangs on a group, the groups of the transactions never go back, and the *)
(* n-th segment of the body is at the n-th place of the tree.              *)
(***************************************************************************)
TreeInv ==
  /\ \A i \in DOMAIN txns : txns[i].group <= Len(groups) /\ Len(txns[i].segments) >= 1
  /\ \A i, j \in DOMAIN txns :
       i <= j /\ txns[i].group # 0 /\ txns[j].group # 0 => txns[i].group <= txns[j].group

At(p) == txns[p[1]].segments[p[2]]

PlacedInOrder ==
  /\ \A i \in DOMAIN txns : txns[i].group # 0
  /\ IsFiniteSet(Places)
  /\ Cardinality(Places) = Cardinality(Body)
  /\ \A n \in Body : \A p \in Places : RankInBody(n) = RankInTree(p) => At(p) = read[n]

LEMMA BodyIsFinite ==
  ASSUME read \in Seq(Segments)
  PROVE  IsFiniteSet(Body) /\ Body \subseteq 1..Len(read)
<1>1. Body \subseteq 1..Len(read)
  BY DEF Body
<1>2. Len(read) \in Int /\ 1 \in Int
  OBVIOUS
<1>3. IsFiniteSet(1..Len(read))
  BY <1>2, FS_Interval, Zenon
<1> QED
  BY <1>1, <1>3, FS_Subset

LEMMA EnvelopeIsNoBody ==
  ASSUME read \in Seq(Segments), NEW s \in Segments, read' = Append(read, s),
         s.tag \in {"ISA", "GS", "GE", "IEA"}
  PROVE  Body' = Body /\ \A n \in Body : read'[n] = read[n]
<1>1. /\ DOMAIN read' = DOMAIN read \cup {Len(read) + 1}
      /\ read'[Len(read) + 1] = s
      /\ \A n \in DOMAIN read : read'[n] = read[n]
  OBVIOUS
<1>2. \A n : n \in Body' <=> n \in Body
  BY <1>1 DEF Body
<1>3. \A n \in Body : n \in DOMAIN read
  BY DEF Body
<1> QED
  BY <1>1, <1>2, <1>3

LEMMA BodyGrows ==
  ASSUME read \in Seq(Segments), NEW s \in Segments, read' = Append(read, s),
         s.tag \notin {"ISA", "GS", "GE", "IEA"}
  PROVE  /\ Body' = Body \cup {Len(read) + 1}
         /\ Len(read) + 1 \notin Body
         /\ Len(read) + 1 \in Nat
         /\ \A n \in Body : n \in Nat /\ n < Len(read) + 1 /\ read'[n] = read[n]
         /\ read'[Len(read) + 1] = s
<1>1. /\ DOMAIN read' = DOMAIN read \cup {Len(read) + 1}
      /\ read'[Len(read) + 1] = s
      /\ \A n \in DOMAIN read : read'[n] = read[n] /\ n \in Nat /\ n < Len(read) + 1
      /\ Len(read) + 1 \notin DOMAIN read
      /\ Len(read) + 1 \in Nat
  OBVIOUS
<1>2. \A n : n \in Body' <=> n \in Body \cup {Len(read) + 1}
  BY <1>1 DEF Body
<1>3. \A n \in Body : n \in DOMAIN read
  BY DEF Body
<1> QED
  BY <1>1, <1>2, <1>3

\* A body segment that takes the last place leaves every other rank alone.
LEMMA OneMoreInOrder ==
  ASSUME read \in Seq(Segments), PlacedInOrder,
         NEW s \in Segments, read' = Append(read, s),
         s.tag \notin {"ISA", "GS", "GE", "IEA"},
         NEW p, p \notin Places, Places' = Places \cup {p},
         \A q \in Places' : UpTo(q, p)',
         \A q \in Places : ~UpTo(p, q)',
         \A q, r \in Places : UpTo(q, r)' <=> UpTo(q, r),
         At(p)' = s,
         \A q \in Places : At(q)' = At(q)
  PROVE  /\ IsFiniteSet(Places')
         /\ Cardinality(Places') = Cardinality(Body')
         /\ \A n \in Body' : \A q \in Places' :
              RankInBody(n)' = RankInTree(q)' => At(q)' = read'[n]
<1> PICK b : b = Len(read) + 1
  OBVIOUS
<1>1. /\ Body' = Body \cup {b}
      /\ b \notin Body
      /\ b \in Nat
      /\ \A n \in Body : n \in Nat /\ n < b /\ read'[n] = read[n]
      /\ read'[b] = s
  BY BodyGrows
<1>2. IsFiniteSet(Body)
  BY BodyIsFinite
<1>3. IsFiniteSet(Body') /\ Cardinality(Body') = Cardinality(Body) + 1 /\ Cardinality(Body) \in Nat
  BY <1>1, <1>2, FS_AddElement, FS_CardinalityType
<1>4. IsFiniteSet(Places') /\ Cardinality(Places') = Cardinality(Places) + 1
  BY FS_AddElement DEF PlacedInOrder
<1>5. \A n \in Body : RankInBody(n)' = RankInBody(n) /\ RankInBody(n) <= Cardinality(Body)
                                                     /\ RankInBody(n) \in Nat
  <2> TAKE n \in Body
  <2>1. {m \in Body' : m <= n} = {m \in Body : m <= n}
    BY <1>1
  <2>2. {m \in Body : m <= n} \subseteq Body
    OBVIOUS
  <2>3. /\ Cardinality({m \in Body : m <= n}) <= Cardinality(Body)
        /\ Cardinality({m \in Body : m <= n}) \in Nat
    BY <2>2, <1>2, FS_Subset, FS_CardinalityType
  <2> QED
    BY <2>1, <2>3 DEF RankInBody
<1>6. RankInBody(b)' = Cardinality(Body')
  <2>1. {m \in Body' : m <= b} = Body'
    BY <1>1
  <2>2. RankInBody(b)' = Cardinality({m \in Body' : m <= b})
    BY DEF RankInBody
  <2> QED
    BY <2>1, <2>2
<1>7. \A q \in Places : RankInTree(q)' = RankInTree(q) /\ RankInTree(q) <= Cardinality(Places)
                                                       /\ RankInTree(q) \in Nat
  <2> TAKE q \in Places
  <2>1. {r \in Places' : UpTo(r, q)'} = {r \in Places : UpTo(r, q)}
    OBVIOUS
  <2>2. {r \in Places : UpTo(r, q)} \subseteq Places
    OBVIOUS
  <2>3. /\ Cardinality({r \in Places : UpTo(r, q)}) <= Cardinality(Places)
        /\ Cardinality({r \in Places : UpTo(r, q)}) \in Nat
    BY <2>2, FS_Subset, FS_CardinalityType DEF PlacedInOrder
  <2>4. RankInTree(q)' = Cardinality({r \in Places' : UpTo(r, q)'})
    BY DEF RankInTree
  <2> QED
    BY <2>1, <2>3, <2>4 DEF RankInTree
<1>8. RankInTree(p)' = Cardinality(Places')
  <2>1. {q \in Places' : UpTo(q, p)'} = Places'
    OBVIOUS
  <2>2. RankInTree(p)' = Cardinality({q \in Places' : UpTo(q, p)'})
    BY DEF RankInTree
  <2> QED
    BY <2>1, <2>2
<1>9. Cardinality(Places) = Cardinality(Body)
  BY DEF PlacedInOrder
<1>10. Cardinality(Places') = Cardinality(Body')
  BY <1>3, <1>4, <1>9
<1>11. ASSUME NEW n \in Body', NEW q \in Places', RankInBody(n)' = RankInTree(q)'
       PROVE  At(q)' = read'[n]
  <2>1. CASE n \in Body /\ q \in Places
    <3>1. RankInBody(n) = RankInTree(q)
      BY <2>1, <1>5, <1>7, <1>11
    <3> QED
      BY <2>1, <3>1, <1>1 DEF PlacedInOrder
  <2>2. CASE n \in Body /\ q = p
    BY <2>2, <1>3, <1>5, <1>8, <1>10, <1>11
  <2>3. CASE n = b /\ q \in Places
    BY <2>3, <1>3, <1>6, <1>7, <1>9, <1>11
  <2>4. CASE n = b /\ q = p
    BY <2>4, <1>1
  <2> QED
    BY <2>1, <2>2, <2>3, <2>4, <1>1
<1> QED
  BY <1>4, <1>10, <1>11

LEMMA PlacesMember ==
  \A p : p \in Places <=> \E i \in DOMAIN txns : \E k \in DOMAIN txns[i].segments :
                            txns[i].group # 0 /\ p = <<i, k>>
BY DEF Places, InTree

LEMMA PlacesMemberNext ==
  \A p : p \in Places' <=> \E i \in DOMAIN txns' : \E k \in DOMAIN txns'[i].segments :
                             txns'[i].group # 0 /\ p = <<i, k>>
BY DEF Places, InTree

LEMMA KeptInOrder ==
  ASSUME PlacedInOrder, txns' = txns, Body' = Body, \A n \in Body : read'[n] = read[n]
  PROVE  PlacedInOrder'
<1>1. Places' = Places /\ InTree' = InTree
  BY DEF Places, InTree
<1>2. \A p : RankInTree(p)' = RankInTree(p) /\ At(p)' = At(p)
  BY <1>1 DEF RankInTree, UpTo, At
<1>3. \A n : RankInBody(n)' = RankInBody(n)
  BY DEF RankInBody
<1> QED
  BY <1>1, <1>2, <1>3 DEF PlacedInOrder

\* The places of a tree are pairs of its transactions and their segments.
LEMMA PlaceParts ==
  ASSUME txns \in Seq(TxnRecords), NEW q \in Places
  PROVE  /\ q[1] \in 1..Len(txns) /\ q[2] \in 1..Len(txns[q[1]].segments)
         /\ q = <<q[1], q[2]>>
         /\ txns[q[1]].group # 0 /\ txns[q[1]].group \in Nat
         /\ txns[q[1]] \in TxnRecords
<1>1. PICK i \in DOMAIN txns : \E k \in DOMAIN txns[i].segments : txns[i].group # 0 /\ q = <<i, k>>
  BY PlacesMember
<1>0. PICK k \in DOMAIN txns[i].segments : txns[i].group # 0 /\ q = <<i, k>>
  BY <1>1
<1>2. txns[i] \in TxnRecords
  BY <1>1
<1>3. txns[i].segments \in Seq(Segments) /\ txns[i].group \in Nat
  BY <1>2 DEF TxnRecords
<1>4. q[1] = i /\ q[2] = k
  BY <1>0
<1>5. k \in 1..Len(txns[i].segments) /\ i \in 1..Len(txns)
  BY <1>0, <1>1, <1>3
<1> QED
  BY <1>0, <1>2, <1>3, <1>4, <1>5

LEMMA BegunInOrder ==
  ASSUME ReadTypes, TreeInv, PlacedInOrder, openGroup # 0,
         NEW s \in Segments, read' = Append(read, s),
         s.tag \notin {"ISA", "GS", "GE", "IEA"}, TxnBegun(s)
  PROVE  PlacedInOrder'
<1>1. PICK t \in TxnRecords : /\ t.group = openGroup
                              /\ t.segments = <<s>>
                              /\ txns' = Append(txns, t)
  BY DEF TxnBegun
<1>2. /\ read \in Seq(Segments)
      /\ txns \in Seq(TxnRecords)
      /\ openGroup = Len(groups)
  BY DEF ReadTypes
<1>3. PICK j : j = Len(txns) + 1
  OBVIOUS
<1>4. /\ DOMAIN txns' = DOMAIN txns \cup {j}
      /\ j \notin DOMAIN txns /\ j \in Nat
      /\ txns'[j] = t
      /\ \A i \in DOMAIN txns : txns'[i] = txns[i] /\ i \in Nat /\ i < j
  BY <1>1, <1>2, <1>3
<1>5. DOMAIN txns'[j].segments = {1} /\ txns'[j].segments[1] = s /\ txns'[j].group = Len(groups)
  BY <1>1, <1>2, <1>4
<1> DEFINE p == <<j, 1>>
<1>6. p \notin Places
  BY <1>4, PlacesMember
<1>7. Places' = Places \cup {p}
  <2>1. \A q : q \in Places' <=> q \in Places \/ q = p
    BY <1>2, <1>4, <1>5, PlacesMember, PlacesMemberNext
  <2> QED
    BY <2>1
<1>8. \A q \in Places : /\ q[1] \in DOMAIN txns
                        /\ txns[q[1]].group <= Len(groups)
                        /\ txns[q[1]].group \in Nat
  BY <1>2, PlaceParts DEF TreeInv
<1>9. p[1] = j /\ p[2] = 1
  OBVIOUS
<1>10. Len(groups) \in Nat
  BY DEF ReadTypes
<1> HIDE DEF p
<1>11. \A q \in Places : UpTo(q, p)' /\ ~UpTo(p, q)'
  BY <1>4, <1>5, <1>8, <1>9, <1>10 DEF UpTo
<1>12. UpTo(p, p)'
  BY <1>9 DEF UpTo
<1>13. \A q, r \in Places : UpTo(q, r)' <=> UpTo(q, r)
  BY <1>4, <1>8 DEF UpTo
<1>14. At(p)' = s
  BY <1>5, <1>9 DEF At
<1>15. \A q \in Places : At(q)' = At(q)
  BY <1>4, <1>8 DEF At
<1>16. \A q \in Places' : UpTo(q, p)'
  BY <1>7, <1>11, <1>12
<1>17. /\ IsFiniteSet(Places')
       /\ Cardinality(Places') = Cardinality(Body')
       /\ \A n \in Body' : \A q \in Places' :
            RankInBody(n)' = RankInTree(q)' => At(q)' = read'[n]
  BY <1>2, <1>6, <1>7, <1>11, <1>13, <1>14, <1>15, <1>16, OneMoreInOrder
<1>18. \A i \in DOMAIN txns' : txns'[i].group # 0
  BY <1>2, <1>4, <1>5 DEF PlacedInOrder
<1> QED
  BY <1>17, <1>18 DEF PlacedInOrder

LEMMA AppendFacts ==
  ASSUME NEW T, NEW old \in Seq(T), NEW t \in T, NEW k, k = Len(old) + 1
  PROVE  /\ DOMAIN Append(old, t) = DOMAIN old \cup {k}
         /\ Append(old, t)[k] = t
         /\ k \notin DOMAIN old
         /\ k \in Nat
         /\ \A m \in DOMAIN old : Append(old, t)[m] = old[m] /\ m \in Nat /\ m < k
OBVIOUS

LEMMA PushedInOrder ==
  ASSUME ReadTypes, TreeInv, PlacedInOrder,
         NEW s \in Segments, read' = Append(read, s),
         s.tag \notin {"ISA", "GS", "GE", "IEA"}, TxnPushed(s)
  PROVE  PlacedInOrder'
<1>1. PICK t \in TxnRecords : /\ t.group = txns[openTxn].group
                              /\ t.segments = Append(txns[openTxn].segments, s)
                              /\ txns' = [txns EXCEPT ![openTxn] = t]
  BY DEF TxnPushed
<1>2. /\ read \in Seq(Segments)
      /\ txns \in Seq(TxnRecords)
      /\ openTxn = Len(txns)
  BY DEF ReadTypes, TxnPushed
<1>3. PICK j : j = openTxn
  OBVIOUS
<1>4. /\ DOMAIN txns' = DOMAIN txns
      /\ j \in DOMAIN txns
      /\ txns'[j] = t
      /\ \A i \in DOMAIN txns : i # j => txns'[i] = txns[i]
      /\ \A i \in DOMAIN txns : i \in Nat /\ i <= j
  BY <1>1, <1>2, <1>3 DEF TxnPushed
<1>5. txns[j] \in TxnRecords
  BY <1>2, <1>4
<1>6. txns[j].segments \in Seq(Segments) /\ txns[j].group \in Nat
  BY <1>5 DEF TxnRecords
<1>7. PICK k : k = Len(txns[j].segments) + 1
  OBVIOUS
<1>8. /\ DOMAIN t.segments = DOMAIN txns[j].segments \cup {k}
      /\ t.segments[k] = s
      /\ k \notin DOMAIN txns[j].segments
      /\ k \in Nat
      /\ \A m \in DOMAIN txns[j].segments : /\ t.segments[m] = txns[j].segments[m]
                                            /\ m \in Nat /\ m < k
  <2>1. t.segments = Append(txns[j].segments, s)
    BY <1>1, <1>3
  <2> QED
    BY <2>1, <1>6, <1>7, AppendFacts
<1>9. txns[j].group # 0
  BY <1>4 DEF PlacedInOrder
<1>10. /\ \A i \in DOMAIN txns : txns'[i].group = txns[i].group
       /\ t.group = txns[j].group
  BY <1>1, <1>3, <1>4
<1> DEFINE p == <<j, k>>
<1>11. p \notin Places
  BY <1>8, PlacesMember
<1>12. Places' = Places \cup {p}
  <2>1. \A q : q \in Places' <=> q \in Places \/ q = p
    BY <1>4, <1>8, <1>9, <1>10, PlacesMember, PlacesMemberNext
  <2> QED
    BY <2>1
<1>13. \A q \in Places : /\ q[1] \in DOMAIN txns
                         /\ txns[q[1]].group # 0
                         /\ txns[q[1]].group \in Nat
                         /\ q[1] = j => q[2] \in DOMAIN txns[j].segments
  BY <1>2, PlaceParts
<1>14. p[1] = j /\ p[2] = k
  OBVIOUS
<1> HIDE DEF p
<1>15. \A q \in Places : txns[q[1]].group <= txns[j].group
  BY <1>4, <1>9, <1>13 DEF TreeInv
<1>16. \A q \in Places : UpTo(q, p)' /\ ~UpTo(p, q)'
  BY <1>4, <1>6, <1>8, <1>10, <1>13, <1>14, <1>15 DEF UpTo
<1>17. UpTo(p, p)'
  BY <1>8, <1>14 DEF UpTo
<1>18. \A q, r \in Places : UpTo(q, r)' <=> UpTo(q, r)
  BY <1>10, <1>13 DEF UpTo
<1>19. At(p)' = s
  BY <1>4, <1>8, <1>14 DEF At
<1>20. \A q \in Places : At(q)' = At(q)
  BY <1>4, <1>8, <1>13 DEF At
<1>21. \A q \in Places' : UpTo(q, p)'
  BY <1>12, <1>16, <1>17
<1>22. /\ IsFiniteSet(Places')
       /\ Cardinality(Places') = Cardinality(Body')
       /\ \A n \in Body' : \A q \in Places' :
            RankInBody(n)' = RankInTree(q)' => At(q)' = read'[n]
  BY <1>2, <1>11, <1>12, <1>16, <1>18, <1>19, <1>20, <1>21, OneMoreInOrder
<1>23. \A i \in DOMAIN txns' : txns'[i].group # 0
  BY <1>4, <1>10 DEF PlacedInOrder
<1> QED
  BY <1>22, <1>23 DEF PlacedInOrder

LEMMA TypesKept ==
  ASSUME ReadTypes, NEW s \in Segments, TreeStep(s), read' = Append(read, s), source' = source
  PROVE  ReadTypes'
<1>0. /\ read \in Seq(Segments) /\ source \in Sources
      /\ groups \in Seq(GroupRecords) /\ txns \in Seq(TxnRecords)
      /\ openGroup \in {0, Len(groups)} /\ openTxn \in {0, Len(txns)}
  BY DEF ReadTypes
<1>1. read' \in Seq(Segments) /\ source' \in Sources /\ warnings' \in Seq(Notes)
  BY <1>0 DEF TreeStep
<1>2. txns' \in Seq(TxnRecords) /\ openTxn' \in {0, Len(txns')}
  <2>1. CASE TxnsKept
    BY <2>1, <1>0 DEF TxnsKept
  <2>2. CASE TxnBegun(s)
    BY <2>2, <1>0 DEF TxnBegun
  <2>3. CASE TxnPushed(s)
    BY <2>3, <1>0 DEF TxnPushed
  <2> QED
    BY <2>1, <2>2, <2>3, Zenon DEF TreeStep
<1>3. groups' \in Seq(GroupRecords) /\ openGroup' \in {0, Len(groups')}
  <2>1. CASE GroupsKept
    BY <2>1, <1>0 DEF GroupsKept
  <2>2. CASE GroupBegun(s)
    <3>1. [controlNumber |-> Ev(s, 6), declared |-> NoCount] \in GroupRecords
      BY ElementsAreTexts DEF GroupRecords, NoCount
    <3> QED
      BY <2>2, <3>1, <1>0 DEF GroupBegun
  <2>3. CASE GroupClosed
    BY <2>3, <1>0 DEF GroupClosed
  <2> QED
    BY <2>1, <2>2, <2>3, Zenon DEF TreeStep
<1> QED
  BY <1>1, <1>2, <1>3 DEF ReadTypes

LEMMA GroupsGrow ==
  ASSUME ReadTypes, NEW s \in Segments, TreeStep(s)
  PROVE  Len(groups) \in Nat /\ Len(groups') \in Nat /\ Len(groups) <= Len(groups')
<1>0. groups \in Seq(GroupRecords)
  BY DEF ReadTypes
<1>1. CASE GroupsKept
  BY <1>1, <1>0 DEF GroupsKept
<1>2. CASE GroupBegun(s)
  <2>1. [controlNumber |-> Ev(s, 6), declared |-> NoCount] \in GroupRecords
    BY ElementsAreTexts DEF GroupRecords, NoCount
  <2> QED
    BY <1>2, <2>1, <1>0 DEF GroupBegun
<1>3. CASE GroupClosed
  BY <1>3, <1>0 DEF GroupClosed
<1> QED
  BY <1>1, <1>2, <1>3, Zenon DEF TreeStep

LEMMA TreeKept ==
  ASSUME ReadTypes, TreeInv, NEW s \in Segments, TreeStep(s)
  PROVE  TreeInv'
<1>0. /\ txns \in Seq(TxnRecords)
      /\ openGroup \in {0, Len(groups)}
      /\ Len(groups) \in Nat /\ Len(groups') \in Nat /\ Len(groups) <= Len(groups')
  BY GroupsGrow DEF ReadTypes
<1>a. \A i \in DOMAIN txns : /\ txns[i].group \in Nat /\ txns[i].group <= Len(groups)
                             /\ Len(txns[i].segments) >= 1
  <2> TAKE i \in DOMAIN txns
  <2>1. txns[i] \in TxnRecords
    BY <1>0
  <2> QED
    BY <2>1 DEF TreeInv, TxnRecords
<1>1. CASE TxnsKept
  BY <1>1, <1>0, <1>a DEF TxnsKept, TreeInv
<1>2. CASE TxnBegun(s)
  <2>1. PICK t \in TxnRecords : /\ t.group = openGroup
                                /\ t.segments = <<s>>
                                /\ txns' = Append(txns, t)
    BY <1>2 DEF TxnBegun
  <2>2. PICK j : j = Len(txns) + 1
    OBVIOUS
  <2>3. /\ DOMAIN txns' = DOMAIN txns \cup {j}
        /\ j \in Nat
        /\ txns'[j] = t
        /\ \A i \in DOMAIN txns : txns'[i] = txns[i] /\ i \in Nat /\ i < j
    BY <2>1, <2>2, <1>0
  <2>4. Len(t.segments) = 1
    BY <2>1
  <2>5. ASSUME NEW i \in DOMAIN txns'
        PROVE  txns'[i].group <= Len(groups') /\ Len(txns'[i].segments) >= 1
    <3>1. CASE i \in DOMAIN txns
      <4>1. txns'[i] = txns[i]
        BY <3>1, <2>3
      <4>2. txns[i].group \in Nat /\ txns[i].group <= Len(groups) /\ Len(txns[i].segments) >= 1
        BY <3>1, <1>a
      <4> QED
        BY <4>1, <4>2, <1>0
    <3>2. CASE i = j
      <4>1. t.group \in {0, Len(groups)}
        BY <2>1, <1>0
      <4>2. t.group <= Len(groups')
        BY <4>1, <1>0
      <4> QED
        BY <3>2, <4>2, <2>3, <2>4
    <3> QED
      BY <3>1, <3>2, <2>3
  <2>6. ASSUME NEW i \in DOMAIN txns', NEW k \in DOMAIN txns',
               i <= k, txns'[i].group # 0, txns'[k].group # 0
        PROVE  txns'[i].group <= txns'[k].group
    <3>1. CASE k \in DOMAIN txns
      <4>1. i \in DOMAIN txns
        BY <2>3, <2>6, <3>1
      <4> QED
        BY <4>1, <3>1, <2>3, <2>6 DEF TreeInv
    <3>2. CASE k = j
      <4>1. txns'[k].group = Len(groups)
        BY <3>2, <2>1, <2>3, <2>6, <1>0
      <4>2. CASE i \in DOMAIN txns
        BY <4>1, <4>2, <2>3, <1>a
      <4>3. CASE i = j
        BY <4>3, <3>2, <4>1, <1>0
      <4> QED
        BY <4>2, <4>3, <2>3
    <3> QED
      BY <3>1, <3>2, <2>3
  <2> QED
    BY <2>5, <2>6 DEF TreeInv
<1>3. CASE TxnPushed(s)
  <2>1. PICK t \in TxnRecords : /\ t.group = txns[openTxn].group
                                /\ t.segments = Append(txns[openTxn].segments, s)
                                /\ txns' = [txns EXCEPT ![openTxn] = t]
    BY <1>3 DEF TxnPushed
  <2>2. openTxn \in DOMAIN txns
    BY <1>3, <1>0 DEF ReadTypes, TxnPushed
  <2>3. txns[openTxn] \in TxnRecords
    BY <2>2, <1>0
  <2>4. txns[openTxn].segments \in Seq(Segments)
    BY <2>3 DEF TxnRecords
  <2>5. Len(t.segments) = Len(txns[openTxn].segments) + 1 /\ Len(txns[openTxn].segments) \in Nat
    BY <2>1, <2>4
  <2>6. /\ DOMAIN txns' = DOMAIN txns
        /\ \A i \in DOMAIN txns : txns'[i].group = txns[i].group
        /\ \A i \in DOMAIN txns : i # openTxn => txns'[i] = txns[i]
        /\ txns'[openTxn] = t
    BY <2>1, <2>2, <1>0
  <2>7. ASSUME NEW i \in DOMAIN txns'
        PROVE  txns'[i].group <= Len(groups') /\ Len(txns'[i].segments) >= 1
    <3>1. /\ i \in DOMAIN txns
          /\ txns'[i].group = txns[i].group
          /\ i # openTxn => txns'[i] = txns[i]
          /\ i = openTxn => txns'[i] = t
      BY <2>6, <2>7
    <3>2. txns[i].group \in Nat /\ txns[i].group <= Len(groups) /\ Len(txns[i].segments) >= 1
      BY <3>1, <1>a
    <3>3. txns'[i].group <= Len(groups')
      BY <3>1, <3>2, <1>0
    <3>4. CASE i = openTxn
      BY <3>1, <3>3, <3>4, <2>5
    <3>5. CASE i # openTxn
      BY <3>1, <3>2, <3>3, <3>5
    <3> QED
      BY <3>4, <3>5
  <2>8. \A i, j \in DOMAIN txns' :
          i <= j /\ txns'[i].group # 0 /\ txns'[j].group # 0 => txns'[i].group <= txns'[j].group
    BY <2>6 DEF TreeInv
  <2> QED
    BY <2>7, <2>8 DEF TreeInv
<1> QED
  BY <1>1, <1>2, <1>3, Zenon DEF TreeStep

Saying == Warned(Misplaced)

LEMMA SayingStays ==
  ASSUME warnings \in Seq(Notes), warnings' \in Seq(Notes), Longer(warnings, warnings'), Saying
  PROVE  Saying'
<1>1. PICK i \in DOMAIN warnings : warnings[i].kind \in Misplaced
  BY DEF Saying, Warned
<1>2. i \in DOMAIN warnings' /\ warnings'[i] = warnings[i]
  BY <1>1 DEF Longer
<1> QED
  BY <1>1, <1>2 DEF Saying, Warned

LEMMA OrderKept ==
  ASSUME ReadTypes, TreeInv, ~Saying => PlacedInOrder,
         NEW s \in Segments, TreeStep(s), read' = Append(read, s), ~Saying'
  PROVE  PlacedInOrder'
<1>1. PlacedInOrder
  BY SayingStays DEF TreeStep, ReadTypes
<1>2. CASE s.tag \in {"ISA", "GS", "GE", "IEA"} /\ TxnsKept
  <2>1. Body' = Body /\ \A n \in Body : read'[n] = read[n]
    BY <1>2, EnvelopeIsNoBody DEF ReadTypes
  <2> QED
    BY <1>1, <1>2, <2>1, KeptInOrder DEF TxnsKept
<1>3. CASE s.tag = "ST" /\ TxnBegun(s) /\ (openGroup = 0 => Warned(Misplaced)')
  <2>1. openGroup # 0
    BY <1>3 DEF Saying
  <2>2. s.tag \notin {"ISA", "GS", "GE", "IEA"}
    BY <1>3
  <2> QED
    BY <1>1, <1>3, <2>1, <2>2, BegunInOrder
<1>4. CASE s.tag \notin {"ISA", "GS", "GE", "IEA", "ST"} /\ TxnPushed(s)
  <2>1. s.tag \notin {"ISA", "GS", "GE", "IEA"}
    BY <1>4
  <2> QED
    BY <1>1, <1>4, <2>1, PushedInOrder
<1>5. ~Warned(Misplaced)'
  BY DEF Saying
<1> QED
  BY <1>2, <1>3, <1>4, <1>5, Zenon DEF TreeStep

(***************************************************************************)
(* The counts: an open transaction has no SE yet, an open group no count,  *)
(* and without a warning what is declared of the others is what there is.  *)
(***************************************************************************)
CountedTxn(i) ==
  \/ Last(txns[i].segments).tag # "SE" /\ txns[i].declared = NoCount
  \/ /\ i # openTxn
     /\ Last(txns[i].segments).tag = "SE"
     /\ warnings = <<>> => txns[i].declared \in {NoCount, Len(txns[i].segments)}

CountsInv ==
  /\ \A i \in DOMAIN txns : CountedTxn(i)
  /\ openGroup # 0 => groups[openGroup].declared = NoCount
  /\ warnings = <<>> =>
       \A g \in DOMAIN groups : groups[g].declared \in {NoCount, Cardinality(Transactions(g))}

LEMMA SilenceBefore ==
  ASSUME warnings \in Seq(Notes), warnings' \in Seq(Notes), Longer(warnings, warnings'),
         warnings' = <<>>
  PROVE  warnings = <<>>
<1>1. Len(warnings) = 0
  BY DEF Longer
<1> QED
  BY <1>1

LEMMA CountedTxnsKept ==
  ASSUME ReadTypes, CountsInv, NEW s \in Segments, TreeStep(s)
  PROVE  \A i \in DOMAIN txns' : CountedTxn(i)'
<1>0. txns \in Seq(TxnRecords) /\ openTxn \in {0, Len(txns)}
  BY DEF ReadTypes
<1>1. warnings' = <<>> => warnings = <<>>
  BY SilenceBefore DEF TreeStep, ReadTypes
<1>2. CASE TxnsKept
  BY <1>1, <1>2 DEF TxnsKept, CountsInv, CountedTxn
<1>3. CASE s.tag = "ST" /\ TxnBegun(s)
  <2>1. PICK t \in TxnRecords : /\ t.segments = <<s>>
                                /\ t.declared = NoCount
                                /\ txns' = Append(txns, t)
    BY <1>3 DEF TxnBegun
  <2>2. PICK j : j = Len(txns) + 1
    OBVIOUS
  <2>3. /\ DOMAIN txns' = DOMAIN txns \cup {j}
        /\ txns'[j] = t
        /\ \A i \in DOMAIN txns : txns'[i] = txns[i] /\ i # j
        /\ openTxn' = j
    BY <1>3, <2>1, <2>2, <1>0 DEF TxnBegun
  <2>4. Last(t.segments) = s
    BY <2>1 DEF Last
  <2> TAKE i \in DOMAIN txns'
  <2>5. CASE i = j
    <3>1. txns'[i] = t /\ Last(txns'[i].segments).tag # "SE" /\ txns'[i].declared = NoCount
      BY <1>3, <2>1, <2>3, <2>4, <2>5
    <3> QED
      BY <3>1 DEF CountedTxn
  <2>6. CASE i \in DOMAIN txns
    BY <1>1, <2>3, <2>6 DEF CountsInv, CountedTxn
  <2> QED
    BY <2>3, <2>5, <2>6
<1>4. CASE TxnPushed(s)
  <2>1. PICK t \in TxnRecords :
          /\ t.segments = Append(txns[openTxn].segments, s)
          /\ txns' = [txns EXCEPT ![openTxn] = t]
          /\ \/ /\ s.tag = "SE"
                /\ openTxn' = 0
                /\ warnings' = <<>> => t.declared \in {NoCount, Len(t.segments)}
             \/ /\ s.tag # "SE"
                /\ openTxn' = openTxn
                /\ t.declared = txns[openTxn].declared
    BY <1>4 DEF TxnPushed
  <2>2. openTxn \in DOMAIN txns /\ openTxn # 0
    BY <1>4, <1>0 DEF TxnPushed
  <2>3. txns[openTxn] \in TxnRecords
    BY <2>2, <1>0
  <2>4. txns[openTxn].segments \in Seq(Segments)
    BY <2>3 DEF TxnRecords
  <2>5. Last(t.segments) = s
    BY <2>1, <2>4 DEF Last
  <2>6. /\ DOMAIN txns' = DOMAIN txns
        /\ \A i \in DOMAIN txns : i # openTxn => txns'[i] = txns[i] /\ i # 0
        /\ txns'[openTxn] = t
    BY <2>1, <2>2, <1>0
  <2>7. txns[openTxn].declared = NoCount
    BY <2>2 DEF CountsInv, CountedTxn
  <2> TAKE i \in DOMAIN txns'
  <2>8. CASE i # openTxn
    <3>1. txns'[i] = txns[i] /\ i # openTxn' /\ CountedTxn(i)
      BY <2>1, <2>6, <2>8 DEF CountsInv
    <3> QED
      BY <3>1, <2>8, <1>1 DEF CountedTxn
  <2>9. CASE i = openTxn /\ s.tag = "SE"
    BY <2>1, <2>2, <2>5, <2>6, <2>9 DEF CountedTxn
  <2>10. CASE i = openTxn /\ s.tag # "SE"
    BY <2>1, <2>5, <2>6, <2>7, <2>10 DEF CountedTxn
  <2> QED
    BY <2>8, <2>9, <2>10
<1> QED
  BY <1>2, <1>3, <1>4, Zenon DEF TreeStep

\* Only the open group gets transactions.
LEMMA ClosedGroupsKeep ==
  ASSUME ReadTypes, NEW s \in Segments, TreeStep(s), NEW g \in Nat, g # 0, g # openGroup
  PROVE  Transactions(g)' = Transactions(g)
<1>0. txns \in Seq(TxnRecords)
  BY DEF ReadTypes
<1>1. CASE TxnsKept
  BY <1>1 DEF TxnsKept, Transactions
<1>2. CASE TxnBegun(s)
  <2>1. PICK t \in TxnRecords : t.group = openGroup /\ txns' = Append(txns, t)
    BY <1>2 DEF TxnBegun
  <2>2. PICK j : j = Len(txns) + 1
    OBVIOUS
  <2>3. /\ DOMAIN txns' = DOMAIN txns \cup {j}
        /\ txns'[j].group = openGroup
        /\ \A i \in DOMAIN txns : txns'[i] = txns[i]
    BY <2>1, <2>2, <1>0
  <2>4. \A i : i \in Transactions(g)' <=> i \in Transactions(g)
    BY <2>3 DEF Transactions
  <2> QED
    BY <2>4
<1>3. CASE TxnPushed(s)
  <2>1. PICK t \in TxnRecords : t.group = txns[openTxn].group /\ txns' = [txns EXCEPT ![openTxn] = t]
    BY <1>3 DEF TxnPushed
  <2>2. DOMAIN txns' = DOMAIN txns /\ \A i \in DOMAIN txns : txns'[i].group = txns[i].group
    BY <2>1, <1>0
  <2>3. \A i : i \in Transactions(g)' <=> i \in Transactions(g)
    BY <2>2 DEF Transactions
  <2> QED
    BY <2>3
<1> QED
  BY <1>1, <1>2, <1>3, Zenon DEF TreeStep

LEMMA CountsKept ==
  ASSUME ReadTypes, CountsInv, NEW s \in Segments, TreeStep(s)
  PROVE  CountsInv'
<1>0. groups \in Seq(GroupRecords) /\ openGroup \in {0, Len(groups)}
  BY DEF ReadTypes
<1>1. warnings' = <<>> => warnings = <<>>
  BY SilenceBefore DEF TreeStep, ReadTypes
<1>2. \A i \in DOMAIN txns' : CountedTxn(i)'
  BY CountedTxnsKept
<1>3. \A g \in DOMAIN groups : g \in Nat /\ g # 0
  BY <1>0
<1>a. \A g \in DOMAIN groups : g # openGroup => Transactions(g)' = Transactions(g)
  BY <1>3, ClosedGroupsKeep
<1>4. CASE s.tag # "GS" /\ GroupsKept
  <2>1. openGroup' # 0 => groups'[openGroup'].declared = NoCount
    BY <1>4 DEF GroupsKept, CountsInv
  <2>2. ASSUME warnings' = <<>>, NEW g \in DOMAIN groups'
        PROVE  groups'[g].declared \in {NoCount, Cardinality(Transactions(g)')}
    <3>1. CASE g = openGroup
      BY <3>1, <2>1, <2>2, <1>3, <1>4 DEF GroupsKept
    <3>2. CASE g # openGroup
      BY <3>2, <2>2, <1>1, <1>4, <1>a DEF GroupsKept, CountsInv
    <3> QED
      BY <3>1, <3>2
  <2> QED
    BY <1>2, <2>1, <2>2 DEF CountsInv
<1>5. CASE GroupBegun(s) /\ s.tag = "GS"
  <2>1. TxnsKept
    BY <1>5, Zenon DEF TreeStep
  <2>2. [controlNumber |-> Ev(s, 6), declared |-> NoCount] \in GroupRecords
    BY ElementsAreTexts DEF GroupRecords, NoCount
  <2>3. PICK j : j = Len(groups) + 1
    OBVIOUS
  <2>4. /\ DOMAIN groups' = DOMAIN groups \cup {j}
        /\ groups'[j].declared = NoCount
        /\ \A g \in DOMAIN groups : groups'[g] = groups[g]
        /\ openGroup' = j
    BY <1>0, <1>5, <2>2, <2>3 DEF GroupBegun
  <2>5. \A g : Transactions(g)' = Transactions(g)
    BY <2>1 DEF TxnsKept, Transactions
  <2>6. ASSUME warnings' = <<>>, NEW g \in DOMAIN groups'
        PROVE  groups'[g].declared \in {NoCount, Cardinality(Transactions(g)')}
    BY <2>4, <2>5, <2>6, <1>1 DEF CountsInv
  <2> QED
    BY <1>2, <2>4, <2>6 DEF CountsInv
<1>6. CASE GroupClosed /\ s.tag = "GE"
  <2>1. TxnsKept
    BY <1>6, Zenon DEF TreeStep
  <2>2. PICK h \in GroupRecords :
          /\ warnings' = <<>> => h.declared \in {NoCount, Cardinality(Transactions(openGroup))}
          /\ groups' = [groups EXCEPT ![openGroup] = h]
    BY <1>6 DEF GroupClosed
  <2>3. /\ DOMAIN groups' = DOMAIN groups
        /\ openGroup \in DOMAIN groups
        /\ groups'[openGroup] = h
        /\ \A g \in DOMAIN groups : g # openGroup => groups'[g] = groups[g]
        /\ openGroup' = 0
    BY <1>0, <1>6, <2>2 DEF GroupClosed
  <2>4. \A g : Transactions(g)' = Transactions(g)
    BY <2>1 DEF TxnsKept, Transactions
  <2>5. ASSUME warnings' = <<>>, NEW g \in DOMAIN groups'
        PROVE  groups'[g].declared \in {NoCount, Cardinality(Transactions(g)')}
    BY <2>2, <2>3, <2>4, <2>5, <1>1 DEF CountsInv
  <2> QED
    BY <1>2, <2>3, <2>5 DEF CountsInv
<1> QED
  BY <1>4, <1>5, <1>6, Zenon DEF TreeStep

(***************************************************************************)
(* The names: the first GS read that has a control number began the first  *)
(* group that has one.                                                     *)
(***************************************************************************)
Naming(s) == s.tag = "GS" /\ Ev(s, 6) # NoText

NoneNamed ==
  /\ \A n \in DOMAIN read : ~Naming(read[n])
  /\ \A g \in DOMAIN groups : groups[g].controlNumber = NoText

FirstNamed(n, g) ==
  /\ Naming(read[n]) /\ \A m \in DOMAIN read : m < n => ~Naming(read[m])
  /\ groups[g].controlNumber # NoText
  /\ \A h \in DOMAIN groups : h < g => groups[h].controlNumber = NoText
  /\ groups[g].controlNumber = Ev(read[n], 6)

NamesInv ==
  NoneNamed \/ \E n \in DOMAIN read : \E g \in DOMAIN groups : FirstNamed(n, g)

\* Groups are begun, never renamed.
LEMMA GroupNamesStay ==
  ASSUME ReadTypes, NEW s \in Segments, TreeStep(s)
  PROVE  \/ /\ s.tag # "GS"
            /\ DOMAIN groups' = DOMAIN groups
            /\ \A g \in DOMAIN groups : groups'[g].controlNumber = groups[g].controlNumber
         \/ /\ s.tag = "GS"
            /\ DOMAIN groups' = DOMAIN groups \cup {Len(groups) + 1}
            /\ groups'[Len(groups) + 1].controlNumber = Ev(s, 6)
            /\ \A g \in DOMAIN groups : /\ groups'[g] = groups[g]
                                        /\ g < Len(groups) + 1
                                        /\ g \in Nat
<1>0. groups \in Seq(GroupRecords) /\ openGroup \in {0, Len(groups)}
  BY DEF ReadTypes
<1>1. CASE s.tag # "GS" /\ GroupsKept
  BY <1>1 DEF GroupsKept
<1>2. CASE s.tag = "GE" /\ GroupClosed
  <2>1. PICK h \in GroupRecords : /\ h.controlNumber = groups[openGroup].controlNumber
                                  /\ groups' = [groups EXCEPT ![openGroup] = h]
    BY <1>2 DEF GroupClosed
  <2>2. DOMAIN groups' = DOMAIN groups
    BY <2>1
  <2>3. \A g \in DOMAIN groups : groups'[g].controlNumber = groups[g].controlNumber
    BY <2>1
  <2> QED
    BY <1>2, <2>2, <2>3
<1>3. CASE s.tag = "GS" /\ GroupBegun(s)
  <2> DEFINE new == [controlNumber |-> Ev(s, 6), declared |-> NoCount]
  <2>1. new \in GroupRecords /\ new.controlNumber = Ev(s, 6)
    BY ElementsAreTexts DEF GroupRecords, NoCount
  <2>2. groups' = Append(groups, new)
    BY <1>3 DEF GroupBegun
  <2> HIDE DEF new
  <2>3. /\ DOMAIN groups' = DOMAIN groups \cup {Len(groups) + 1}
        /\ groups'[Len(groups) + 1] = new
        /\ \A g \in DOMAIN groups : groups'[g] = groups[g] /\ g \in Nat /\ g < Len(groups) + 1
    BY <2>1, <2>2, <1>0, AppendFacts
  <2> QED
    BY <1>3, <2>1, <2>3
<1> QED
  BY <1>1, <1>2, <1>3, Zenon DEF TreeStep

LEMMA NamesKept ==
  ASSUME ReadTypes, NamesInv, NEW s \in Segments, TreeStep(s), read' = Append(read, s)
  PROVE  NamesInv'
<1>1. PICK b : b = Len(read) + 1
  OBVIOUS
<1>2. PICK j : j = Len(groups) + 1
  OBVIOUS
<1>3. /\ DOMAIN read' = DOMAIN read \cup {b}
      /\ read'[b] = s
      /\ \A n \in DOMAIN read : read'[n] = read[n] /\ n \in Nat /\ n < b
      /\ b \in Nat
  BY <1>1, AppendFacts DEF ReadTypes
<1>4. j \in Nat
  BY <1>2 DEF ReadTypes
<1>5. \/ /\ s.tag # "GS"
         /\ DOMAIN groups' = DOMAIN groups
         /\ \A g \in DOMAIN groups : groups'[g].controlNumber = groups[g].controlNumber
      \/ /\ s.tag = "GS"
         /\ DOMAIN groups' = DOMAIN groups \cup {j}
         /\ groups'[j].controlNumber = Ev(s, 6)
         /\ \A g \in DOMAIN groups : groups'[g] = groups[g] /\ g < j /\ g \in Nat
  BY <1>2, GroupNamesStay
<1>6. CASE NoneNamed /\ ~Naming(s)
  <2>1. NoneNamed'
    BY <1>3, <1>5, <1>6 DEF NoneNamed, Naming
  <2> QED
    BY <2>1 DEF NamesInv
<1>7. CASE NoneNamed /\ Naming(s)
  <2>1. FirstNamed(b, j)'
    BY <1>3, <1>4, <1>5, <1>7 DEF NoneNamed, Naming, FirstNamed
  <2> QED
    BY <2>1, <1>3, <1>5, <1>7 DEF NamesInv, Naming
<1>8. CASE \E n \in DOMAIN read : \E g \in DOMAIN groups : FirstNamed(n, g)
  <2>1. PICK n \in DOMAIN read : \E g \in DOMAIN groups : FirstNamed(n, g)
    BY <1>8
  <2>2. PICK g \in DOMAIN groups : FirstNamed(n, g)
    BY <2>1
  <2>3. \A m \in DOMAIN read' : m < n => ~Naming(read'[m])
    BY <1>3, <2>2 DEF FirstNamed
  <2>4. \A h \in DOMAIN groups' : h < g => groups'[h].controlNumber = NoText
    BY <1>4, <1>5, <2>2 DEF FirstNamed
  <2>5. groups'[g].controlNumber = groups[g].controlNumber /\ g \in DOMAIN groups'
    BY <1>5
  <2>6. FirstNamed(n, g)'
    BY <1>3, <2>2, <2>3, <2>4, <2>5 DEF FirstNamed
  <2> QED
    BY <2>5, <2>6, <1>3 DEF NamesInv
<1> QED
  BY <1>6, <1>7, <1>8 DEF NamesInv

(***************************************************************************)
(* The whole invariant, and what it says of a file parsed.                 *)
(***************************************************************************)
Going == outcome \in {"reading", "done"}

ParserInv ==
  /\ ReadTypes
  /\ Going => /\ TreeInv
              /\ ~Saying => PlacedInOrder
              /\ CountsInv
              /\ NamesInv

LEMMA ParserBegins == ParserInit => ParserInv
<1> SUFFICES ASSUME ParserInit PROVE ParserInv
  OBVIOUS
<1>1. /\ read = <<>> /\ groups = <<>> /\ txns = <<>> /\ warnings = <<>>
      /\ openGroup = 0 /\ openTxn = 0
  BY DEF ParserInit, DecomposerInit
<1>2. source \in Sources
  BY DEF ParserInit
<1>3. ReadTypes
  BY <1>1, <1>2 DEF ReadTypes
<1>4. TreeInv
  BY <1>1 DEF TreeInv
<1>5. Body = {} /\ Places = {}
  BY <1>1, PlacesMember DEF Body
<1>6. PlacedInOrder
  BY <1>1, <1>5, FS_EmptySet DEF PlacedInOrder
<1>7. CountsInv
  BY <1>1 DEF CountsInv
<1>8. NamesInv
  BY <1>1 DEF NamesInv, NoneNamed
<1> QED
  BY <1>3, <1>4, <1>6, <1>7, <1>8 DEF ParserInv

LEMMA ParserReads == ParserInv /\ Read => ParserInv'
<1> SUFFICES ASSUME ParserInv, Read PROVE ParserInv'
  OBVIOUS
<1>0. outcome = "reading" /\ source' = source
  BY DEF Read
<1>1. ReadTypes /\ TreeInv /\ (~Saying => PlacedInOrder) /\ CountsInv /\ NamesInv
  BY <1>0 DEF ParserInv, Going
<1>2. Upcoming \subseteq Segments
  BY <1>1, UpcomingAreSegments DEF ReadTypes
<1>3. PICK s \in Segments : (Reject(s) \/ ReadSegment(s)) /\ read' = Append(read, s)
  BY <1>2, Zenon DEF Read
<1>4. CASE Reject(s)
  <2>1. ~Going'
    BY <1>4, Zenon DEF Reject, Going
  <2>2. /\ groups' = groups /\ txns' = txns /\ warnings' = warnings
        /\ openGroup' = openGroup /\ openTxn' = openTxn
    BY <1>4 DEF Reject, tree
  <2>3. ReadTypes'
    BY <1>0, <1>1, <1>3, <2>2 DEF ReadTypes
  <2> QED
    BY <2>1, <2>3 DEF ParserInv
<1>5. CASE ReadSegment(s)
  <2>1. TreeStep(s)
    BY <1>1, <1>5, SegmentsStep
  <2>2. ReadTypes'
    BY <1>0, <1>1, <1>3, <2>1, TypesKept
  <2>3. TreeInv'
    BY <1>1, <2>1, TreeKept
  <2>4. ~Saying' => PlacedInOrder'
    BY <1>1, <1>3, <2>1, OrderKept
  <2>5. CountsInv'
    BY <1>1, <2>1, CountsKept
  <2>6. NamesInv'
    BY <1>1, <1>3, <2>1, NamesKept
  <2> QED
    BY <2>2, <2>3, <2>4, <2>5, <2>6 DEF ParserInv
<1> QED
  BY <1>3, <1>4, <1>5

LEMMA MaybeANote ==
  ASSUME NEW cond \in BOOLEAN, NEW note, cond => note \in Notes
  PROVE  (IF cond THEN <<note>> ELSE <<>>) \in Seq(Notes)
<1>1. CASE cond
  BY <1>1
<1>2. CASE ~cond
  BY <1>2
<1> QED
  BY <1>1, <1>2

LEMMA ParserEnds == ParserInv /\ End => ParserInv'
<1> SUFFICES ASSUME ParserInv, End PROVE ParserInv'
  OBVIOUS
<1>0. outcome = "reading" /\ source' = source
  BY DEF End
<1>1. ReadTypes /\ TreeInv /\ (~Saying => PlacedInOrder) /\ CountsInv /\ NamesInv
  BY <1>0 DEF ParserInv, Going
<1>2. /\ read' = read /\ groups' = groups /\ txns' = txns
      /\ openGroup' = openGroup /\ openTxn' = openTxn
  BY Zenon DEF End, Finish
<1> DEFINE txnNote == IF openTxn # 0
                      THEN <<[kind |-> "open ST", of |-> txns[openTxn].controlNumber]>> ELSE <<>>
           groupNote == IF openGroup # 0
                        THEN <<[kind |-> "open GS", of |-> groups[openGroup].controlNumber]>>
                        ELSE <<>>
<1>3. warnings' = warnings \o txnNote \o groupNote
  BY Zenon DEF End, Finish
<1>4. txnNote \in Seq(Notes)
  <2>1. ASSUME openTxn # 0
        PROVE  [kind |-> "open ST", of |-> txns[openTxn].controlNumber] \in Notes
    <3>1. txns[openTxn] \in TxnRecords
      BY <2>1, <1>1, PushFacts DEF ReadTypes
    <3> QED
      BY <3>1 DEF TxnRecords, Notes, Kinds
  <2>2. (openTxn # 0) \in BOOLEAN
    OBVIOUS
  <2> QED
    BY <2>1, <2>2, MaybeANote, Zenon
<1>5. groupNote \in Seq(Notes)
  <2>1. ASSUME openGroup # 0
        PROVE  [kind |-> "open GS", of |-> groups[openGroup].controlNumber] \in Notes
    <3>1. groups[openGroup] \in GroupRecords
      BY <2>1, <1>1 DEF ReadTypes
    <3> QED
      BY <3>1 DEF GroupRecords, Notes, Kinds
  <2>2. (openGroup # 0) \in BOOLEAN
    OBVIOUS
  <2> QED
    BY <2>1, <2>2, MaybeANote, Zenon
<1> HIDE DEF txnNote, groupNote
<1>6. warnings \in Seq(Notes)
  BY <1>1 DEF ReadTypes
<1>7. warnings \o txnNote \in Seq(Notes) /\ Longer(warnings, warnings \o txnNote)
  BY <1>4, <1>6, JoinedIsLonger
<1>8. warnings' \in Seq(Notes) /\ Longer(warnings \o txnNote, warnings')
  BY <1>3, <1>5, <1>7, JoinedIsLonger
<1>9. Longer(warnings, warnings')
  BY <1>6, <1>7, <1>8 DEF Longer
<1>10. ReadTypes'
  BY <1>0, <1>1, <1>2, <1>8 DEF ReadTypes
<1>11. TreeInv'
  BY <1>1, <1>2 DEF TreeInv
<1>12. ~Saying' => PlacedInOrder'
  <2>1. Body' = Body
    BY <1>2 DEF Body
  <2>2. ~Saying' => ~Saying
    BY <1>6, <1>8, <1>9, SayingStays
  <2>3. PlacedInOrder => PlacedInOrder'
    BY <1>2, <2>1, KeptInOrder
  <2> QED
    BY <1>1, <2>2, <2>3
<1>13. CountsInv'
  <2>1. warnings' = <<>> => warnings = <<>>
    BY <1>6, <1>8, <1>9, SilenceBefore
  <2>2. \A g : Transactions(g)' = Transactions(g)
    BY <1>2 DEF Transactions
  <2>3. \A i \in DOMAIN txns' : CountedTxn(i)'
    BY <1>1, <1>2, <2>1 DEF CountsInv, CountedTxn
  <2> QED
    BY <1>1, <1>2, <2>1, <2>2, <2>3 DEF CountsInv
<1>14. NamesInv'
  BY <1>1, <1>2 DEF NamesInv, NoneNamed, FirstNamed
<1> QED
  BY <1>10, <1>11, <1>12, <1>13, <1>14 DEF ParserInv

LEMMA ParserStutters ==
  ASSUME ParserInv, UNCHANGED <<read, tree, outcome, source>>
  PROVE  ParserInv'
<1>0. /\ read' = read /\ groups' = groups /\ txns' = txns /\ warnings' = warnings
      /\ openGroup' = openGroup /\ openTxn' = openTxn /\ outcome' = outcome /\ source' = source
  BY DEF tree
<1>1. Body' = Body /\ (\A g : Transactions(g)' = Transactions(g)) /\ Saying' = Saying
  BY <1>0 DEF Body, Transactions, Saying, Warned
<1>2. ReadTypes' = ReadTypes /\ TreeInv' = TreeInv /\ Going' = Going
  BY <1>0 DEF ReadTypes, TreeInv, Going
<1>3. CountsInv => CountsInv'
  BY <1>0, <1>1 DEF CountsInv, CountedTxn
<1>4. NamesInv => NamesInv'
  BY <1>0 DEF NamesInv, NoneNamed, FirstNamed
<1>5. PlacedInOrder => PlacedInOrder'
  BY <1>0, <1>1, KeptInOrder
<1> QED
  BY <1>1, <1>2, <1>3, <1>4, <1>5, Zenon DEF ParserInv

LEMMA MinIsLeast ==
  ASSUME NEW S \in SUBSET Nat, NEW least \in S, \A n \in S : least <= n
  PROVE  Min(S) = least
<1>1. Min(S) \in S /\ \A n \in S : Min(S) <= n
  BY DEF Min
<1>2. Min(S) \in Nat /\ least \in Nat /\ Min(S) <= least /\ least <= Min(S)
  BY <1>1
<1> QED
  BY <1>2

\* Only a GS that has elements can have a control number among them.
LEMMA NamesAreElements ==
  ASSUME NEW s, Ev(s, 6) # NoText
  PROVE  s.elements # <<>>
BY DEF Ev

LEMMA InvSaysAlike == ParserInv => ReadersAgree
<1> DEFINE mute == {n \in DOMAIN read : /\ read[n].tag = "GS" /\ read[n].elements # <<>>
                                        /\ Ev(read[n], 6) = NoText}
           named == {g \in DOMAIN groups : groups[g].controlNumber # NoText}
           gs == {n \in DOMAIN read : read[n].tag = "GS" /\ read[n].elements # <<>>}
<1> SUFFICES ASSUME ParserInv, Parsed, mute = {}
             PROVE  EnvelopeIds(read).gs =
                      IF named = {} THEN NoText ELSE groups[Min(named)].controlNumber
  BY Zenon DEF ReadersAgree
<1>1. NamesInv /\ read \in Seq(Segments) /\ groups \in Seq(GroupRecords)
  BY DEF ParserInv, Going, Parsed, ReadTypes
<1>2. \A n : n \in gs <=> n \in DOMAIN read /\ Naming(read[n])
  BY NamesAreElements DEF Naming
<1>3. EnvelopeIds(read).gs = IF gs = {} THEN NoText ELSE Ev(read[Min(gs)], 6)
  BY DEF EnvelopeIds
<1>4. CASE NoneNamed
  <2>1. gs = {} /\ named = {}
    BY <1>2, <1>4 DEF NoneNamed
  <2> QED
    BY <1>3, <2>1
<1>5. CASE \E n \in DOMAIN read : \E g \in DOMAIN groups : FirstNamed(n, g)
  <2>1. PICK n \in DOMAIN read : \E g \in DOMAIN groups : FirstNamed(n, g)
    BY <1>5
  <2>2. PICK g \in DOMAIN groups : FirstNamed(n, g)
    BY <2>1
  <2>3. gs \in SUBSET Nat /\ named \in SUBSET Nat
    BY <1>1
  <2>4. n \in gs /\ \A m \in gs : n <= m
    BY <1>1, <1>2, <2>2, <2>3 DEF FirstNamed
  <2>5. g \in named /\ \A h \in named : g <= h
    BY <1>1, <2>2, <2>3 DEF FirstNamed
  <2> HIDE DEF gs, named
  <2>6. Min(gs) = n /\ Min(named) = g
    BY <2>3, <2>4, <2>5, MinIsLeast
  <2>7. gs # {} /\ named # {}
    BY <2>4, <2>5
  <2> QED
    BY <1>3, <2>2, <2>6, <2>7 DEF FirstNamed
<1> QED
  BY <1>1, <1>4, <1>5 DEF NamesInv

LEMMA InvIsTheFile == ParserInv => TreeIsTheFile
<1> SUFFICES ASSUME ParserInv PROVE TreeIsTheFile
  OBVIOUS
<1>1. ReadersAgree
  BY InvSaysAlike
<1>2. NothingLostSilently
  <2> SUFFICES ASSUME Parsed, ~Warned(Misplaced) PROVE NothingLostSilently
    BY DEF NothingLostSilently
  <2>1. PlacedInOrder
    BY DEF ParserInv, Going, Parsed, Saying
  <2> QED
    BY <2>1 DEF NothingLostSilently, PlacedInOrder, At
<1>3. CountsHold
  <2> SUFFICES ASSUME Parsed, warnings = <<>> PROVE CountsHold
    BY DEF CountsHold
  <2>1. CountsInv
    BY DEF ParserInv, Going, Parsed
  <2>2. \A i \in InTree : i \in DOMAIN txns
    BY DEF InTree
  <2> QED
    BY <2>1, <2>2 DEF CountsHold, CountsInv, CountedTxn
<1> QED
  BY <1>1, <1>2, <1>3 DEF TreeIsTheFile

LEMMA ParserSteps ==
  ASSUME ParserInv, [ParserNext]_parserVars
  PROVE  ParserInv'
<1>1. ASSUME ReadAck \/ ReadAckSegment \/ UNCHANGED parserVars
      PROVE  UNCHANGED <<read, tree, outcome, source>>
  BY <1>1, Zenon DEF ReadAck, ReadAckSegment, parserVars, tree
<1> QED
  BY <1>1, ParserReads, ParserEnds, ParserStutters DEF ParserNext

(* However a transmission is made up, its stored tree is the file, its        *)
(* unwarned counts are true and both readers name it alike                    *)
(* (decomposeInterchange, extractEnvelopeIds).                                *)
THEOREM TreesAreTheFiles == ParserSpec => []TreeIsTheFile
<1>1. ParserInit => ParserInv
  BY ParserBegins
<1>2. ParserInv /\ [ParserNext]_parserVars => ParserInv'
  BY ParserSteps
<1>3. ParserInv => TreeIsTheFile
  BY InvIsTheFile
<1> QED
  BY <1>1, <1>2, <1>3, PTL DEF ParserSpec

-----------------------------------------------------------------------------
(***************************************************************************)
(* Parser: what readAck tells of an acknowledgment.                        *)
(***************************************************************************)
\* Positions are counted off one by one.
LEMMA RankFacts ==
  ASSUME NEW n \in Nat, NEW S \in SUBSET (1..n)
  PROVE  /\ Cardinality(S) \in Nat
         /\ \A x \in S : /\ Rank(S, x) \in 1..Cardinality(S)
                         /\ (\A y \in S : y <= x) => Rank(S, x) = Cardinality(S)
                         /\ \A y \in S : y < x => Rank(S, y) < Rank(S, x)
<1>0. IsFiniteSet(S) /\ S \subseteq Nat
  <2>1. n \in Int /\ 1 \in Int
    OBVIOUS
  <2>2. IsFiniteSet(1..n)
    BY <2>1, FS_Interval, Zenon
  <2>3. S \subseteq 1..n /\ S \subseteq Nat
    OBVIOUS
  <2> QED
    BY <2>2, <2>3, FS_Subset
<1> DEFINE below(x) == {y \in S : y <= x}
<1>1. \A x : /\ IsFiniteSet(below(x)) /\ Cardinality(below(x)) \in Nat
             /\ Cardinality(below(x)) <= Cardinality(S)
  <2>1. \A x : below(x) \subseteq S
    OBVIOUS
  <2> QED
    BY <1>0, <2>1, FS_Subset, FS_CardinalityType
<1>2. Cardinality(S) \in Nat
  BY <1>0, FS_CardinalityType
<1>3. ASSUME NEW x \in S
      PROVE  Cardinality(below(x)) >= 1
  <2>1. below(x) # {}
    BY <1>0
  <2>2. Cardinality(below(x)) # 0
    BY <1>1, <2>1, FS_EmptySet
  <2> QED
    BY <1>1, <2>2
<1>4. ASSUME NEW x \in S, \A y \in S : y <= x
      PROVE  below(x) = S
  BY <1>4
<1>5. ASSUME NEW x \in S, NEW y \in S, y < x
      PROVE  Cardinality(below(y)) < Cardinality(below(x))
  <2>1. x \in Nat /\ y \in Nat /\ \A z \in S : z \in Nat
    BY <1>0
  <2>2. x \in below(x) /\ x \notin below(y)
    BY <1>5, <2>1
  <2>3. \A z \in below(y) : z \in below(x)
    BY <1>5, <2>1
  <2>4. below(y) \subseteq below(x) /\ below(y) # below(x)
    BY <2>2, <2>3, Zenon
  <2>5. Cardinality(below(y)) <= Cardinality(below(x))
        /\ Cardinality(below(y)) # Cardinality(below(x))
    BY <1>1, <2>4, FS_Subset
  <2> QED
    BY <1>1, <2>5
<1>6. \A x : Rank(S, x) = Cardinality(below(x))
  BY DEF Rank
<1> HIDE DEF below
<1> QED
  BY <1>1, <1>2, <1>3, <1>4, <1>5, <1>6

LEMMA RankGrows ==
  ASSUME NEW n \in Nat, NEW S \in SUBSET (1..n)
  PROVE  /\ Cardinality(S \cup {n + 1}) = Cardinality(S) + 1
         /\ \A x \in S : Rank(S \cup {n + 1}, x) = Rank(S, x)
         /\ Rank(S \cup {n + 1}, n + 1) = Cardinality(S) + 1
<1>0. IsFiniteSet(S) /\ S \subseteq Nat
  <2>1. n \in Int /\ 1 \in Int
    OBVIOUS
  <2>2. IsFiniteSet(1..n)
    BY <2>1, FS_Interval, Zenon
  <2>3. S \subseteq 1..n /\ S \subseteq Nat
    OBVIOUS
  <2> QED
    BY <2>2, <2>3, FS_Subset
<1>1. n + 1 \notin S
  OBVIOUS
<1>2. Cardinality(S \cup {n + 1}) = Cardinality(S) + 1
  BY <1>0, <1>1, FS_AddElement
<1>3. \A x \in S : {y \in S \cup {n + 1} : y <= x} = {y \in S : y <= x}
  BY <1>0
<1>4. {y \in S \cup {n + 1} : y <= n + 1} = S \cup {n + 1}
  <2>1. \A y \in S \cup {n + 1} : y <= n + 1
    OBVIOUS
  <2> QED
    BY <2>1, Zenon
<1> QED
  BY <1>2, <1>3, <1>4 DEF Rank

LEMMA RanksBelow ==
  ASSUME NEW n \in Nat, NEW S \in SUBSET (1..n), NEW m \in S, \A y \in S : y <= m
  PROVE  /\ Rank(S, m) = Cardinality(S)
         /\ \A x \in S : x # m => Rank(S, x) \in 1..Cardinality(S) - 1
<1>1. Rank(S, m) = Cardinality(S)
  BY RankFacts
<1>2. ASSUME NEW x \in S, x # m
      PROVE  Rank(S, x) \in 1..Cardinality(S) - 1
  <2>1. x < m
    BY <1>2
  <2>2. Rank(S, x) \in 1..Cardinality(S) /\ Rank(S, x) < Rank(S, m) /\ Cardinality(S) \in Nat
    BY <2>1, RankFacts
  <2> QED
    BY <1>1, <2>2
<1> QED
  BY <1>1, <1>2

\* A list gets one more entry.
LEMMA ListGrows ==
  ASSUME NEW T, NEW list \in Seq(T), NEW t \in T
  PROVE  /\ Append(list, t) \in Seq(T)
         /\ Len(Append(list, t)) = Len(list) + 1
         /\ \A k \in 1..Len(list) : Append(list, t)[k] = list[k]
         /\ Append(list, t)[Len(list) + 1] = t
OBVIOUS

-----------------------------------------------------------------------------
\* An error is still open while nothing has closed it.
Still(segs, j, n) == \A l \in j + 1..n : segs[l].tag \notin {"AK3", "AK5", "IK5"}

Latest(segs, i, n) == \A k \in i + 1..n : segs[k].tag # "AK2"

LEMMA AskedGrows ==
  ASSUME NEW segs, NEW n \in Nat
  PROVE  /\ Asked(segs, n) \subseteq 1..n
         /\ segs[n + 1].tag = "AK2" => Asked(segs, n + 1) = Asked(segs, n) \cup {n + 1}
         /\ segs[n + 1].tag # "AK2" => Asked(segs, n + 1) = Asked(segs, n)
<1>1. 1..n + 1 = 1..n \cup {n + 1}
  OBVIOUS
<1> QED
  BY <1>1, Zenon DEF Asked

LEMMA LatestIsGreatest ==
  ASSUME NEW segs, NEW n \in Nat, NEW i \in Asked(segs, n)
  PROVE  Latest(segs, i, n) <=> \A k \in Asked(segs, n) : k <= i
BY DEF Asked, Latest

LEMMA OwnGrows ==
  ASSUME NEW segs, NEW n \in Nat, NEW i \in 1..n
  PROVE  /\ Own(segs, i, n) \subseteq i + 1..n
         /\ ~Latest(segs, i, n) \/ segs[n + 1].tag = "AK2"
              => Own(segs, i, n + 1) = Own(segs, i, n)
         /\ Latest(segs, i, n) /\ segs[n + 1].tag # "AK2"
              => Own(segs, i, n + 1) = Own(segs, i, n) \cup {n + 1}
<1>1. \A j : j \in i + 1..n + 1 <=> j \in i + 1..n \/ j = n + 1
  OBVIOUS
<1>2. Own(segs, i, n) \subseteq i + 1..n
  BY DEF Own
<1>3. ASSUME NEW j
      PROVE  j \in Own(segs, i, n + 1) <=>
               \/ j \in Own(segs, i, n)
               \/ j = n + 1 /\ \A k \in i + 1..n + 1 : segs[k].tag # "AK2"
  BY <1>1 DEF Own
<1>4. (\A k \in i + 1..n + 1 : segs[k].tag # "AK2") <=>
        Latest(segs, i, n) /\ segs[n + 1].tag # "AK2"
  BY <1>1 DEF Latest
<1> QED
  BY <1>2, <1>3, <1>4, Zenon

LEMMA StillGrows ==
  ASSUME NEW segs, NEW n \in Nat, NEW j \in 1..n
  PROVE  Still(segs, j, n + 1) <=>
           Still(segs, j, n) /\ segs[n + 1].tag \notin {"AK3", "AK5", "IK5"}
<1>1. \A l : l \in j + 1..n + 1 <=> l \in j + 1..n \/ l = n + 1
  OBVIOUS
<1> QED
  BY <1>1, Zenon DEF Still

LEMMA LatestGrows ==
  ASSUME NEW segs, NEW n \in Nat, NEW i \in 1..n, Latest(segs, i, n), segs[n + 1].tag # "AK2"
  PROVE  /\ Own(segs, i, n) \subseteq 1..n
         /\ \A j : j \in Own(segs, i, n + 1) <=> j \in Own(segs, i, n) \/ j = n + 1
<1>1. Own(segs, i, n + 1) = Own(segs, i, n) \cup {n + 1}
  BY OwnGrows
<1>2. Own(segs, i, n) \subseteq 1..n
  BY DEF Own
<1> QED
  BY <1>1, <1>2

LEMMA DetailsGrow ==
  ASSUME NEW segs, NEW n \in Nat, NEW i \in 1..n, Latest(segs, i, n), segs[n + 1].tag # "AK2",
         NEW j \in 1..n
  PROVE  /\ Details(segs, j, Own(segs, i, n)) \in SUBSET (1..n)
         /\ segs[n + 1].tag = "AK4" /\ Still(segs, j, n) =>
              Details(segs, j, Own(segs, i, n + 1))
                = Details(segs, j, Own(segs, i, n)) \cup {n + 1}
         /\ ~(segs[n + 1].tag = "AK4" /\ Still(segs, j, n)) =>
              Details(segs, j, Own(segs, i, n + 1)) = Details(segs, j, Own(segs, i, n))
<1> DEFINE quiet(k) == k > j /\ \A l \in j + 1..k : segs[l].tag \notin {"AK3", "AK5", "IK5"}
<1>1. \A o, k : k \in Details(segs, j, o) <=> k \in o /\ segs[k].tag = "AK4" /\ quiet(k)
  BY DEF Details, Tagged
<1>2. segs[n + 1].tag = "AK4" => (quiet(n + 1) <=> Still(segs, j, n))
  <2>1. \A l : l \in j + 1..n + 1 <=> l \in j + 1..n \/ l = n + 1
    OBVIOUS
  <2>2. n + 1 > j
    OBVIOUS
  <2> QED
    BY <2>1, <2>2, Zenon DEF Still
<1> HIDE DEF quiet
<1> DEFINE old == Details(segs, j, Own(segs, i, n))
           new == Details(segs, j, Own(segs, i, n + 1))
<1>3. old \in SUBSET (1..n)
  BY <1>1, LatestGrows
<1>4. \A k : k \in new <=> \/ k \in old
                           \/ k = n + 1 /\ segs[n + 1].tag = "AK4" /\ Still(segs, j, n)
  BY <1>1, <1>2, LatestGrows
<1> HIDE DEF old, new
<1>5. segs[n + 1].tag = "AK4" /\ Still(segs, j, n) => new = old \cup {n + 1}
  BY <1>4
<1>6. ~(segs[n + 1].tag = "AK4" /\ Still(segs, j, n)) => new = old
  BY <1>4
<1> QED
  BY <1>3, <1>5, <1>6, Zenon DEF old, new

LEMMA NoDetailsYet ==
  ASSUME NEW segs, NEW n \in Nat, NEW own \in SUBSET (1..n + 1)
  PROVE  Details(segs, n + 1, own) = {}
<1>1. \A k \in own : ~(k > n + 1)
  OBVIOUS
<1> QED
  BY <1>1 DEF Details, Tagged

-----------------------------------------------------------------------------
ErrorRecords == [position : Texts, elements : Seq(Texts)]

AnswerRecords == [control : Texts, status : Texts, errors : Seq(ErrorRecords)]

AckRecords == [done : Seq(AnswerRecords), pending : AnswerRecords, inTxn : BOOLEAN,
               error : ErrorRecords, inError : BOOLEAN]

LEMMA FlushedError ==
  ASSUME NEW a \in AckRecords, a.inTxn
  PROVE  /\ FlushError(a) \in AckRecords
         /\ FlushError(a).done = a.done
         /\ FlushError(a).pending.control = a.pending.control
         /\ FlushError(a).pending.status = a.pending.status
         /\ FlushError(a).pending.errors =
              IF a.inError THEN Append(a.pending.errors, a.error) ELSE a.pending.errors
         /\ FlushError(a).inTxn = a.inTxn
         /\ FlushError(a).error = NoError
         /\ FlushError(a).inError = FALSE
<1>1. NoError \in ErrorRecords
  BY ElementsAreTexts DEF NoError, ErrorRecords
<1>2. CASE a.inError
  <2> DEFINE list == Append(a.pending.errors, a.error)
  <2>1. list \in Seq(ErrorRecords)
    BY DEF AckRecords, AnswerRecords
  <2>2. FlushError(a) = [a EXCEPT !.pending.errors = list, !.error = NoError, !.inError = FALSE]
    BY <1>2, Zenon DEF FlushError
  <2> HIDE DEF list
  <2>4. /\ a.done \in Seq(AnswerRecords) /\ a.inTxn \in BOOLEAN
        /\ a.pending.control \in Texts /\ a.pending.status \in Texts
        /\ a = [done |-> a.done, pending |-> a.pending, inTxn |-> a.inTxn,
                error |-> a.error, inError |-> a.inError]
        /\ a.pending = [control |-> a.pending.control, status |-> a.pending.status,
                        errors |-> a.pending.errors]
    BY DEF AckRecords, AnswerRecords
  <2>5. FlushError(a) = [done |-> a.done,
                         pending |-> [control |-> a.pending.control,
                                      status |-> a.pending.status, errors |-> list],
                         inTxn |-> a.inTxn, error |-> NoError, inError |-> FALSE]
    BY <2>2, <2>4, Zenon
  <2>3. /\ FlushError(a) \in AckRecords
        /\ FlushError(a).done = a.done
        /\ FlushError(a).pending.control = a.pending.control
        /\ FlushError(a).pending.status = a.pending.status
        /\ FlushError(a).pending.errors = list
        /\ FlushError(a).inTxn = a.inTxn
        /\ FlushError(a).error = NoError
        /\ FlushError(a).inError = FALSE
    BY <1>1, <2>1, <2>4, <2>5 DEF AckRecords, AnswerRecords
  <2> QED
    BY <1>2, <2>3 DEF list
<1>3. CASE ~a.inError
  <2>1. FlushError(a) = [a EXCEPT !.pending.errors = a.pending.errors,
                                  !.error = NoError, !.inError = FALSE]
    BY <1>3, Zenon DEF FlushError
  <2>3. /\ FlushError(a) \in AckRecords
        /\ FlushError(a).done = a.done
        /\ FlushError(a).pending.control = a.pending.control
        /\ FlushError(a).pending.status = a.pending.status
        /\ FlushError(a).pending.errors = a.pending.errors
        /\ FlushError(a).inTxn = a.inTxn
        /\ FlushError(a).error = NoError
        /\ FlushError(a).inError = FALSE
    BY <1>1, <2>1 DEF AckRecords, AnswerRecords
  <2> QED
    BY <1>3, <2>3
<1> QED
  BY <1>2, <1>3

-----------------------------------------------------------------------------
StatusOK(status, segs, i, n) ==
  LET answers == Tagged(segs, Own(segs, i, n), {"AK5", "IK5"})
  IN /\ answers = {} => status = NoText
     /\ \A j \in answers : (\A k \in answers : k <= j) => status = Ev(segs[j], 1)

Errors(segs, i, n) == Tagged(segs, Own(segs, i, n), {"AK3"})

\* The answer in hand, its last error perhaps still open.
Current(a, segs, i, n) ==
  /\ a.pending.control = Ev(segs[i], 2)
  /\ StatusOK(a.pending.status, segs, i, n)
  /\ a.inError => /\ Len(a.pending.errors) + 1 = Cardinality(Errors(segs, i, n))
                  /\ \E j \in Errors(segs, i, n) : Still(segs, j, n)
  /\ ~a.inError => Len(a.pending.errors) = Cardinality(Errors(segs, i, n))
  /\ \A j \in Errors(segs, i, n) :
       IF Still(segs, j, n)
       THEN a.inError /\ TellsError(a.error, segs, j, Own(segs, i, n))
       ELSE TellsError(a.pending.errors[Rank(Errors(segs, i, n), j)], segs, j, Own(segs, i, n))

LEMMA AnswerParts ==
  ASSUME NEW t, NEW segs, NEW i, NEW n
  PROVE  TellsAnswer(t, segs, i, n) <=>
           /\ t.control = Ev(segs[i], 2)
           /\ StatusOK(t.status, segs, i, n)
           /\ Len(t.errors) = Cardinality(Errors(segs, i, n))
           /\ \A j \in Errors(segs, i, n) :
                TellsError(t.errors[Rank(Errors(segs, i, n), j)], segs, j, Own(segs, i, n))
BY Zenon DEF TellsAnswer, StatusOK, Errors

\* At most one error is open, the last.
LEMMA OpenIsLast ==
  ASSUME NEW segs, NEW n \in Nat, NEW i \in 1..n, NEW j \in Errors(segs, i, n), Still(segs, j, n)
  PROVE  \A k \in Errors(segs, i, n) : k <= j /\ (k # j => ~Still(segs, k, n))
<1>0. \A k \in Errors(segs, i, n) : k \in i + 1..n /\ segs[k].tag = "AK3"
  BY DEF Errors, Tagged, Own
<1>1. \A k \in Errors(segs, i, n) : k <= j
  BY <1>0 DEF Still
<1>2. \A k \in Errors(segs, i, n) : k # j => k < j /\ j \in k + 1..n
  BY <1>0, <1>1
<1> QED
  BY <1>0, <1>1, <1>2 DEF Still

LEMMA FlushedTells ==
  ASSUME NEW segs, NEW n \in Nat, NEW i \in 1..n, NEW a \in AckRecords, a.inTxn,
         Current(a, segs, i, n)
  PROVE  TellsAnswer(FlushError(a).pending, segs, i, n)
<1> DEFINE errors == Errors(segs, i, n)
           own == Own(segs, i, n)
           p == FlushError(a).pending
<1>0. errors \in SUBSET (1..n)
  BY DEF Errors, Tagged, Own
<1>1. p.control = Ev(segs[i], 2) /\ StatusOK(p.status, segs, i, n)
  BY FlushedError DEF Current
<1>2. a.pending.errors \in Seq(ErrorRecords) /\ a.error \in ErrorRecords
  BY DEF AckRecords, AnswerRecords
<1>3. CASE a.inError
  <2>1. p.errors = Append(a.pending.errors, a.error)
    BY <1>3, FlushedError
  <2>2. PICK j \in errors : Still(segs, j, n)
    BY <1>3 DEF Current
  <2>3. \A k \in errors : k <= j /\ (k # j => ~Still(segs, k, n))
    BY <2>2, OpenIsLast
  <2>4. Len(a.pending.errors) + 1 = Cardinality(errors)
    BY <1>3 DEF Current
  <2>5. /\ Len(p.errors) = Cardinality(errors)
        /\ \A x \in errors : x # j => p.errors[Rank(errors, x)] = a.pending.errors[Rank(errors, x)]
        /\ p.errors[Rank(errors, j)] = a.error
    <3>1. j \in errors /\ \A y \in errors : y <= j
      BY <2>2, <2>3
    <3> HIDE DEF errors, p
    <3> DEFINE list == a.pending.errors
               last == a.error
    <3>2. list \in Seq(ErrorRecords) /\ last \in ErrorRecords /\ Len(list) + 1 = Cardinality(errors)
      BY <1>2, <2>4
    <3> HIDE DEF list, last
    <3>3. /\ Len(Append(list, last)) = Cardinality(errors)
          /\ \A x \in errors : x # j => Append(list, last)[Rank(errors, x)] = list[Rank(errors, x)]
          /\ Append(list, last)[Rank(errors, j)] = last
      <4>1. /\ Rank(errors, j) = Cardinality(errors)
            /\ \A x \in errors : x # j => Rank(errors, x) \in 1..Cardinality(errors) - 1
        BY <1>0, <3>1, RanksBelow
      <4>2. Cardinality(errors) \in Nat /\ Len(list) \in Nat
        BY <1>0, <3>2, RankFacts
      <4>3. /\ Rank(errors, j) = Len(list) + 1
            /\ \A x \in errors : x # j => Rank(errors, x) \in 1..Len(list)
        BY <3>2, <4>1, <4>2
      <4>4. /\ Len(Append(list, last)) = Len(list) + 1
            /\ \A k \in 1..Len(list) : Append(list, last)[k] = list[k]
            /\ Append(list, last)[Len(list) + 1] = last
        BY <3>2, ListGrows
      <4> QED
        BY <3>2, <4>3, <4>4, Zenon
    <3> QED
      BY <2>1, <3>3, Zenon DEF list, last
  <2>6. \A x \in errors : TellsError(p.errors[Rank(errors, x)], segs, x, own)
    <3> SUFFICES ASSUME NEW x \in errors
                 PROVE  TellsError(p.errors[Rank(errors, x)], segs, x, own)
      OBVIOUS
    <3>1. CASE x = j
      <4>1. TellsError(a.error, segs, j, own)
        BY <2>2 DEF Current
      <4>2. p.errors[Rank(errors, x)] = a.error
        BY <2>5, <3>1, Zenon
      <4> HIDE DEF p, own, errors
      <4> QED
        BY <3>1, <4>1, <4>2, Zenon
    <3>2. CASE x # j
      <4>1. TellsError(a.pending.errors[Rank(errors, x)], segs, x, own)
        BY <2>3, <3>2 DEF Current
      <4>2. p.errors[Rank(errors, x)] = a.pending.errors[Rank(errors, x)]
        BY <2>5, <3>2
      <4> HIDE DEF p, own, errors
      <4> QED
        BY <4>1, <4>2, Zenon
    <3> QED
      BY <3>1, <3>2
  <2> QED
    BY <1>1, <2>5, <2>6, AnswerParts, Zenon
<1>4. CASE ~a.inError
  <2>1. p.errors = a.pending.errors
    BY <1>4, FlushedError
  <2>2. \A x \in errors : TellsError(a.pending.errors[Rank(errors, x)], segs, x, own)
    BY <1>4, Zenon DEF Current
  <2>3. Len(a.pending.errors) = Cardinality(errors)
    BY <1>4, Zenon DEF Current
  <2> HIDE DEF errors, own, p
  <2>4. \A x \in errors : TellsError(p.errors[Rank(errors, x)], segs, x, own)
    BY <2>1, <2>2, Zenon
  <2>5. Len(p.errors) = Cardinality(errors)
    BY <2>1, <2>3, Zenon
  <2> QED
    BY <1>1, <2>4, <2>5, AnswerParts, Zenon DEF errors, own, p
<1> QED
  BY <1>3, <1>4

-----------------------------------------------------------------------------
\* One more segment, not an AK2, in the latest answer.
LEMMA StatusGrows ==
  ASSUME NEW segs, NEW n \in Nat, NEW i \in 1..n, Latest(segs, i, n), segs[n + 1].tag # "AK2",
         NEW status, NEW next,
         segs[n + 1].tag \in {"AK5", "IK5"} => next = Ev(segs[n + 1], 1),
         segs[n + 1].tag \notin {"AK5", "IK5"} => next = status,
         StatusOK(status, segs, i, n)
  PROVE  StatusOK(next, segs, i, n + 1)
<1> DEFINE answers == Tagged(segs, Own(segs, i, n), {"AK5", "IK5"})
           more == Tagged(segs, Own(segs, i, n + 1), {"AK5", "IK5"})
<1>1. CASE segs[n + 1].tag \in {"AK5", "IK5"}
  <2>1. more = answers \cup {n + 1}
    BY <1>1, LatestGrows DEF Tagged
  <2>2. \A j \in answers : j \in 1..n
    BY DEF Tagged, Own
  <2>3. \A j \in more : (\A k \in more : k <= j) => j = n + 1
    <3> HIDE DEF more, answers
    <3> QED
      BY <2>1, <2>2
  <2>4. more # {}
    BY <2>1
  <2> QED
    BY <1>1, <2>3, <2>4, Zenon DEF StatusOK
<1>2. CASE segs[n + 1].tag \notin {"AK5", "IK5"}
  <2>1. more = answers
    BY <1>2, LatestGrows DEF Tagged
  <2> QED
    BY <1>2, <2>1 DEF StatusOK
<1> QED
  BY <1>1, <1>2

LEMMA ErrorsGrow ==
  ASSUME NEW segs, NEW n \in Nat, NEW i \in 1..n, Latest(segs, i, n), segs[n + 1].tag # "AK2"
  PROVE  /\ Errors(segs, i, n) \in SUBSET (1..n)
         /\ segs[n + 1].tag = "AK3" => Errors(segs, i, n + 1) = Errors(segs, i, n) \cup {n + 1}
         /\ segs[n + 1].tag # "AK3" => Errors(segs, i, n + 1) = Errors(segs, i, n)
<1>1. Errors(segs, i, n) \in SUBSET (1..n)
  BY DEF Errors, Tagged, Own
<1>3. segs[n + 1].tag = "AK3" => Errors(segs, i, n + 1) = Errors(segs, i, n) \cup {n + 1}
  BY LatestGrows DEF Tagged, Errors
<1>4. segs[n + 1].tag # "AK3" => Errors(segs, i, n + 1) = Errors(segs, i, n)
  BY LatestGrows DEF Tagged, Errors
<1> QED
  BY <1>1, <1>3, <1>4, Zenon

LEMMA OtherErrorKept ==
  ASSUME NEW segs, NEW n \in Nat, NEW i \in 1..n, Latest(segs, i, n), segs[n + 1].tag # "AK2",
         NEW j \in 1..n, ~(segs[n + 1].tag = "AK4" /\ Still(segs, j, n)),
         NEW error, TellsError(error, segs, j, Own(segs, i, n))
  PROVE  TellsError(error, segs, j, Own(segs, i, n + 1))
<1>1. Details(segs, j, Own(segs, i, n + 1)) = Details(segs, j, Own(segs, i, n))
  BY DetailsGrow
<1> QED
  BY <1>1, Zenon DEF TellsError

LEMMA OpenErrorGrows ==
  ASSUME NEW segs, NEW n \in Nat, NEW i \in 1..n, Latest(segs, i, n), segs[n + 1].tag = "AK4",
         NEW j \in 1..n, Still(segs, j, n), Ev(segs[n + 1], 1) \in Texts,
         NEW error \in ErrorRecords, TellsError(error, segs, j, Own(segs, i, n)), NEW next,
         next.position = error.position,
         next.elements = Append(error.elements, Ev(segs[n + 1], 1))
  PROVE  TellsError(next, segs, j, Own(segs, i, n + 1))
<1> DEFINE details == Details(segs, j, Own(segs, i, n))
           list == error.elements
           new == Ev(segs[n + 1], 1)
<1>1. Details(segs, j, Own(segs, i, n + 1)) = details \cup {n + 1} /\ details \in SUBSET (1..n)
  BY DetailsGrow
<1>2. /\ error.position = Ev(segs[j], 2)
      /\ Len(list) = Cardinality(details)
      /\ \A k \in details : list[Rank(details, k)] = Ev(segs[k], 1)
  BY Zenon DEF TellsError
<1>3. list \in Seq(Texts) /\ new \in Texts
  BY DEF ErrorRecords
<1>4. next.elements = Append(list, new)
  OBVIOUS
<1> HIDE DEF details, list
<1>5. /\ Len(Append(list, new)) = Len(list) + 1
      /\ \A k \in 1..Len(list) : Append(list, new)[k] = list[k]
      /\ Append(list, new)[Len(list) + 1] = new
  BY <1>3, ListGrows
<1>6. /\ Cardinality(details \cup {n + 1}) = Len(list) + 1
      /\ \A k \in details : Rank(details \cup {n + 1}, k) = Rank(details, k)
                            /\ Rank(details, k) \in 1..Len(list)
      /\ Rank(details \cup {n + 1}, n + 1) = Len(list) + 1
  <2>1. details \in SUBSET (1..n) /\ Len(list) = Cardinality(details)
    BY <1>1, <1>2
  <2>2. \A k \in details : Rank(details, k) \in 1..Len(list)
    BY <2>1, RankFacts
  <2>3. /\ Cardinality(details \cup {n + 1}) = Len(list) + 1
        /\ \A k \in details : Rank(details \cup {n + 1}, k) = Rank(details, k)
        /\ Rank(details \cup {n + 1}, n + 1) = Len(list) + 1
    BY <2>1, RankGrows
  <2> QED
    BY <2>2, <2>3
<1>7. \A k \in details \cup {n + 1} :
        Append(list, new)[Rank(details \cup {n + 1}, k)] = Ev(segs[k], 1)
  BY <1>2, <1>5, <1>6, Zenon
<1> QED
  BY <1>1, <1>2, <1>4, <1>5, <1>6, <1>7, Zenon DEF TellsError

LEMMA NewErrorTells ==
  ASSUME NEW segs, NEW n \in Nat, NEW i \in 1..n
  PROVE  TellsError([position |-> Ev(segs[n + 1], 2), elements |-> <<>>], segs, n + 1,
                    Own(segs, i, n + 1))
<1>1. Own(segs, i, n + 1) \in SUBSET (1..n + 1)
  BY DEF Own
<1>2. Details(segs, n + 1, Own(segs, i, n + 1)) = {}
  BY <1>1, NoDetailsYet
<1>3. Cardinality({}) = 0
  BY FS_EmptySet
<1> QED
  BY <1>2, <1>3 DEF TellsError

-----------------------------------------------------------------------------
LEMMA CurrentOpens ==
  ASSUME NEW segs, NEW n \in Nat, NEW i \in 1..n, Latest(segs, i, n), segs[n + 1].tag = "AK3",
         NEW a \in AckRecords, a.inTxn, Current(a, segs, i, n), NEW b,
         b.pending = FlushError(a).pending, b.inError,
         b.error = [position |-> Ev(segs[n + 1], 2), elements |-> <<>>]
  PROVE  Current(b, segs, i, n + 1)
<1> DEFINE errors == Errors(segs, i, n)
           more == Errors(segs, i, n + 1)
           p == FlushError(a).pending
<1>1. errors \in SUBSET (1..n) /\ more = errors \cup {n + 1}
  BY ErrorsGrow
<1>2. /\ p.control = Ev(segs[i], 2)
      /\ StatusOK(p.status, segs, i, n)
      /\ Len(p.errors) = Cardinality(errors)
      /\ \A j \in errors : TellsError(p.errors[Rank(errors, j)], segs, j, Own(segs, i, n))
  BY FlushedTells, AnswerParts, Zenon
<1> HIDE DEF errors, more, p
<1>3. StatusOK(p.status, segs, i, n + 1)
  BY <1>2, StatusGrows
<1>4. /\ Cardinality(more) = Cardinality(errors) + 1
      /\ \A j \in errors : Rank(more, j) = Rank(errors, j)
  BY <1>1, RankGrows
<1>5. Still(segs, n + 1, n + 1) /\ n + 1 \in more
  <2>1. n + 1 + 1..n + 1 = {}
    OBVIOUS
  <2> QED
    BY <1>1, <2>1 DEF Still
<1>6. TellsError(b.error, segs, n + 1, Own(segs, i, n + 1))
  BY NewErrorTells
<1>7. \A j \in errors : /\ ~Still(segs, j, n + 1)
                        /\ TellsError(p.errors[Rank(more, j)], segs, j, Own(segs, i, n + 1))
  <2> SUFFICES ASSUME NEW j \in errors
               PROVE  /\ ~Still(segs, j, n + 1)
                      /\ TellsError(p.errors[Rank(more, j)], segs, j, Own(segs, i, n + 1))
    OBVIOUS
  <2>1. j \in 1..n
    BY <1>1
  <2>2. ~Still(segs, j, n + 1)
    BY <2>1, StillGrows
  <2>3. TellsError(p.errors[Rank(errors, j)], segs, j, Own(segs, i, n + 1))
    BY <1>2, <2>1, OtherErrorKept
  <2> QED
    BY <1>4, <2>2, <2>3, Zenon
<1>8. \A j \in more : j \in errors \/ j = n + 1
  BY <1>1
<1>9. \A j \in more :
        IF Still(segs, j, n + 1)
        THEN b.inError /\ TellsError(b.error, segs, j, Own(segs, i, n + 1))
        ELSE TellsError(b.pending.errors[Rank(more, j)], segs, j, Own(segs, i, n + 1))
  BY <1>5, <1>6, <1>7, <1>8, Zenon DEF p
<1>10. Len(b.pending.errors) + 1 = Cardinality(more)
  BY <1>2, <1>4 DEF p
<1> QED
  BY <1>2, <1>3, <1>5, <1>9, <1>10, Zenon DEF Current, p, more

LEMMA CurrentAnswers ==
  ASSUME NEW segs, NEW n \in Nat, NEW i \in 1..n, Latest(segs, i, n),
         segs[n + 1].tag \in {"AK5", "IK5"},
         NEW a \in AckRecords, a.inTxn, Current(a, segs, i, n), NEW b,
         b.pending.control = FlushError(a).pending.control,
         b.pending.errors = FlushError(a).pending.errors,
         b.pending.status = Ev(segs[n + 1], 1), ~b.inError
  PROVE  Current(b, segs, i, n + 1)
<1> DEFINE errors == Errors(segs, i, n)
           p == FlushError(a).pending
<1>0. segs[n + 1].tag # "AK2" /\ segs[n + 1].tag # "AK3" /\ segs[n + 1].tag # "AK4"
  OBVIOUS
<1>1. errors \in SUBSET (1..n) /\ Errors(segs, i, n + 1) = errors
  BY <1>0, ErrorsGrow
<1>2. /\ p.control = Ev(segs[i], 2)
      /\ StatusOK(p.status, segs, i, n)
      /\ Len(p.errors) = Cardinality(errors)
      /\ \A j \in errors : TellsError(p.errors[Rank(errors, j)], segs, j, Own(segs, i, n))
  BY FlushedTells, AnswerParts, Zenon
<1> HIDE DEF errors, p
<1>3. StatusOK(b.pending.status, segs, i, n + 1)
  BY <1>0, <1>2, StatusGrows
<1>7. \A j \in errors : /\ ~Still(segs, j, n + 1)
                        /\ TellsError(p.errors[Rank(errors, j)], segs, j, Own(segs, i, n + 1))
  <2> SUFFICES ASSUME NEW j \in errors
               PROVE  /\ ~Still(segs, j, n + 1)
                      /\ TellsError(p.errors[Rank(errors, j)], segs, j, Own(segs, i, n + 1))
    OBVIOUS
  <2>1. j \in 1..n
    BY <1>1
  <2>2. ~Still(segs, j, n + 1)
    BY <2>1, StillGrows
  <2>3. TellsError(p.errors[Rank(errors, j)], segs, j, Own(segs, i, n + 1))
    BY <1>0, <1>2, <2>1, OtherErrorKept
  <2> QED
    BY <2>2, <2>3
<1>9. \A j \in errors :
        IF Still(segs, j, n + 1)
        THEN b.inError /\ TellsError(b.error, segs, j, Own(segs, i, n + 1))
        ELSE TellsError(b.pending.errors[Rank(errors, j)], segs, j, Own(segs, i, n + 1))
  BY <1>7, Zenon DEF p
<1> QED
  BY <1>1, <1>2, <1>3, <1>9, Zenon DEF Current, p

LEMMA CurrentDetails ==
  ASSUME NEW segs, NEW n \in Nat, NEW i \in 1..n, Latest(segs, i, n), segs[n + 1].tag = "AK4",
         NEW a \in AckRecords, a.inError, Current(a, segs, i, n), Ev(segs[n + 1], 1) \in Texts,
         NEW b, b.pending = a.pending, b.inError, b.error.position = a.error.position,
         b.error.elements = Append(a.error.elements, Ev(segs[n + 1], 1))
  PROVE  Current(b, segs, i, n + 1)
<1> DEFINE errors == Errors(segs, i, n)
<1>0. segs[n + 1].tag # "AK2" /\ segs[n + 1].tag # "AK3"
      /\ segs[n + 1].tag \notin {"AK5", "IK5"} /\ a.error \in ErrorRecords
  BY DEF AckRecords
<1>1. errors \in SUBSET (1..n) /\ Errors(segs, i, n + 1) = errors
  BY <1>0, ErrorsGrow
<1>2. \A j \in errors : j \in 1..n /\ (Still(segs, j, n + 1) <=> Still(segs, j, n))
  <2> SUFFICES ASSUME NEW j \in errors PROVE j \in 1..n /\ (Still(segs, j, n + 1) <=> Still(segs, j, n))
    OBVIOUS
  <2>1. j \in 1..n
    BY <1>1
  <2> QED
    BY <2>1, StillGrows
<1>3. StatusOK(a.pending.status, segs, i, n + 1)
  <2>1. StatusOK(a.pending.status, segs, i, n)
    BY Zenon DEF Current
  <2> QED
    BY <1>0, <2>1, StatusGrows
<1>4. \A j \in errors :
        IF Still(segs, j, n + 1)
        THEN b.inError /\ TellsError(b.error, segs, j, Own(segs, i, n + 1))
        ELSE TellsError(b.pending.errors[Rank(errors, j)], segs, j, Own(segs, i, n + 1))
  <2> SUFFICES ASSUME NEW j \in errors
      PROVE IF Still(segs, j, n)
            THEN TellsError(b.error, segs, j, Own(segs, i, n + 1))
            ELSE TellsError(a.pending.errors[Rank(errors, j)], segs, j, Own(segs, i, n + 1))
    BY <1>2, Zenon
  <2>0. j \in 1..n
    BY <1>2
  <2>1. CASE Still(segs, j, n)
    <3>1. TellsError(a.error, segs, j, Own(segs, i, n))
      BY <2>1, Zenon DEF Current
    <3>2. TellsError(b.error, segs, j, Own(segs, i, n + 1))
      BY <1>0, <2>0, <2>1, <3>1, OpenErrorGrows
    <3> QED
      BY <2>1, <3>2
  <2>2. CASE ~Still(segs, j, n)
    <3>1. TellsError(a.pending.errors[Rank(errors, j)], segs, j, Own(segs, i, n))
      BY <2>2, Zenon DEF Current
    <3>2. TellsError(a.pending.errors[Rank(errors, j)], segs, j, Own(segs, i, n + 1))
      BY <1>0, <2>0, <2>2, <3>1, OtherErrorKept
    <3> QED
      BY <2>2, <3>2
  <2> QED
    BY <2>1, <2>2
<1>5. /\ a.pending.control = Ev(segs[i], 2)
      /\ Len(a.pending.errors) + 1 = Cardinality(errors)
      /\ \E j \in errors : Still(segs, j, n)
  BY Zenon DEF Current
<1>6. \E j \in errors : Still(segs, j, n + 1)
  BY <1>2, <1>5, Zenon
<1> HIDE DEF errors
<1> QED
  BY <1>1, <1>3, <1>4, <1>5, <1>6, Zenon DEF Current

LEMMA CurrentStays ==
  ASSUME NEW segs, NEW n \in Nat, NEW i \in 1..n, Latest(segs, i, n),
         segs[n + 1].tag \notin {"AK2", "AK3", "AK5", "IK5"},
         NEW a \in AckRecords, ~(segs[n + 1].tag = "AK4" /\ a.inError), Current(a, segs, i, n)
  PROVE  Current(a, segs, i, n + 1)
<1> DEFINE errors == Errors(segs, i, n)
<1>0. segs[n + 1].tag # "AK2" /\ segs[n + 1].tag # "AK3"
      /\ segs[n + 1].tag \notin {"AK5", "IK5"}
  OBVIOUS
<1>1. errors \in SUBSET (1..n) /\ Errors(segs, i, n + 1) = errors
  BY <1>0, ErrorsGrow
<1>2. \A j \in errors : j \in 1..n /\ (Still(segs, j, n + 1) <=> Still(segs, j, n))
  <2> SUFFICES ASSUME NEW j \in errors PROVE j \in 1..n /\ (Still(segs, j, n + 1) <=> Still(segs, j, n))
    OBVIOUS
  <2>1. j \in 1..n
    BY <1>1
  <2> QED
    BY <2>1, StillGrows
<1>3. StatusOK(a.pending.status, segs, i, n + 1)
  <2>1. StatusOK(a.pending.status, segs, i, n)
    BY Zenon DEF Current
  <2> QED
    BY <1>0, <2>1, StatusGrows
<1>4. \A j \in errors :
        IF Still(segs, j, n + 1)
        THEN a.inError /\ TellsError(a.error, segs, j, Own(segs, i, n + 1))
        ELSE TellsError(a.pending.errors[Rank(errors, j)], segs, j, Own(segs, i, n + 1))
  <2> SUFFICES ASSUME NEW j \in errors
      PROVE IF Still(segs, j, n)
            THEN a.inError /\ TellsError(a.error, segs, j, Own(segs, i, n + 1))
            ELSE TellsError(a.pending.errors[Rank(errors, j)], segs, j, Own(segs, i, n + 1))
    BY <1>2, Zenon
  <2>0. j \in 1..n
    BY <1>2
  <2>3. ~(segs[n + 1].tag = "AK4" /\ Still(segs, j, n))
    BY Zenon DEF Current
  <2>1. CASE Still(segs, j, n)
    <3>1. a.inError /\ TellsError(a.error, segs, j, Own(segs, i, n))
      BY <2>1, Zenon DEF Current
    <3>2. TellsError(a.error, segs, j, Own(segs, i, n + 1))
      BY <1>0, <2>0, <2>3, <3>1, OtherErrorKept
    <3> QED
      BY <2>1, <3>1, <3>2
  <2>2. CASE ~Still(segs, j, n)
    <3>1. TellsError(a.pending.errors[Rank(errors, j)], segs, j, Own(segs, i, n))
      BY <2>2, Zenon DEF Current
    <3>2. TellsError(a.pending.errors[Rank(errors, j)], segs, j, Own(segs, i, n + 1))
      BY <1>0, <2>0, <2>3, <3>1, OtherErrorKept
    <3> QED
      BY <2>2, <3>2
  <2> QED
    BY <2>1, <2>2
<1>5. /\ a.pending.control = Ev(segs[i], 2)
      /\ a.inError => /\ Len(a.pending.errors) + 1 = Cardinality(errors)
                      /\ \E j \in errors : Still(segs, j, n)
      /\ ~a.inError => Len(a.pending.errors) = Cardinality(errors)
  BY Zenon DEF Current
<1>6. a.inError => \E j \in errors : Still(segs, j, n + 1)
  BY <1>2, <1>5, Zenon
<1> HIDE DEF errors
<1> QED
  BY <1>1, <1>3, <1>4, <1>5, <1>6, Zenon DEF Current

-----------------------------------------------------------------------------
(* What readAck has in hand after n segments: an answer for each AK2 but the *)
(* last, and the last one's pending.                                         *)
AckInv(a, segs, n) ==
  /\ a \in AckRecords
  /\ a.inTxn <=> Asked(segs, n) # {}
  /\ a.inError => a.inTxn
  /\ a.inTxn => Len(a.done) + 1 = Cardinality(Asked(segs, n))
  /\ ~a.inTxn => a.done = <<>>
  /\ \A i \in Asked(segs, n) :
       IF Latest(segs, i, n) THEN Current(a, segs, i, n)
       ELSE TellsAnswer(a.done[Rank(Asked(segs, n), i)], segs, i, n)

LEMMA FlushedTxn ==
  ASSUME NEW a \in AckRecords, a.inError => a.inTxn
  PROVE  /\ FlushTxn(a) \in AckRecords
         /\ FlushTxn(a).done = IF a.inTxn THEN Append(a.done, FlushError(a).pending) ELSE a.done
         /\ FlushTxn(a).pending = NoTxn
         /\ ~FlushTxn(a).inTxn
         /\ FlushTxn(a).error = NoError
         /\ ~FlushTxn(a).inError
<1>0. NoTxn \in AnswerRecords /\ NoError \in ErrorRecords
  BY ElementsAreTexts DEF NoTxn, NoError, AnswerRecords, ErrorRecords
<1> DEFINE f == FlushError(a)
<1>1. CASE a.inTxn
  <2>1. /\ f \in AckRecords /\ f.done = a.done /\ f.inTxn /\ f.error = NoError
        /\ f.inError = FALSE
    BY <1>1, FlushedError
  <2> DEFINE list == Append(f.done, f.pending)
  <2>2. list \in Seq(AnswerRecords)
    BY <2>1 DEF AckRecords
  <2>3. FlushTxn(a) = [f EXCEPT !.done = list, !.pending = NoTxn, !.inTxn = FALSE]
    BY <2>1, Zenon DEF FlushTxn
  <2> HIDE DEF f, list
  <2>4. /\ FlushTxn(a) \in AckRecords /\ FlushTxn(a).done = list
        /\ FlushTxn(a).pending = NoTxn /\ ~FlushTxn(a).inTxn
        /\ FlushTxn(a).error = NoError /\ ~FlushTxn(a).inError
    BY <1>0, <2>1, <2>2, <2>3 DEF AckRecords
  <2> QED
    BY <1>1, <2>1, <2>4, Zenon DEF f, list
<1>2. CASE ~a.inTxn
  <2>1. f = [a EXCEPT !.pending.errors = a.pending.errors, !.error = NoError, !.inError = FALSE]
    BY <1>2, Zenon DEF FlushError
  <2>2. /\ f \in AckRecords /\ f.done = a.done /\ ~f.inTxn /\ f.error = NoError
        /\ f.inError = FALSE
    BY <1>0, <1>2, <2>1 DEF AckRecords, AnswerRecords
  <2>3. FlushTxn(a) = [f EXCEPT !.done = f.done, !.pending = NoTxn, !.inTxn = FALSE]
    BY <2>2, Zenon DEF FlushTxn
  <2> HIDE DEF f
  <2>4. /\ FlushTxn(a) \in AckRecords /\ FlushTxn(a).done = a.done
        /\ FlushTxn(a).pending = NoTxn /\ ~FlushTxn(a).inTxn
        /\ FlushTxn(a).error = NoError /\ ~FlushTxn(a).inError
    BY <1>0, <2>2, <2>3 DEF AckRecords
  <2> QED
    BY <1>2, <2>4, Zenon
<1> QED
  BY <1>1, <1>2

LEMMA AckInvTells ==
  ASSUME NEW segs, NEW n \in Nat, NEW a, AckInv(a, segs, n)
  PROVE  /\ AckTree(a) \in Seq(AnswerRecords)
         /\ Tells(AckTree(a), segs, n)
<1> DEFINE asked == Asked(segs, n)
           last == FlushError(a).pending
           told == AckTree(a)
<1>0. asked \in SUBSET (1..n) /\ a \in AckRecords /\ (a.inError => a.inTxn)
      /\ (a.inTxn <=> asked # {})
  BY AskedGrows DEF AckInv
<1>1. told \in Seq(AnswerRecords) /\ told = IF a.inTxn THEN Append(a.done, last) ELSE a.done
  <2>1. FlushTxn(a) \in AckRecords
    BY <1>0, FlushedTxn
  <2>2. FlushTxn(a).done \in Seq(AnswerRecords)
    BY <2>1 DEF AckRecords
  <2> QED
    BY <1>0, <2>2, FlushedTxn, Zenon DEF AckTree
<1>2. CASE ~a.inTxn
  <2>1. asked = {} /\ told = <<>>
    BY <1>0, <1>1, <1>2 DEF AckInv
  <2>2. Len(told) = Cardinality(asked)
    BY <2>1, FS_EmptySet
  <2> QED
    BY <1>1, <2>1, <2>2, Zenon DEF Tells
<1>3. CASE a.inTxn
  <2>1. Len(a.done) + 1 = Cardinality(asked) /\ a.done \in Seq(AnswerRecords)
        /\ last \in AnswerRecords
    <3>1. FlushError(a) \in AckRecords
      BY <1>0, <1>3, FlushedError
    <3> QED
      BY <1>0, <1>3, <3>1 DEF AckInv, AckRecords
  <2> HIDE DEF last
  <2>2. /\ Len(Append(a.done, last)) = Len(a.done) + 1
        /\ \A k \in 1..Len(a.done) : Append(a.done, last)[k] = a.done[k]
        /\ Append(a.done, last)[Len(a.done) + 1] = last
    BY <2>1, ListGrows
  <2>3. told = Append(a.done, last)
    BY <1>1, <1>3, Zenon
  <2> HIDE DEF told, asked
  <2>4. \A i \in asked : TellsAnswer(told[Rank(asked, i)], segs, i, n)
    <3> SUFFICES ASSUME NEW i \in asked
                 PROVE  TellsAnswer(told[Rank(asked, i)], segs, i, n)
      OBVIOUS
    <3>0. i \in 1..n
      BY <1>0
    <3>1. CASE Latest(segs, i, n)
      <4>1. \A k \in asked : k <= i
        BY <3>1, LatestIsGreatest DEF asked
      <4>2. Rank(asked, i) = Len(a.done) + 1
        BY <1>0, <2>1, <4>1, RankFacts
      <4>3. Current(a, segs, i, n)
        BY <3>1, Zenon DEF AckInv, asked
      <4>4. TellsAnswer(last, segs, i, n)
        BY <1>0, <1>3, <3>0, <4>3, FlushedTells DEF last
      <4>5. told[Rank(asked, i)] = last
        BY <2>2, <2>3, <4>2, Zenon
      <4> QED
        BY <4>4, <4>5, Zenon
    <3>2. CASE ~Latest(segs, i, n)
      <4>1. ~\A k \in asked : k <= i
        BY <3>2, LatestIsGreatest DEF asked
      <4>2. PICK k \in asked : i < k
        BY <1>0, <4>1
      <4>3. /\ Rank(asked, i) \in 1..Cardinality(asked)
            /\ Rank(asked, k) \in 1..Cardinality(asked)
            /\ Rank(asked, i) < Rank(asked, k)
        BY <1>0, <4>2, RankFacts
      <4>4. Rank(asked, i) \in 1..Len(a.done)
        BY <2>1, <4>3
      <4>5. TellsAnswer(a.done[Rank(asked, i)], segs, i, n)
        BY <3>2, Zenon DEF AckInv, asked
      <4>6. told[Rank(asked, i)] = a.done[Rank(asked, i)]
        BY <2>2, <2>3, <4>4, Zenon
      <4> QED
        BY <4>5, <4>6, Zenon
    <3> QED
      BY <3>1, <3>2
  <2>5. Len(told) = Cardinality(asked)
    BY <2>1, <2>2, <2>3
  <2> QED
    BY <1>1, <2>4, <2>5, Zenon DEF Tells, asked, told
<1> QED
  BY <1>2, <1>3

LEMMA LatestGrowsToo ==
  ASSUME NEW segs, NEW n \in Nat, NEW i \in 1..n
  PROVE  /\ Latest(segs, i, n + 1) <=> Latest(segs, i, n) /\ segs[n + 1].tag # "AK2"
         /\ Latest(segs, n + 1, n + 1)
<1>1. \A l : l \in i + 1..n + 1 <=> l \in i + 1..n \/ l = n + 1
  OBVIOUS
<1>2. n + 1 + 1..n + 1 = {}
  OBVIOUS
<1> QED
  BY <1>1, <1>2, Zenon DEF Latest

LEMMA AnswerKept ==
  ASSUME NEW segs, NEW n \in Nat, NEW i \in 1..n,
         ~Latest(segs, i, n) \/ segs[n + 1].tag = "AK2",
         NEW t, TellsAnswer(t, segs, i, n)
  PROVE  TellsAnswer(t, segs, i, n + 1)
<1>1. Own(segs, i, n + 1) = Own(segs, i, n)
  BY OwnGrows
<1> QED
  BY <1>1, Zenon DEF TellsAnswer

LEMMA OthersStay ==
  ASSUME NEW segs, NEW n \in Nat, NEW a, AckInv(a, segs, n), segs[n + 1].tag # "AK2",
         NEW b \in AckRecords, b.done = a.done, b.inTxn <=> a.inTxn, b.inError => a.inTxn,
         \A i \in Asked(segs, n) : Latest(segs, i, n) => Current(b, segs, i, n + 1)
  PROVE  AckInv(b, segs, n + 1)
<1>1. Asked(segs, n + 1) = Asked(segs, n) /\ Asked(segs, n) \subseteq 1..n
  BY AskedGrows
<1>2. ASSUME NEW i \in Asked(segs, n)
      PROVE  IF Latest(segs, i, n + 1) THEN Current(b, segs, i, n + 1)
             ELSE TellsAnswer(a.done[Rank(Asked(segs, n), i)], segs, i, n + 1)
  <2>1. i \in 1..n
    BY <1>1
  <2>2. CASE Latest(segs, i, n)
    <3>1. Latest(segs, i, n + 1)
      BY <2>1, <2>2, LatestGrowsToo
    <3> QED
      BY <2>2, <3>1
  <2>3. CASE ~Latest(segs, i, n)
    <3>1. ~Latest(segs, i, n + 1)
      BY <2>1, <2>3, LatestGrowsToo
    <3>2. TellsAnswer(a.done[Rank(Asked(segs, n), i)], segs, i, n)
      BY <2>3, Zenon DEF AckInv
    <3>3. TellsAnswer(a.done[Rank(Asked(segs, n), i)], segs, i, n + 1)
      BY <2>1, <2>3, <3>2, AnswerKept
    <3> QED
      BY <3>1, <3>3
  <2> QED
    BY <2>2, <2>3
<1>3. /\ a.inTxn <=> Asked(segs, n) # {}
      /\ a.inTxn => Len(a.done) + 1 = Cardinality(Asked(segs, n))
      /\ ~a.inTxn => a.done = <<>>
  BY Zenon DEF AckInv
<1> QED
  BY <1>1, <1>2, <1>3, Zenon DEF AckInv

LEMMA AckAsks ==
  ASSUME NEW segs, NEW n \in Nat, NEW a, AckInv(a, segs, n), segs[n + 1].tag = "AK2",
         segs[n + 1] \in Segments
  PROVE  AckInv(AckSegment(a, segs[n + 1]), segs, n + 1)
<1> DEFINE asked == Asked(segs, n)
           more == Asked(segs, n + 1)
           told == AckTree(a)
           s == segs[n + 1]
           b == AckSegment(a, s)
           f == FlushTxn(a)
<1>1. asked \in SUBSET (1..n) /\ more = asked \cup {n + 1}
  BY AskedGrows
<1>2. told \in Seq(AnswerRecords) /\ Tells(told, segs, n)
  BY AckInvTells
<1>3. /\ f \in AckRecords /\ f.done = told /\ f.pending = NoTxn
      /\ f.error = NoError /\ ~f.inError
  <2>1. a \in AckRecords /\ (a.inError => a.inTxn)
    BY DEF AckInv
  <2> QED
    BY <2>1, FlushedTxn, Zenon DEF AckTree
<1>4. b = [f EXCEPT !.inTxn = TRUE, !.pending.control = Ev(s, 2)]
  BY DEF AckSegment
<1>5. Ev(s, 2) \in Texts /\ NoText \in Texts
  BY ElementsAreTexts
<1> HIDE DEF f, told
<1>6. /\ b \in AckRecords /\ b.done = told /\ b.inTxn /\ ~b.inError
      /\ b.pending.control = Ev(s, 2) /\ b.pending.status = NoText /\ b.pending.errors = <<>>
  <2> DEFINE asks == [control |-> Ev(s, 2), status |-> NoText, errors |-> <<>>]
  <2>1. f = [done |-> f.done, pending |-> f.pending, inTxn |-> f.inTxn, error |-> f.error,
             inError |-> f.inError]
        /\ NoError \in ErrorRecords
    BY <1>3 DEF AckRecords
  <2>2. [f.pending EXCEPT !.control = Ev(s, 2)] = asks
    BY <1>3 DEF NoTxn
  <2>3. b = [done |-> f.done, pending |-> asks, inTxn |-> TRUE, error |-> f.error,
             inError |-> f.inError]
    BY <1>4, <2>1, <2>2, Zenon
  <2>4. asks \in AnswerRecords /\ asks.control = Ev(s, 2) /\ asks.status = NoText
        /\ asks.errors = <<>>
    BY <1>5 DEF AnswerRecords
  <2> HIDE DEF asks, b
  <2>5. b \in AckRecords /\ b.done = told /\ b.inTxn /\ b.inError = f.inError /\ b.pending = asks
    BY <1>2, <1>3, <2>1, <2>3, <2>4 DEF AckRecords
  <2> QED
    BY <1>3, <2>4, <2>5
<1> HIDE DEF b, s, asked, more
<1>7. /\ Len(told) = Cardinality(asked)
      /\ \A i \in asked : TellsAnswer(told[Rank(asked, i)], segs, i, n)
  BY <1>2, Zenon DEF Tells, asked
<1>8. /\ Cardinality(more) = Cardinality(asked) + 1
      /\ \A i \in asked : Rank(more, i) = Rank(asked, i)
  BY <1>1, RankGrows
<1>9. ASSUME NEW i \in asked
      PROVE  ~Latest(segs, i, n + 1) /\ TellsAnswer(told[Rank(more, i)], segs, i, n + 1)
  <2>1. i \in 1..n
    BY <1>1
  <2>2. ~Latest(segs, i, n + 1)
    BY <2>1, LatestGrowsToo
  <2>3. TellsAnswer(told[Rank(asked, i)], segs, i, n + 1)
    BY <1>7, <2>1, AnswerKept
  <2> QED
    BY <1>8, <2>2, <2>3, Zenon
<1>10. Current(b, segs, n + 1, n + 1) /\ Latest(segs, n + 1, n + 1)
  <2>0. n + 1 + 1..n + 1 = {}
    OBVIOUS
  <2>1. Latest(segs, n + 1, n + 1)
    BY <2>0 DEF Latest
  <2>2. Own(segs, n + 1, n + 1) = {}
    BY <2>0 DEF Own
  <2>3. /\ Errors(segs, n + 1, n + 1) = {}
        /\ Tagged(segs, Own(segs, n + 1, n + 1), {"AK5", "IK5"}) = {}
    BY <2>2 DEF Errors, Tagged
  <2>4. StatusOK(b.pending.status, segs, n + 1, n + 1)
    BY <1>6, <2>3, Zenon DEF StatusOK
  <2>5. Len(b.pending.errors) = Cardinality(Errors(segs, n + 1, n + 1))
    BY <1>6, <2>3, FS_EmptySet
  <2> QED
    BY <1>6, <2>1, <2>3, <2>4, <2>5, Zenon DEF Current, s
<1>11. \A i \in more : IF Latest(segs, i, n + 1) THEN Current(b, segs, i, n + 1)
                       ELSE TellsAnswer(b.done[Rank(more, i)], segs, i, n + 1)
  <2>1. \A i \in more : i \in asked \/ i = n + 1
    BY <1>1
  <2> QED
    BY <1>6, <1>9, <1>10, <2>1, Zenon
<1>12. Len(b.done) + 1 = Cardinality(more) /\ more # {}
  BY <1>1, <1>6, <1>7, <1>8
<1> QED
  BY <1>6, <1>11, <1>12, Zenon DEF AckInv, b, s, more

LEMMA AckGoesOn ==
  ASSUME NEW segs, NEW n \in Nat, NEW a, AckInv(a, segs, n), segs[n + 1].tag # "AK2",
         segs[n + 1] \in Segments
  PROVE  AckInv(AckSegment(a, segs[n + 1]), segs, n + 1)
<1> DEFINE s == segs[n + 1]
           b == AckSegment(a, s)
           f == FlushError(a)
<1>0. /\ Ev(s, 1) \in Texts /\ Ev(s, 2) \in Texts
      /\ a \in AckRecords /\ (a.inError => a.inTxn)
      /\ \A i \in Asked(segs, n) : i \in 1..n /\ (Latest(segs, i, n) => Current(a, segs, i, n))
  BY ElementsAreTexts, AskedGrows DEF AckInv
<1>1. CASE s.tag = "AK3" /\ a.inTxn
  <2>1. b = [f EXCEPT !.inError = TRUE, !.error.position = Ev(s, 2)]
    BY <1>1 DEF AckSegment
  <2>2. f \in AckRecords /\ f.done = a.done /\ f.inTxn = a.inTxn /\ f.error = NoError
    BY <1>0, <1>1, FlushedError
  <2> HIDE DEF f
  <2>3. /\ b \in AckRecords /\ b.done = a.done /\ b.inTxn = a.inTxn /\ b.inError
        /\ b.pending = f.pending
        /\ b.error = [position |-> Ev(s, 2), elements |-> <<>>]
    <3> DEFINE opened == [position |-> Ev(s, 2), elements |-> <<>>]
    <3>1. [f.error EXCEPT !.position = Ev(s, 2)] = opened
      BY <2>2 DEF NoError
    <3>2. f = [done |-> f.done, pending |-> f.pending, inTxn |-> f.inTxn, error |-> f.error,
               inError |-> f.inError]
      BY <2>2 DEF AckRecords
    <3>3. b = [done |-> f.done, pending |-> f.pending, inTxn |-> f.inTxn, error |-> opened,
               inError |-> TRUE]
      BY <2>1, <3>1, <3>2, Zenon
    <3>4. opened \in ErrorRecords
      BY <1>0 DEF ErrorRecords
    <3> HIDE DEF opened, b
    <3>5. b \in AckRecords /\ b.done = f.done /\ b.inTxn = f.inTxn /\ b.inError
          /\ b.pending = f.pending /\ b.error = opened
      BY <2>2, <3>3, <3>4 DEF AckRecords
    <3> QED
      BY <2>2, <3>5 DEF opened
  <2>4. \A i \in Asked(segs, n) : Latest(segs, i, n) => Current(b, segs, i, n + 1)
    BY <1>0, <1>1, <2>3, CurrentOpens DEF f
  <2> QED
    BY <1>1, <2>3, <2>4, OthersStay
<1>2. CASE s.tag \in {"AK5", "IK5"} /\ a.inTxn
  <2>1. b = [f EXCEPT !.pending.status = Ev(s, 1)]
    BY <1>2 DEF AckSegment
  <2>2. f \in AckRecords /\ f.done = a.done /\ f.inTxn = a.inTxn /\ f.inError = FALSE
    BY <1>0, <1>2, FlushedError
  <2> HIDE DEF f
  <2>3. /\ b \in AckRecords /\ b.done = a.done /\ b.inTxn = a.inTxn /\ ~b.inError
        /\ b.pending.control = f.pending.control /\ b.pending.errors = f.pending.errors
        /\ b.pending.status = Ev(s, 1)
    BY <1>0, <2>1, <2>2 DEF AckRecords, AnswerRecords
  <2>4. \A i \in Asked(segs, n) : Latest(segs, i, n) => Current(b, segs, i, n + 1)
    BY <1>0, <1>2, <2>3, CurrentAnswers DEF f
  <2> QED
    BY <1>2, <2>3, <2>4, OthersStay
<1>3. CASE s.tag = "AK4" /\ a.inError
  <2> DEFINE list == Append(a.error.elements, Ev(s, 1))
  <2>1. b = [a EXCEPT !.error.elements = list]
    BY <1>3 DEF AckSegment
  <2>2. list \in Seq(Texts)
    BY <1>0 DEF AckRecords, ErrorRecords
  <2> HIDE DEF list
  <2>3. /\ b \in AckRecords /\ b.done = a.done /\ b.inTxn = a.inTxn /\ b.inError = a.inError
        /\ b.pending = a.pending /\ b.error.position = a.error.position
        /\ b.error.elements = list
    BY <1>0, <2>1, <2>2 DEF AckRecords, ErrorRecords
  <2>4. \A i \in Asked(segs, n) : Latest(segs, i, n) => Current(b, segs, i, n + 1)
    BY <1>0, <1>3, <2>3, CurrentDetails DEF list
  <2> QED
    BY <1>0, <1>3, <2>3, <2>4, OthersStay
<1>4. CASE /\ ~(s.tag = "AK3" /\ a.inTxn) /\ ~(s.tag \in {"AK5", "IK5"} /\ a.inTxn)
           /\ ~(s.tag = "AK4" /\ a.inError)
  <2>1. b = a
    BY <1>4 DEF AckSegment
  <2>2. \A i \in Asked(segs, n) : Latest(segs, i, n) => Current(a, segs, i, n + 1)
    <3> SUFFICES ASSUME NEW i \in Asked(segs, n), Latest(segs, i, n)
                 PROVE  Current(a, segs, i, n + 1)
      OBVIOUS
    <3>1. a.inTxn
      BY DEF AckInv
    <3>2. s.tag \notin {"AK2", "AK3", "AK5", "IK5"}
      BY <1>4, <3>1
    <3> QED
      BY <1>0, <1>4, <3>2, CurrentStays
  <2>3. AckInv(a, segs, n + 1)
    BY <1>0, <2>2, OthersStay
  <2> QED
    BY <2>1, <2>3, Zenon
<1> QED
  BY <1>1, <1>2, <1>3, <1>4

LEMMA AckBegins ==
  ASSUME NEW segs
  PROVE  AckInv(AckStart, segs, 0)
<1>1. NoTxn \in AnswerRecords /\ NoError \in ErrorRecords
  BY ElementsAreTexts DEF NoTxn, NoError, AnswerRecords, ErrorRecords
<1>2. /\ AckStart \in AckRecords /\ ~AckStart.inTxn /\ ~AckStart.inError
      /\ AckStart.done = <<>>
  BY <1>1 DEF AckStart, AckRecords
<1>3. Asked(segs, 0) = {}
  BY DEF Asked
<1> QED
  BY <1>2, <1>3, Zenon DEF AckInv

\* The acknowledgment that is being read.
AckOK ==
  /\ outcome # "done" => ackTxn = 0
  /\ ackTxn # 0 => /\ ackTxn \in DOMAIN txns
                   /\ ackAt \in 0..Len(txns[ackTxn].segments)
                   /\ AckInv(acked, txns[ackTxn].segments, ackAt)

LEMMA SegmentsOfATxn ==
  ASSUME ParserInv, NEW i \in DOMAIN txns
  PROVE  txns[i].segments \in Seq(Segments) /\ Len(txns[i].segments) \in Nat
<1>1. txns \in Seq(TxnRecords)
  BY DEF ParserInv, ReadTypes
<1>2. txns[i] \in TxnRecords
  BY <1>1
<1> QED
  BY <1>2 DEF TxnRecords

LEMMA AckSteps ==
  ASSUME ParserInv, AckOK, [ParserNext]_parserVars
  PROVE  AckOK'
<1>1. CASE Read \/ End
  <2>1. ackTxn = 0 /\ ackTxn' = ackTxn
    BY <1>1, Zenon DEF Read, End, ackVars, AckOK
  <2> QED
    BY <2>1 DEF AckOK
<1>2. CASE ReadAck
  <2>1. /\ outcome' = "done" /\ txns' = txns /\ ackAt' = 0 /\ acked' = AckStart
        /\ ackTxn' \in DOMAIN txns
    BY <1>2, Zenon DEF ReadAck, tree, InTree, Parsed
  <2>2. Len(txns[ackTxn'].segments) \in Nat
    BY <2>1, SegmentsOfATxn
  <2>3. AckInv(AckStart, txns[ackTxn'].segments, 0)
    BY AckBegins
  <2> QED
    BY <2>1, <2>2, <2>3 DEF AckOK
<1>3. CASE ReadAckSegment
  <2> DEFINE segs == txns[ackTxn].segments
             s == segs[ackAt + 1]
  <2>1. /\ outcome' = "done" /\ txns' = txns /\ ackTxn' = ackTxn /\ ackAt' = ackAt + 1
        /\ acked' = AckSegment(acked, s) /\ ackTxn # 0 /\ ackAt # Len(segs)
    BY <1>3, Zenon DEF ReadAckSegment, tree, Parsed, AckRead
  <2>2. ackTxn \in DOMAIN txns /\ ackAt \in 0..Len(segs) /\ AckInv(acked, segs, ackAt)
    BY <2>1, Zenon DEF AckOK
  <2>3. segs \in Seq(Segments)
    BY <2>2, SegmentsOfATxn
  <2> HIDE DEF segs
  <2>4. ackAt \in Nat /\ ackAt + 1 \in 0..Len(segs) /\ s \in Segments
    BY <2>1, <2>2, <2>3
  <2>5. AckInv(AckSegment(acked, s), segs, ackAt + 1)
    BY <2>2, <2>4, AckAsks, AckGoesOn
  <2>6. ackTxn' \in DOMAIN txns' /\ txns'[ackTxn'].segments = segs
    BY <2>1, <2>2 DEF segs
  <2> QED
    BY <2>1, <2>4, <2>5, <2>6, Zenon DEF AckOK
<1>4. CASE UNCHANGED parserVars
  BY <1>4 DEF parserVars, AckOK
<1> QED
  BY <1>1, <1>2, <1>3, <1>4 DEF ParserNext

(* Whatever the segments of an acknowledgment and their order, every answer   *)
(* and every error is told of the transaction it is about (readAck).          *)
THEOREM AcksAreToldAsSent == ParserSpec => []AckTreeFaithful
<1>1. ParserInit => ParserInv /\ AckOK
  BY ParserBegins DEF ParserInit, AckOK
<1>2. ParserInv /\ AckOK /\ [ParserNext]_parserVars => ParserInv' /\ AckOK'
  BY ParserSteps, AckSteps
<1>3. AckOK => AckTreeFaithful
  <2> SUFFICES ASSUME AckOK, AckRead
               PROVE  Tells(AckTree(acked), txns[ackTxn].segments, ackAt)
    BY Zenon DEF AckTreeFaithful
  <2>1. /\ AckInv(acked, txns[ackTxn].segments, ackAt)
        /\ ackAt \in Nat
    BY DEF AckOK, AckRead
  <2> QED
    BY <2>1, AckInvTells
<1> QED
  BY <1>1, <1>2, <1>3, PTL DEF ParserSpec
=============================================================================
