---------------------------- MODULE ConsoleProofs ----------------------------
(***************************************************************************)
(* Theorems about Console: for any tabs, partners, folders, interchange    *)
(* ids and drafts, and any number of saves, patches, typed drafts and      *)
(* mishaps.                                                                *)
(***************************************************************************)
EXTENDS Console, TLAPS

Saves   == [op : {"idle", "create", "update", "delete"}, id : PartnerIds \cup {NoRow},
            input : Inputs \cup {NoRow}, unseen : SUBSET PartnerIds]
Flights == [id : PartnerIds \cup {NewId}, state : {"sent", "checked", "done", "failed"},
            input : Inputs]

\* A request that is to write a row has an input that passed the validation.
Writes(s) == s.op \in {"create", "update"}

PartnersType ==
  /\ partner \in [PartnerIds -> Rows \cup {NoRow}]
  /\ save \in [Requests -> Saves]
  /\ \A a \in Requests : /\ save[a].op # "idle" => save[a].id \in PartnerIds
                         /\ save[a].op = "idle" => save[a] = Idle
                         /\ Writes(save[a]) => save[a].input \in Inputs /\ save[a].input.conn # "partial"

EditorType ==
  /\ list \in [Tabs -> [PartnerIds -> Rows \cup {NoRow}]]
  /\ editing \in [Tabs -> Editors \cup {None}]
  /\ baseline \in [Tabs -> Forms \cup {None}]
  /\ flight \in [Tabs -> Flights \cup {None}]

\* An open editor has a draft to be compared with.
HasBaseline == \A t \in Tabs : editing[t] # None => baseline[t] # None

\* The rows that share an id with what a request is about to write are those that
\* were written since its check.
Share(x, y) == x.send \cap y.send # {} \/ x.recv \cap y.recv # {}

MissedOnly == \A a \in Requests, j \in PartnerIds :
  Writes(save[a]) /\ j # save[a].id /\ partner[j] # NoRow /\ Share(save[a].input, partner[j])
  => j \in save[a].unseen
-----------------------------------------------------------------------------
(* The page.                                                               *)

LEMMA FormFacts ==
  /\ \A row \in Rows : FromRecord(row) \in Forms
  /\ \A d \in Forms : ToInput(d) \in Inputs
<1>1. ASSUME NEW row \in Rows PROVE FromRecord(row) \in Forms
  BY DEF Rows, Forms, FromRecord
<1>2. ASSUME NEW d \in Forms PROVE ToInput(d) \in Inputs
  BY DEF Forms, Inputs, ToInput
<1> QED
  BY <1>1, <1>2

LEMMA ShowType ==
  ASSUME EditorType, HasBaseline, NEW t \in Tabs, NEW e \in Editors \cup {None}, Show(t, e)
  PROVE  /\ editing' \in [Tabs -> Editors \cup {None}]
         /\ baseline' \in [Tabs -> Forms \cup {None}]
         /\ HasBaseline'
<1> DEFINE b == IF e = None THEN None
                ELSE IF editing[t] = None \/ editing[t].id # e.id THEN e.draft ELSE baseline[t]
<1>1. e # None => e.draft \in Forms
  BY DEF Editors
<1>2. b \in Forms \cup {None} /\ (e # None => b # None)
  <2>1. CASE e = None
    BY <2>1
  <2>2. CASE e # None /\ editing[t] = None
    <3>1. b = e.draft
      BY <2>2
    <3> HIDE DEF b
    <3> QED
      BY <1>1, <2>2, <3>1, EditorAssumption
  <2>3. CASE e # None /\ editing[t] # None
    BY <1>1, <2>3, EditorAssumption DEF EditorType, HasBaseline
  <2> QED
    BY <2>1, <2>2, <2>3
<1>3. editing' = [editing EXCEPT ![t] = e] /\ baseline' = [baseline EXCEPT ![t] = b]
  BY DEF Show
<1> HIDE DEF b
<1> QED
  BY <1>2, <1>3 DEF EditorType, HasBaseline

LEMMA AdvanceType ==
  ASSUME EditorType, NEW t \in Tabs, flight[t] # None,
         NEW s \in {"sent", "checked", "done", "failed"}, Advance(t, s)
  PROVE  flight' \in [Tabs -> Flights \cup {None}]
<1>1. [flight[t] EXCEPT !.state = s] \in Flights
  BY DEF EditorType, Flights
<1> QED
  BY <1>1 DEF EditorType, Advance

LEMMA PageTyped ==
  ASSUME PartnersType, EditorType, HasBaseline, NEW t \in Tabs, Page(t)
  PROVE  EditorType' /\ HasBaseline'
<1>1. ASSUME NEW d \in Forms, NEW i \in PartnerIds \cup {NewId}
      PROVE  [id |-> i, draft |-> d, opened |-> d] \in Editors
  BY DEF Editors
<1>2. EmptyDraft \in Forms /\ Drafts \subseteq Forms
  BY EditorAssumption
<1>3. CASE New(t)
  BY <1>1, <1>2, <1>3, ShowType DEF New, EditorType
<1>4. CASE Cancel(t)
  BY <1>4, ShowType DEF Cancel, EditorType
<1>5. CASE Leave(t)
  BY <1>5 DEF Leave, EditorType, HasBaseline, PartnersType
<1>6. CASE Refetch(t)
  BY <1>6 DEF Refetch, EditorType, HasBaseline, PartnersType
<1>7. CASE Submit(t)
  <2>1. editing[t] \in Editors
    BY <1>7 DEF Submit, EditorType
  <2>2. [id |-> editing[t].id, state |-> "sent", input |-> ToInput(editing[t].draft)] \in Flights
    BY <2>1, FormFacts DEF Editors, Flights
  <2> QED
    BY <1>7, <2>2 DEF Submit, EditorType, HasBaseline
<1>8. CASE Saved(t)
  BY <1>8, ShowType DEF Saved, EditorType
<1>9. CASE Failed(t)
  BY <1>9 DEF Failed, EditorType, HasBaseline
<1>10. ASSUME NEW d \in Drafts, Type(t, d) PROVE EditorType' /\ HasBaseline'
  <2>1. editing[t] \in Editors
    BY <1>10 DEF Type, EditorType
  <2>2. [editing[t] EXCEPT !.draft = d] \in Editors
    BY <1>2, <2>1 DEF Editors
  <2> QED
    BY <1>10, <2>2, ShowType DEF Type, EditorType
<1>11. ASSUME NEW i \in PartnerIds, Edit(t, i) PROVE EditorType' /\ HasBaseline'
  <2>1. list[t][i] \in Rows
    BY <1>11 DEF Edit, EditorType
  <2>2. FromRecord(list[t][i]) \in Forms
    BY <2>1, FormFacts
  <2> QED
    BY <1>1, <1>11, <2>2, ShowType DEF Edit, EditorType
<1>12. ASSUME NEW i \in PartnerIds, Delete(t, i) PROVE EditorType' /\ HasBaseline'
  BY <1>12 DEF Delete, pageVars, EditorType, HasBaseline
<1> QED
  BY <1>3, <1>4, <1>5, <1>6, <1>7, <1>8, <1>9, <1>10, <1>11, <1>12 DEF Page

LEMMA ServedTyped ==
  ASSUME EditorType, HasBaseline, NEW t \in Tabs, Served(t) \/ Written(t)
  PROVE  /\ EditorType' /\ HasBaseline'
         /\ UNCHANGED <<editing, baseline>>
<1>1. CASE Checked(t)
  BY <1>1, AdvanceType DEF Checked, Sent, EditorType, HasBaseline
<1>2. CASE Refused(t)
  BY <1>2, AdvanceType DEF Refused, Sent, EditorType, HasBaseline
<1>3. CASE Lost(t)
  BY <1>3, AdvanceType DEF Lost, EditorType, HasBaseline
<1>4. CASE Deleted(t)
  BY <1>4 DEF Deleted, pageVars, EditorType, HasBaseline
<1>5. CASE Written(t)
  BY <1>5, AdvanceType DEF Written, EditorType, HasBaseline
<1> QED
  BY <1>1, <1>2, <1>3, <1>4, <1>5 DEF Served
-----------------------------------------------------------------------------
(* The requests.                                                           *)

\* What a step does to the rows and to the requests.
Begins(a, op, i, input) ==
  /\ Begin(a, op, i, input)
  /\ IF op = "delete" THEN input = NoRow
     ELSE input \in Inputs /\ input.conn # "partial" /\ ~Overlaps(input, i)

Abandons == UNCHANGED <<partner, crossed>> /\ save' = [a \in Requests |-> Idle]

PartnersStep ==
  \/ \E a \in Requests, op \in {"create", "update", "delete"}, i \in PartnerIds,
        input \in Inputs \cup {NoRow} : Begins(a, op, i, input)
  \/ \E a \in Requests : Write(a)
  \/ Abandons
  \/ UNCHANGED <<partner, save, crossed>>

LEMMA CheckBegins ==
  ASSUME NEW a \in Requests, NEW i \in PartnerIds, NEW input \in Inputs,
         CheckCreate(a, i, input) \/ CheckUpdate(a, i, input)
  PROVE  PartnersStep
<1>1. input.conn # "partial" /\ ~Overlaps(input, i)
  BY DEF CheckCreate, CheckUpdate, Valid
<1>2. CASE CheckCreate(a, i, input)
  <2>1. Begins(a, "create", i, input)
    BY <1>1, <1>2 DEF CheckCreate, Begins
  <2> QED
    BY <2>1 DEF PartnersStep
<1>3. CASE CheckUpdate(a, i, input)
  <2>1. Begins(a, "update", i, input)
    BY <1>1, <1>3 DEF CheckUpdate, Begins
  <2> QED
    BY <2>1 DEF PartnersStep
<1> QED
  BY <1>2, <1>3

LEMMA NextActsOnPartners ==
  ASSUME PartnersType, EditorType, [Next]_vars
  PROVE  PartnersStep
<1>1. \A t \in Tabs, k \in {"save", "again", "delete"} : <<t, k>> \in Requests
  BY EditorAssumption
<1>2. ASSUME NEW t \in Tabs, Page(t) PROVE PartnersStep
  <2>1. ASSUME NEW i \in PartnerIds, Delete(t, i) PROVE PartnersStep
    <3>1. Begins(<<t, "delete">>, "delete", i, NoRow)
      BY <2>1 DEF Delete, CheckDelete, Begins
    <3> QED
      BY <1>1, <3>1 DEF PartnersStep
  <2>2. CASE UNCHANGED partnerVars
    BY <2>2 DEF partnerVars, PartnersStep
  <2> QED
    BY <1>2, <2>1, <2>2 DEF Page, New, Cancel, Leave, Refetch, Submit, Saved, Failed, Type, Edit
<1>3. ASSUME NEW t \in Tabs, Served(t) PROVE PartnersStep
  <2>1. CASE Checked(t)
    <3>1. flight[t] \in Flights
      BY <2>1 DEF Checked, Sent, EditorType
    <3>2. flight[t].input \in Inputs /\ (flight[t].id # NewId => flight[t].id \in PartnerIds)
      BY <3>1 DEF Flights
    <3> QED
      BY <1>1, <2>1, <3>2, CheckBegins DEF Checked
  <2>2. CASE Refused(t)
    BY <2>2 DEF Refused, partnerVars, PartnersStep
  <2>3. CASE Lost(t)
    BY <2>3 DEF Lost, PartnersStep
  <2>4. CASE Deleted(t)
    BY <1>1, <2>4 DEF Deleted, PartnersStep
  <2> QED
    BY <1>3, <2>1, <2>2, <2>3, <2>4 DEF Served
<1>4. ASSUME NEW t \in Tabs, Transaction(t) PROVE PartnersStep
  BY <1>1, <1>4 DEF Transaction, Written, Clicks, PartnersStep
<1>5. ASSUME NEW t \in Tabs, NEW k \in Clicks, WizardChecked(t, k) PROVE PartnersStep
  BY <1>1, <1>5, CheckBegins, SetupAssumption DEF WizardChecked, Clicks
<1>6. CASE WizardStep /\ UNCHANGED <<partnerVars, editorVars>>
  BY <1>6 DEF partnerVars, PartnersStep
<1>7. CASE UNCHANGED <<partner, save, crossed, saves, editorVars>>
  BY <1>7 DEF PartnersStep
<1>8. CASE Stop
  BY <1>8 DEF Stop, PartnersStep, Abandons
<1>9. CASE UNCHANGED vars
  BY <1>9 DEF vars, partnerVars, PartnersStep
<1> QED
  BY <1>2, <1>3, <1>4, <1>5, <1>6, <1>7, <1>8, <1>9 DEF Next

LEMMA EditorTyped ==
  ASSUME PartnersType, EditorType, HasBaseline, [Next]_vars
  PROVE  EditorType' /\ HasBaseline'
<1>1. ASSUME UNCHANGED editorVars PROVE EditorType' /\ HasBaseline'
  BY <1>1 DEF editorVars, EditorType, HasBaseline
<1>2. CASE \E t \in Tabs : ~InWizard(t) /\ Page(t) /\ UNCHANGED setupVars
  BY <1>2, PageTyped
<1>3. CASE \E t \in Tabs : Served(t) /\ UNCHANGED setupVars
  BY <1>3, ServedTyped
<1>4. CASE \E t \in Tabs : Transaction(t)
  BY <1>1, <1>4, ServedTyped DEF Transaction
<1>5. CASE Stop
  <2>1. \A t \in Tabs : flight[t] # None => [flight[t] EXCEPT !.state = "failed"] \in Flights
    BY DEF EditorType, Flights
  <2>2. flight' \in [Tabs -> Flights \cup {None}]
    BY <1>5, <2>1 DEF Stop
  <2> QED
    BY <1>5, <2>2 DEF Stop, EditorType, HasBaseline
<1>6. CASE UNCHANGED vars
  BY <1>1, <1>6 DEF vars
<1> QED
  BY <1>1, <1>2, <1>3, <1>4, <1>5, <1>6 DEF Next
-----------------------------------------------------------------------------
(* An interchange id is listed twice only where a check missed a write.    *)

OwnedInv == PartnersType /\ EditorType /\ HasBaseline /\ MissedOnly /\ IsaOwnedOnce

LEMMA BeginKeeps ==
  ASSUME PartnersType, MissedOnly, IsaOwnedOnce,
         NEW a \in Requests, NEW op \in {"create", "update", "delete"}, NEW i \in PartnerIds,
         NEW input \in Inputs \cup {NoRow}, Begins(a, op, i, input)
  PROVE  PartnersType' /\ MissedOnly' /\ IsaOwnedOnce'
<1> DEFINE s == [op |-> op, id |-> i, input |-> input, unseen |-> {}]
<1>1. save' = [save EXCEPT ![a] = s] /\ UNCHANGED <<partner, crossed>>
  BY DEF Begins, Begin
<1>2. s \in Saves
  BY DEF Saves
<1>3. Writes(s) => s.input \in Inputs /\ s.input.conn # "partial"
  BY DEF Writes, Begins
<1>4. ASSUME NEW j \in PartnerIds, Writes(s), j # i, partner[j] # NoRow
      PROVE  ~Share(s.input, partner[j])
  BY <1>4 DEF Writes, Begins, Overlaps, Share
<1>5. s.op # "idle" /\ s.id = i
  OBVIOUS
<1> HIDE DEF s
<1>6. PartnersType'
  BY <1>1, <1>2, <1>3, <1>5 DEF PartnersType
<1>7. MissedOnly'
  <2> SUFFICES ASSUME NEW b \in Requests, NEW j \in PartnerIds, Writes(save'[b]), j # save'[b].id,
                      partner[j] # NoRow, Share(save'[b].input, partner[j])
               PROVE  j \in save'[b].unseen
    BY <1>1 DEF MissedOnly
  <2>1. CASE b = a
    BY <1>1, <1>4, <1>5, <2>1 DEF PartnersType
  <2>2. CASE b # a
    BY <1>1, <2>2 DEF PartnersType, MissedOnly
  <2> QED
    BY <2>1, <2>2
<1> QED
  BY <1>1, <1>6, <1>7 DEF IsaOwnedOnce

LEMMA RowType ==
  ASSUME NEW old \in Rows \cup {NoRow}, NEW input \in Inputs, input.conn # "partial"
  PROVE  /\ Row(old, input) \in Rows
         /\ Row(old, input).send = input.send /\ Row(old, input).recv = input.recv
  BY DEF Row, Rows, Inputs

LEMMA WriteKeeps ==
  ASSUME PartnersType, MissedOnly, IsaOwnedOnce, NEW a \in Requests, Write(a)
  PROVE  PartnersType' /\ MissedOnly' /\ IsaOwnedOnce'
<1>1. PICK i : i = save[a].id
  OBVIOUS
<1>2. PICK row : row = IF save[a].op = "delete" THEN NoRow ELSE Row(partner[i], save[a].input)
  OBVIOUS
<1>3. save[a].op # "idle" /\ save[a] \in Saves /\ i \in PartnerIds
  BY <1>1 DEF Write, PartnersType, Saves
<1>4. save[a].op # "delete" => Writes(save[a])
  BY <1>3 DEF Saves, Writes
<1>5. row \in Rows \cup {NoRow}
  <2>1. partner[i] \in Rows \cup {NoRow}
    BY <1>3 DEF PartnersType
  <2> QED
    BY <1>2, <1>4, <2>1, RowType DEF PartnersType
<1>6. /\ partner' = IF Gone(a) THEN partner ELSE [partner EXCEPT ![i] = row]
      /\ crossed' = IF Gone(a) THEN crossed
                    ELSE {p \in crossed : i \notin p} \cup {{i, j} : j \in save[a].unseen}
      /\ save' = [b \in Requests |-> IF b = a \/ save[b] = Idle THEN Idle
                                     ELSE [save[b] EXCEPT !.unseen = @ \cup {i}]]
  BY <1>1, <1>2 DEF Write
<1>7. ASSUME NEW b \in Requests
      PROVE  \/ save'[b] = Idle
             \/ /\ b # a /\ save[b] # Idle /\ save[b] \in Saves /\ save'[b] \in Saves
                /\ save'[b].op = save[b].op /\ save'[b].id = save[b].id
                /\ save'[b].input = save[b].input /\ save'[b].unseen = save[b].unseen \cup {i}
  BY <1>3, <1>6 DEF PartnersType, Saves
<1>8. Idle \in Saves /\ ~Writes(Idle) /\ Idle.op = "idle"
  BY DEF Idle, Saves, Writes
<1>9. PartnersType'
  <2>1. partner' \in [PartnerIds -> Rows \cup {NoRow}]
    BY <1>3, <1>5, <1>6 DEF PartnersType
  <2>2. save' \in [Requests -> Saves]
    BY <1>6, <1>7, <1>8
  <2>3. ASSUME NEW b \in Requests
        PROVE  /\ save'[b].op # "idle" => save'[b].id \in PartnerIds
               /\ save'[b].op = "idle" => save'[b] = Idle
               /\ Writes(save'[b]) => save'[b].input \in Inputs /\ save'[b].input.conn # "partial"
    BY <1>7, <1>8 DEF PartnersType, Writes
  <2> QED
    BY <2>1, <2>2, <2>3 DEF PartnersType
<1>10. ASSUME NEW j \in PartnerIds, j # i PROVE partner'[j] = partner[j]
  BY <1>3, <1>6, <1>10 DEF PartnersType
<1>11. MissedOnly'
  <2> SUFFICES ASSUME NEW b \in Requests, NEW j \in PartnerIds, Writes(save'[b]), j # save'[b].id,
                      partner'[j] # NoRow, Share(save'[b].input, partner'[j])
               PROVE  j \in save'[b].unseen
    BY DEF MissedOnly
  <2>1. save'[b] # Idle
    BY <1>8
  <2>2. CASE j = i
    BY <1>7, <2>1, <2>2
  <2>3. CASE j # i
    BY <1>7, <1>10, <2>1, <2>3 DEF MissedOnly, Writes
  <2> QED
    BY <2>2, <2>3
<1>12. IsaOwnedOnce'
  <2> SUFFICES ASSUME NEW j \in PartnerIds, NEW k \in PartnerIds, j # k,
                      partner'[j] # NoRow, partner'[k] # NoRow, Share(partner'[j], partner'[k])
               PROVE  {j, k} \in crossed'
    BY DEF IsaOwnedOnce, Share
  <2>1. ASSUME NEW m \in PartnerIds, m # i, partner'[m] # NoRow, partner'[i] # NoRow,
               Share(partner'[i], partner'[m]), ~Gone(a)
        PROVE  {i, m} \in crossed'
    <3>1. partner'[i] = row /\ partner'[m] = partner[m]
      BY <1>3, <1>6, <1>10, <2>1 DEF PartnersType
    <3>2. save[a].op # "delete" /\ row = Row(partner[i], save[a].input)
      BY <1>2, <2>1, <3>1
    <3>3. Share(save[a].input, partner[m])
      <4>1. partner[i] \in Rows \cup {NoRow} /\ save[a].input \in Inputs /\ save[a].input.conn # "partial"
        BY <1>3, <1>4, <3>2 DEF PartnersType
      <4> QED
        BY <2>1, <3>1, <3>2, <4>1, RowType DEF Share
    <3>4. m \in save[a].unseen
      BY <1>1, <1>4, <2>1, <3>1, <3>2, <3>3 DEF MissedOnly
    <3> QED
      BY <1>6, <2>1, <3>4
  <2>2. Share(partner'[k], partner'[j])
    BY DEF Share
  <2>3. CASE Gone(a)
    BY <1>6, <2>3 DEF IsaOwnedOnce, Share
  <2>4. CASE ~Gone(a) /\ j = i
    BY <2>1, <2>4
  <2>5. CASE ~Gone(a) /\ k = i
    <3>1. {k, j} \in crossed'
      BY <2>1, <2>2, <2>5
    <3>2. {k, j} = {j, k}
      OBVIOUS
    <3> QED
      BY <3>1, <3>2
  <2>6. CASE ~Gone(a) /\ j # i /\ k # i
    <3>1. {j, k} \in crossed
      BY <1>10, <2>6 DEF IsaOwnedOnce, Share
    <3> QED
      BY <1>6, <2>6, <3>1
  <2> QED
    BY <2>3, <2>4, <2>5, <2>6
<1> QED
  BY <1>9, <1>11, <1>12

LEMMA OwnedInitially == Init => OwnedInv
<1> SUFFICES ASSUME Init PROVE OwnedInv
  OBVIOUS
<1>1. Idle \in Saves /\ ~Writes(Idle) /\ Idle.op = "idle"
  BY DEF Idle, Saves, Writes
<1>2. /\ partner \in [PartnerIds -> Rows \cup {NoRow}]
      /\ \A i, j \in PartnerIds : i # j => partner[i] = NoRow \/ partner[j] = NoRow
  BY PartnersAssumption DEF Init, PartnersInit
<1>3. PartnersType /\ MissedOnly
  BY <1>1, <1>2 DEF Init, PartnersInit, PartnersType, MissedOnly
<1>4. EditorType /\ HasBaseline
  BY DEF Init, EditorInit, EditorType, HasBaseline
<1> QED
  BY <1>2, <1>3, <1>4 DEF OwnedInv, IsaOwnedOnce

LEMMA OwnedStep == OwnedInv /\ [Next]_vars => OwnedInv'
<1> SUFFICES ASSUME OwnedInv, [Next]_vars PROVE OwnedInv'
  OBVIOUS
<1> USE DEF OwnedInv
<1>1. EditorType' /\ HasBaseline'
  BY EditorTyped
<1>2. PartnersStep
  BY NextActsOnPartners
<1>3. CASE Abandons
  <2>1. Idle \in Saves /\ ~Writes(Idle) /\ Idle.op = "idle"
    BY DEF Idle, Saves, Writes
  <2> QED
    BY <1>1, <1>3, <2>1 DEF Abandons, PartnersType, MissedOnly, IsaOwnedOnce
<1>4. CASE UNCHANGED <<partner, save, crossed>>
  BY <1>1, <1>4 DEF PartnersType, MissedOnly, IsaOwnedOnce
<1> QED
  BY <1>1, <1>2, <1>3, <1>4, BeginKeeps, WriteKeeps DEF PartnersStep

\* Two partners list one sender id, or one receiver id, only if one of them
\* was written between the check and the write of the other
\* (routes/partners-config.ts: assertNoIsaOverlap outside the transaction).
THEOREM IdsAreOwnedOnce == Spec => []IsaOwnedOnce
<1>1. OwnedInv => IsaOwnedOnce
  BY DEF OwnedInv
<1> QED
  BY <1>1, OwnedInitially, OwnedStep, PTL DEF Spec
-----------------------------------------------------------------------------
(* What was typed and not saved.                                           *)

\* What was typed in t goes, and why it may.
TypedGoes(t) == /\ editing[t] # None /\ editing[t].draft # editing[t].opened
            /\ \/ editing'[t] = None
               \/ editing'[t].opened # editing[t].opened
               \/ editing'[t].id # editing[t].id

Excused(t) == \/ agreed' = t \/ left' = t
              \/ flight[t] # None /\ flight[t].state = "done"
              \/ editing[t].draft = baseline[t]

LEMMA AskedFirst ==
  ASSUME HasBaseline, NEW t \in Tabs, editing[t] # None, Discarding(t)
  PROVE  Excused(t)
BY DEF HasBaseline, Discarding, Dirty, Excused

LEMMA PageExcused ==
  ASSUME PartnersType, EditorType, HasBaseline, NEW u \in Tabs, Page(u), NEW t \in Tabs, TypedGoes(t)
  PROVE  Excused(t)
<1>1. ASSUME NEW e, Show(u, e), t # u PROVE FALSE
  BY <1>1 DEF Show, TypedGoes, EditorType
<1>2. CASE New(u)
  BY <1>1, <1>2, AskedFirst DEF New, TypedGoes
<1>3. CASE Cancel(u)
  BY <1>1, <1>3, AskedFirst DEF Cancel, TypedGoes
<1>4. CASE Leave(u)
  BY <1>4 DEF Leave, TypedGoes, Excused, EditorType
<1>5. CASE Refetch(u) \/ Submit(u) \/ Failed(u)
  BY <1>5 DEF Refetch, Submit, Failed, TypedGoes
<1>6. CASE Saved(u)
  BY <1>1, <1>6 DEF Saved, Excused
<1>7. ASSUME NEW d \in Drafts, Type(u, d) PROVE Excused(t)
  <2>1. editing[u] \in Editors /\ [editing[u] EXCEPT !.draft = d] \in Editors
    BY <1>7, EditorAssumption DEF Type, EditorType, Editors
  <2>2. [editing[u] EXCEPT !.draft = d] # None
    BY <2>1, EditorAssumption
  <2>3. editing' = [editing EXCEPT ![u] = [editing[u] EXCEPT !.draft = d]]
    BY <1>7 DEF Type, Show
  <2>4. t = u
    BY <1>1, <1>7 DEF Type
  <2>5. editing'[u] = [editing[u] EXCEPT !.draft = d]
    BY <2>3 DEF EditorType
  <2>6. /\ editing'[u] # None
        /\ editing'[u].opened = editing[u].opened /\ editing'[u].id = editing[u].id
    BY <2>1, <2>2, <2>5 DEF Editors
  <2> QED
    BY <2>4, <2>6 DEF TypedGoes
<1>8. ASSUME NEW i \in PartnerIds, Edit(u, i) PROVE Excused(t)
  BY <1>1, <1>8, AskedFirst DEF Edit, TypedGoes
<1>9. ASSUME NEW i \in PartnerIds, Delete(u, i) PROVE Excused(t)
  BY <1>9 DEF Delete, pageVars, TypedGoes
<1> QED
  BY <1>2, <1>3, <1>4, <1>5, <1>6, <1>7, <1>8, <1>9 DEF Page

LEMMA NothingElseExcused ==
  ASSUME PartnersType, EditorType, HasBaseline, [Next]_vars, NEW t \in Tabs, TypedGoes(t)
  PROVE  Excused(t)
<1>1. ~UNCHANGED editing
  BY DEF TypedGoes
<1>2. CASE \E u \in Tabs : ~InWizard(u) /\ Page(u) /\ UNCHANGED setupVars
  BY <1>2, PageExcused
<1>3. CASE \E u \in Tabs : Served(u) /\ UNCHANGED setupVars
  BY <1>1, <1>3, ServedTyped
<1>4. CASE \E u \in Tabs : Transaction(u)
  BY <1>1, <1>4, ServedTyped DEF Transaction, editorVars
<1>5. CASE Stop
  BY <1>1, <1>5 DEF Stop
<1>6. CASE UNCHANGED editorVars \/ UNCHANGED vars
  BY <1>1, <1>6 DEF vars, editorVars
<1> QED
  BY <1>2, <1>3, <1>4, <1>5, <1>6 DEF Next

\* What was typed and not saved goes unasked only with the page, with the
\* success of a save that this tab sent, or when it equals the draft
\* remembered from an earlier opening (PartnersConfigPage.tsx:
\* confirmDiscard, the baseline effect, onSuccess).
THEOREM DraftsAreLostOnlyToSaves == Spec => LostOnlyToSave
<1>1. ASSUME OwnedInv, [Next]_vars
      PROVE  [\A t \in Tabs :
                (/\ editing[t] # None /\ editing[t].draft # editing[t].opened
                 /\ \/ editing'[t] = None
                    \/ editing'[t].opened # editing[t].opened
                    \/ editing'[t].id # editing[t].id)
                => \/ agreed' = t \/ left' = t
                   \/ flight[t] # None /\ flight[t].state = "done"
                   \/ editing[t].draft = baseline[t]]_EditorVars
  BY <1>1, NothingElseExcused DEF OwnedInv, TypedGoes, Excused
<1> QED
  BY <1>1, OwnedInitially, OwnedStep, PTL DEF Spec, LostOnlyToSave
-----------------------------------------------------------------------------
(* Setup.                                                                  *)

Pages   == [step : 0..4, verified : BOOLEAN]
Patches == [what : {"folder", "finish"}, folder : Folders \cup {NoFolder},
            state : {"sent", "ensuring", "done", "failed"}]
Phases  == {"none", "ours", "create", "checked", "created"}

SetupType ==
  /\ hub \in [folder : Folders \cup {NoFolder}, verified : BOOLEAN, complete : BOOLEAN]
  /\ {ours, made, torn, overlapped} \subseteq BOOLEAN
  /\ wizard \in [WizardTabs -> Pages \cup {NoWizard}]
  /\ patch \in [WizardTabs -> Patches \cup {NoPatch}]
  /\ click \in [WizardTabs -> [Clicks -> Phases]]
  /\ ensure \in [WizardTabs -> Ensures \cup {NoEnsure}]
  /\ channel \in Channels \cup {NoChannel} /\ live \subseteq Channels /\ unclosed \subseteq Channels
  /\ patches \in Nat

\* What a step does to the setup.
ClickStep(t, k) ==
  \/ SavePartner(t, k) \/ OursSaved(t, k) \/ WizardCreated(t, k)
  \/ click[t][k] = "create" /\ Phase(t, k, "checked") /\ UNCHANGED made
  \/ click[t][k] = "checked" /\ WizardWritten(t, k)
  \/ Phase(t, k, "none") /\ UNCHANGED made

PageStep(t) ==
  \/ Forward(t) \/ Back(t) \/ FinishWizard(t) \/ (\E f \in Folders : SaveDropFolder(t, f))
  \/ PatchAnswered(t) \/ SetupRefetched(t) \/ PatchLost(t) \/ Reload(t)

ServerStep(t) == VerifyAuth(t) \/ PatchSetup(t) \/ (\E ok \in BOOLEAN : CloseOld(t, ok) \/ StartNew(t, ok))

SetupStep == \/ \E t \in WizardTabs : \/ PageStep(t) \/ ServerStep(t)
                                     \/ \E k \in Clicks : ClickStep(t, k)
             \/ Restart \/ TornWrite
             \/ UNCHANGED setupVars

LEMMA NextActsOnSetup == [Next]_vars => SetupStep
<1> SUFFICES ASSUME [Next]_vars PROVE SetupStep
  OBVIOUS
<1>1. CASE \E t \in Tabs : Transaction(t)
  BY <1>1, ConsoleAssumption DEF Transaction, SetupStep, ClickStep
<1>2. CASE \E t \in Tabs, k \in Clicks : WizardChecked(t, k)
  BY <1>2, ConsoleAssumption DEF WizardChecked, SetupStep, ClickStep
<1>3. CASE WizardStep
  BY <1>3 DEF WizardStep, WizardRefused, SetupStep, PageStep, ServerStep, ClickStep
<1>4. CASE WizardMishap \/ \E t \in Tabs, ok \in BOOLEAN : CloseOld(t, ok) \/ StartNew(t, ok)
  BY <1>4, ConsoleAssumption DEF WizardMishap, ClickLost, SetupStep, PageStep, ServerStep, ClickStep
<1>5. CASE Stop
  BY <1>5 DEF Stop, SetupStep
<1>6. CASE UNCHANGED setupVars \/ UNCHANGED vars
  BY <1>6 DEF vars, SetupStep
<1> QED
  BY <1>1, <1>2, <1>3, <1>4, <1>5, <1>6 DEF Next

LEMMA GotoType ==
  ASSUME SetupType, NEW t \in WizardTabs, NEW n \in 0..4, Goto(t, n)
  PROVE  /\ wizard' \in [WizardTabs -> Pages \cup {NoWizard}]
         /\ \A u \in WizardTabs : u # t => wizard'[u] = wizard[u]
         /\ wizard'[t] # NoWizard => /\ wizard[t] # NoWizard
                                     /\ wizard'[t].step = n
                                     /\ wizard'[t].verified = wizard[t].verified
<1>1. CASE wizard[t] = NoWizard
  BY <1>1 DEF Goto, SetupType
<1>2. CASE wizard[t] # NoWizard
  <2>1. wizard[t] \in Pages
    BY <1>2 DEF SetupType
  <2>2. PICK w : w = [wizard[t] EXCEPT !.step = n]
    OBVIOUS
  <2>3. w \in Pages /\ w.step = n /\ w.verified = wizard[t].verified
    BY <2>1, <2>2 DEF Pages
  <2>4. wizard' = [wizard EXCEPT ![t] = w]
    BY <1>2, <2>2 DEF Goto
  <2> QED
    BY <1>2, <2>3, <2>4 DEF SetupType
<1> QED
  BY <1>1, <1>2

LEMMA ServeType ==
  ASSUME SetupType, NEW t \in WizardTabs, patch[t] # NoPatch,
         NEW s \in {"sent", "ensuring", "done", "failed"}, patch' = [patch EXCEPT ![t].state = s]
  PROVE  /\ patch' \in [WizardTabs -> Patches \cup {NoPatch}]
         /\ \A u \in WizardTabs : u # t => patch'[u] = patch[u]
         /\ patch'[t].what = patch[t].what /\ patch'[t].folder = patch[t].folder
         /\ patch'[t].state = s
<1>1. patch[t] \in Patches
  BY DEF SetupType
<1>2. PICK p : p = [patch[t] EXCEPT !.state = s]
  OBVIOUS
<1>3. p \in Patches /\ p.what = patch[t].what /\ p.folder = patch[t].folder /\ p.state = s
  BY <1>1, <1>2 DEF Patches
<1>4. patch' = [patch EXCEPT ![t] = p]
  BY <1>2
<1> QED
  BY <1>3, <1>4 DEF SetupType

LEMMA ClickType ==
  ASSUME SetupType, NEW t \in WizardTabs, NEW k \in Clicks, NEW p \in Phases,
         click' = [click EXCEPT ![t][k] = p]
  PROVE  /\ click' \in [WizardTabs -> [Clicks -> Phases]]
         /\ click'[t][k] = p
         /\ \A u \in WizardTabs, j \in Clicks :
              u # t \/ j # k => click'[u][j] = click[u][j]
BY DEF SetupType
LEMMA PageTypes ==
  ASSUME SetupType, NEW t \in WizardTabs, PageStep(t)
  PROVE  SetupType'
<1>1. CASE Forward(t)
  BY <1>1, GotoType DEF Forward, configVars, channelVars, SetupType
<1>2. CASE Back(t)
  BY <1>2, GotoType DEF Back, configVars, channelVars, SetupType
<1>3. ASSUME NEW what \in {"folder", "finish"}, NEW f \in Folders \cup {NoFolder}, Ask(t, what, f)
      PROVE  SetupType'
  <2>1. [what |-> what, folder |-> f, state |-> "sent"] \in Patches
    BY DEF Patches
  <2> QED
    BY <1>3, <2>1 DEF Ask, configVars, channelVars, SetupType
<1>4. CASE PatchAnswered(t)
  BY <1>4, GotoType DEF PatchAnswered, configVars, channelVars, SetupType
<1>5. CASE SetupRefetched(t)
  BY <1>5 DEF SetupRefetched, configVars, channelVars, SetupType
<1>6. CASE PatchLost(t)
  BY <1>6, ServeType DEF PatchLost, Serve, configVars, channelVars, SetupType
<1>7. CASE Reload(t)
  <2>1. FirstPage \in Pages /\ [k \in Clicks |-> "none"] \in [Clicks -> Phases]
    BY DEF FirstPage, Pages, Phases
  <2> QED
    BY <1>7, <2>1 DEF Reload, configVars, channelVars, SetupType
<1> QED
  BY <1>1, <1>2, <1>3, <1>4, <1>5, <1>6, <1>7 DEF PageStep, FinishWizard, SaveDropFolder

LEMMA ServerTypes ==
  ASSUME SetupType, NEW t \in WizardTabs, ServerStep(t)
  PROVE  SetupType'
<1>1. CASE VerifyAuth(t)
  <2>1. wizard[t] \in Pages
    BY <1>1 DEF VerifyAuth, At, SetupType
  <2>2. [wizard[t] EXCEPT !.verified = TRUE] \in Pages
    BY <2>1 DEF Pages
  <2>3. wizard' \in [WizardTabs -> Pages \cup {NoWizard}]
    BY <1>1, <2>2 DEF VerifyAuth, SetupType
  <2> QED
    BY <1>1, <2>3 DEF VerifyAuth, channelVars, SetupType
<1>2. CASE PatchSetup(t)
  <2>1. patch[t] \in Patches
    BY <1>2 DEF PatchSetup, SetupType
  <2>2. PICK h : h = IF patch[t].what = "folder" THEN [hub EXCEPT !.folder = patch[t].folder]
                     ELSE [hub EXCEPT !.complete = TRUE]
    OBVIOUS
  <2>3. h \in [folder : Folders \cup {NoFolder}, verified : BOOLEAN, complete : BOOLEAN]
    BY <2>1, <2>2 DEF Patches, SetupType
  <2>4. /\ hub' = h
        /\ IF h.complete /\ h.folder # NoFolder
           THEN BeginEnsure(t, h.folder) /\ Serve(t, "ensuring")
           ELSE UNCHANGED channelVars /\ Serve(t, "done")
        /\ UNCHANGED <<ours, made, torn, wizard, click, patches>>
    BY <1>2, <2>2 DEF PatchSetup
  <2>5. patch' \in [WizardTabs -> Patches \cup {NoPatch}]
    BY <1>2, <2>4, ServeType DEF PatchSetup, Serve
  <2>6. CASE h.complete /\ h.folder # NoFolder
    <3>1. BeginEnsure(t, h.folder)
      BY <2>4, <2>6
    <3>2. [folder |-> h.folder, old |-> channel, closed |-> FALSE] \in Ensures
      BY <2>3, <2>6 DEF Ensures, SetupType
    <3>3. overlapped' \in BOOLEAN
      BY <3>1 DEF BeginEnsure
    <3>4. ensure' \in [WizardTabs -> Ensures \cup {NoEnsure}] /\ UNCHANGED <<channel, live, unclosed>>
      BY <3>1, <3>2 DEF BeginEnsure, SetupType
    <3> QED
      BY <2>3, <2>4, <2>5, <3>3, <3>4 DEF SetupType
  <2>7. CASE ~(h.complete /\ h.folder # NoFolder)
    BY <2>3, <2>4, <2>5, <2>7 DEF channelVars, SetupType
  <2> QED
    BY <2>6, <2>7
<1>3. ASSUME NEW ok \in BOOLEAN, CloseOld(t, ok) PROVE SetupType'
  <2>1. ensure[t] \in Ensures
    BY <1>3 DEF CloseOld, SetupType
  <2>2. [ensure[t] EXCEPT !.closed = TRUE] \in Ensures
    BY <2>1 DEF Ensures
  <2>3. ensure' \in [WizardTabs -> Ensures \cup {NoEnsure}]
    BY <1>3, <2>2 DEF CloseOld, SetupType
  <2>4. live' \subseteq Channels /\ unclosed' \subseteq Channels
    BY <1>3, <2>1 DEF CloseOld, Ensures, SetupType
  <2> QED
    BY <1>3, <2>3, <2>4 DEF CloseOld, configVars, SetupType
<1>4. ASSUME NEW ok \in BOOLEAN, StartNew(t, ok) PROVE SetupType'
  <2>1. ensure[t] \in Ensures
    BY <1>4 DEF StartNew, SetupType
  <2>2. [by |-> t, nth |-> patches, folder |-> ensure[t].folder] \in Channels
    BY <2>1 DEF Ensures, Channels, SetupType
  <2>3. channel' \in Channels \cup {NoChannel} /\ live' \subseteq Channels
    BY <1>4, <2>2 DEF StartNew, SetupType
  <2>4. patch' \in [WizardTabs -> Patches \cup {NoPatch}]
    BY <1>4, ServeType DEF StartNew, SetupType
  <2> QED
    BY <1>4, <2>3, <2>4 DEF StartNew, configVars, SetupType
<1> QED
  BY <1>1, <1>2, <1>3, <1>4 DEF ServerStep

LEMMA BootTypes ==
  ASSUME SetupType, NEW h, Boot(h), torn' \in BOOLEAN,
         h \in [folder : Folders \cup {NoFolder}, verified : BOOLEAN, complete : BOOLEAN]
  PROVE  SetupType'
<1>1. h.complete /\ h.folder # NoFolder => [by |-> "boot", nth |-> 0, folder |-> h.folder] \in Channels
  BY DEF Channels
<1>2. channel' \in Channels \cup {NoChannel} /\ live' \subseteq Channels /\ unclosed' \subseteq Channels
  BY <1>1 DEF Boot
<1>3. \A t \in WizardTabs : patch[t] # NoPatch => [patch[t] EXCEPT !.state = "failed"] \in Patches
  BY DEF SetupType, Patches
<1>4. patch' \in [WizardTabs -> Patches \cup {NoPatch}]
  BY <1>3 DEF Boot
<1>5. click' \in [WizardTabs -> [Clicks -> Phases]]
  BY DEF Boot, Phases
<1> QED
  BY <1>2, <1>4, <1>5 DEF Boot, SetupType

LEMMA ClickTypes ==
  ASSUME SetupType, NEW t \in WizardTabs, NEW k \in Clicks, ClickStep(t, k)
  PROVE  SetupType'
<1>1. ASSUME NEW p \in Phases, click' = [click EXCEPT ![t][k] = p],
             {ours', made'} \subseteq BOOLEAN, wizard' \in [WizardTabs -> Pages \cup {NoWizard}],
             UNCHANGED <<hub, torn, patch, channelVars, patches>>
      PROVE  SetupType'
  BY <1>1, ClickType DEF channelVars, SetupType
<1> USE DEF Phases
<1>2. CASE SavePartner(t, k)
  BY <1>1, <1>2 DEF SavePartner, configVars, SetupType
<1>3. CASE OursSaved(t, k)
  BY <1>1, <1>3 DEF OursSaved, SetupType
<1>4. CASE WizardCreated(t, k)
  BY <1>1, <1>4, GotoType DEF WizardCreated, configVars, SetupType
<1>5. ASSUME NEW p \in Phases, Phase(t, k, p), made' \in BOOLEAN PROVE SetupType'
  BY <1>1, <1>5 DEF Phase, SetupType
<1>6. CASE click[t][k] = "checked" /\ WizardWritten(t, k)
  BY <1>5, <1>6 DEF WizardWritten
<1> QED
  BY <1>2, <1>3, <1>4, <1>5, <1>6 DEF ClickStep, SetupType

LEMMA SetupTyped ==
  ASSUME SetupType, SetupStep
  PROVE  SetupType'
<1>1. CASE Restart
  BY <1>1, BootTypes DEF Restart, SetupType
<1>2. CASE TornWrite
  BY <1>2, BootTypes DEF TornWrite, BlankHub
<1>3. CASE UNCHANGED setupVars
  BY <1>3 DEF setupVars, SetupType
<1> QED
  BY <1>1, <1>2, <1>3, PageTypes, ServerTypes, ClickTypes DEF SetupStep
-----------------------------------------------------------------------------
(* What a page, a request or a click of the wizard stands for.             *)

Known  == torn \/ hub.verified
Placed == torn \/ hub.folder # NoFolder

PageEarned(w) ==
  w # NoWizard => /\ w.verified \/ w.step \in 2..4 => Known
                  /\ w.step \in 3..4 => Placed
                  /\ w.step = 4 => ours /\ made

PatchEarned(p) ==
  p # NoPatch => /\ Known
                 /\ p.what = "folder" => p.folder \in Folders
                 /\ p.what = "finish" \/ p.state \in {"done", "ensuring"} => Placed
                 /\ p.what = "finish" => ours /\ made

ClickEarned(c) == /\ c # "none" => Known /\ Placed
                  /\ c \in {"create", "checked", "created"} => ours
                  /\ c = "created" => made

Earned == \A t \in WizardTabs : /\ PageEarned(wizard[t]) /\ PatchEarned(patch[t])
                                /\ \A k \in Clicks : ClickEarned(click[t][k])

\* What a step does not take back.
Firm == /\ ours => ours'
        /\ made => made'
        /\ Known => Known'
        /\ Placed => Placed'

LEMMA StillEarned ==
  ASSUME Firm
  PROVE  /\ \A w : PageEarned(w) => PageEarned(w)'
         /\ \A p : PatchEarned(p) => PatchEarned(p)'
         /\ \A c : ClickEarned(c) => ClickEarned(c)'
<1>1. ASSUME NEW w, PageEarned(w) PROVE PageEarned(w)'
  BY <1>1 DEF Firm, PageEarned, Known, Placed
<1>2. ASSUME NEW p, PatchEarned(p) PROVE PatchEarned(p)'
  BY <1>2 DEF Firm, PatchEarned, Known, Placed
<1>3. ASSUME NEW c, ClickEarned(c) PROVE ClickEarned(c)'
  BY <1>3 DEF Firm, ClickEarned, Known, Placed
<1> QED
  BY <1>1, <1>2, <1>3

LEMMA SafeIsFirm ==
  ASSUME SetupType, SetupType', Earned, SetupStep
  PROVE  Firm
<1>1. ASSUME UNCHANGED <<hub, torn>>, ours => ours', made => made' PROVE Firm
  BY <1>1 DEF Firm, Known, Placed
<1>2. CASE Restart
  BY <1>1, <1>2 DEF Restart, Boot
<1>3. CASE TornWrite
  BY <1>3 DEF TornWrite, Boot, Firm, Known, Placed
<1>4. CASE UNCHANGED setupVars
  BY <1>1, <1>4 DEF setupVars
<1>5. ASSUME NEW t \in WizardTabs, PageStep(t) PROVE Firm
  BY <1>1, <1>5 DEF PageStep, Forward, Back, FinishWizard, SaveDropFolder, Ask, PatchAnswered,
                    SetupRefetched, PatchLost, Reload, configVars
<1>6. ASSUME NEW t \in WizardTabs, NEW k \in Clicks, ClickStep(t, k) PROVE Firm
  BY <1>1, <1>6 DEF ClickStep, SavePartner, OursSaved, WizardCreated, WizardWritten, Phase, configVars
<1>7. ASSUME NEW t \in WizardTabs, ServerStep(t) PROVE Firm
  <2>1. CASE VerifyAuth(t)
    BY <2>1 DEF VerifyAuth, Firm, Known, Placed, SetupType
  <2>2. CASE PatchSetup(t)
    <3>1. PatchEarned(patch[t]) /\ patch[t] # NoPatch
      BY <2>2 DEF PatchSetup, Earned
    <3>2. CASE patch[t].what = "folder"
      <4>1. patch[t].folder \in Folders
        BY <3>1, <3>2 DEF PatchEarned
      <4>2. hub' = [hub EXCEPT !.folder = patch[t].folder] /\ UNCHANGED <<ours, made, torn>>
        BY <2>2, <3>2 DEF PatchSetup
      <4>3. hub'.folder # NoFolder /\ hub'.verified = hub.verified
        BY <4>1, <4>2, SetupAssumption DEF SetupType
      <4> QED
        BY <4>2, <4>3 DEF Firm, Known, Placed
    <3>3. CASE patch[t].what # "folder"
      BY <2>2, <3>3 DEF PatchSetup, Firm, Known, Placed, SetupType
    <3> QED
      BY <3>2, <3>3
  <2>3. CASE \E ok \in BOOLEAN : CloseOld(t, ok) \/ StartNew(t, ok)
    BY <1>1, <2>3 DEF CloseOld, StartNew, configVars
  <2> QED
    BY <1>7, <2>1, <2>2, <2>3 DEF ServerStep
<1> QED
  BY <1>2, <1>3, <1>4, <1>5, <1>6, <1>7 DEF SetupStep
LEMMA EarnedStep ==
  ASSUME SetupType, SetupType', Earned, SetupStep
  PROVE  Earned'
<1>1. Firm
  BY SafeIsFirm
<1>2. ASSUME NEW t \in WizardTabs
      PROVE  /\ PageEarned(wizard[t])' \/ wizard'[t] # wizard[t]
             /\ PatchEarned(patch[t])' \/ patch'[t] # patch[t]
             /\ \A k \in Clicks : ClickEarned(click[t][k])' \/ click'[t][k] # click[t][k]
  <2>1. PageEarned(wizard[t]) /\ PatchEarned(patch[t]) /\ \A k \in Clicks : ClickEarned(click[t][k])
    BY DEF Earned
  <2>2. ASSUME wizard'[t] = wizard[t] PROVE PageEarned(wizard[t])'
    BY <1>1, <2>1, <2>2 DEF Firm, PageEarned, Known, Placed
  <2>3. ASSUME patch'[t] = patch[t] PROVE PatchEarned(patch[t])'
    BY <1>1, <2>1, <2>3 DEF Firm, PatchEarned, Known, Placed
  <2>4. ASSUME NEW k \in Clicks, click'[t][k] = click[t][k] PROVE ClickEarned(click[t][k])'
    BY <1>1, <2>1, <2>4 DEF Firm, ClickEarned, Known, Placed
  <2> QED
    BY <2>2, <2>3, <2>4
\* A page, an answer and a click that a step changes.
<1> DEFINE Turned == \A t \in WizardTabs : wizard'[t] # wizard[t] => PageEarned(wizard[t])'
           Asked == \A t \in WizardTabs : patch'[t] # patch[t] => PatchEarned(patch[t])'
           Clicked == \A t \in WizardTabs, k \in Clicks :
                        click'[t][k] # click[t][k] => ClickEarned(click[t][k])'
<1>3. Turned /\ Asked /\ Clicked => Earned'
  BY <1>2 DEF Earned
<1>4. UNCHANGED wizard => Turned
  OBVIOUS
<1>5. UNCHANGED patch => Asked
  OBVIOUS
<1>6. UNCHANGED click => Clicked
  OBVIOUS
<1>7. ASSUME NEW t \in WizardTabs, NEW n \in 0..4, Goto(t, n), wizard'[t] # NoWizard => PageEarned(wizard[t])'
      PROVE  Turned
  BY <1>7, GotoType DEF PageEarned
<1>8. ASSUME NEW t \in WizardTabs, patch[t] # NoPatch,
             NEW s \in {"sent", "ensuring", "done", "failed"}, patch' = [patch EXCEPT ![t].state = s],
             PatchEarned(patch[t])'
      PROVE  Asked
  BY <1>8, ServeType
<1>9. ASSUME NEW t \in WizardTabs, NEW k \in Clicks, NEW p \in Phases,
             click' = [click EXCEPT ![t][k] = p], ClickEarned(p)'
      PROVE  Clicked
  <2>1. click'[t][k] = p
    BY <1>9, ClickType
  <2>2. ClickEarned(click[t][k])'
    BY <1>9, <2>1 DEF ClickEarned
  <2> QED
    BY <1>9, <2>2, ClickType
<1> HIDE DEF Turned, Asked, Clicked
<1>10. ASSUME NEW t \in WizardTabs, PageStep(t) PROVE Earned'
  <2>1. UNCHANGED <<hub, torn, ours, made>>
    BY <1>10 DEF PageStep, Forward, Back, FinishWizard, SaveDropFolder, Ask, PatchAnswered,
                 SetupRefetched, PatchLost, Reload, configVars
  <2>2. PageEarned(wizard[t]) /\ PatchEarned(patch[t])
    BY DEF Earned
  <2>3. ASSUME NEW n \in 0..4, Goto(t, n), wizard[t] # NoWizard => (n \in 2..4 => Known),
               wizard[t] # NoWizard => (n \in 3..4 => Placed), n # 4
        PROVE  Turned
    <3>1. wizard'[t] # NoWizard => PageEarned(wizard[t])'
      <4> SUFFICES ASSUME wizard'[t] # NoWizard PROVE PageEarned(wizard[t])'
        OBVIOUS
      <4>1. wizard[t] # NoWizard /\ wizard'[t].step = n /\ wizard'[t].verified = wizard[t].verified
        BY <2>3, GotoType
      <4> QED
        BY <2>1, <2>2, <2>3, <4>1 DEF PageEarned, Known, Placed
    <3> QED
      BY <1>7, <2>3, <3>1
  <2>4. CASE Forward(t)
    <3>1. Turned
      BY <2>2, <2>3, <2>4 DEF Forward, At, PageEarned, Known
    <3> QED
      BY <1>3, <1>5, <1>6, <2>4, <3>1 DEF Forward
  <2>5. CASE Back(t)
    <3>1. Turned
      BY <2>2, <2>3, <2>5 DEF Back, At, PageEarned
    <3> QED
      BY <1>3, <1>5, <1>6, <2>5, <3>1 DEF Back
  <2>6. ASSUME NEW what \in {"folder", "finish"}, NEW g, Ask(t, what, g), Known,
               what = "folder" => g \in Folders, what = "finish" => Placed /\ ours /\ made
        PROVE  Earned'
    <3>1. patch' = [patch EXCEPT ![t] = [what |-> what, folder |-> g, state |-> "sent"]]
      BY <2>6 DEF Ask
    <3>2. patch'[t] = [what |-> what, folder |-> g, state |-> "sent"]
      BY <3>1 DEF SetupType
    <3>3. PatchEarned(patch[t])'
      BY <2>1, <2>6, <3>2 DEF PatchEarned, Known, Placed
    <3>4. Asked
      BY <3>1, <3>3 DEF Asked
    <3> QED
      BY <1>3, <1>4, <1>6, <2>6, <3>4 DEF Ask
  <2>7. CASE FinishWizard(t)
    BY <2>2, <2>6, <2>7 DEF FinishWizard, At, PageEarned
  <2>8. ASSUME NEW f \in Folders, SaveDropFolder(t, f) PROVE Earned'
    BY <2>2, <2>6, <2>8 DEF SaveDropFolder, At, PageEarned
  <2>9. CASE PatchAnswered(t)
    <3>1. Asked
      BY <2>9 DEF PatchAnswered, Asked, PatchEarned
    <3>2. Turned
      <4>1. CASE UNCHANGED wizard
        BY <1>4, <4>1
      <4>2. CASE Goto(t, 3) /\ patch[t].what = "folder" /\ patch[t].state # "failed"
        BY <2>2, <2>3, <2>9, <4>2 DEF PatchAnswered, PatchEarned
      <4>3. CASE wizard' = [wizard EXCEPT ![t] = NoWizard]
        BY <4>3 DEF Turned, PageEarned
      <4> QED
        BY <2>9, <4>1, <4>2, <4>3 DEF PatchAnswered
    <3> QED
      BY <1>3, <1>6, <2>9, <3>1, <3>2 DEF PatchAnswered
  <2>10. CASE SetupRefetched(t)
    <3>1. Turned
      BY <2>10 DEF SetupRefetched, Turned, PageEarned
    <3> QED
      BY <1>3, <1>5, <1>6, <2>10, <3>1 DEF SetupRefetched
  <2>11. CASE PatchLost(t)
    <3>1. patch' = [patch EXCEPT ![t].state = "failed"] /\ patch[t] # NoPatch
      BY <2>11 DEF PatchLost, Serve
    <3>2. /\ patch'[t].what = patch[t].what /\ patch'[t].folder = patch[t].folder
          /\ patch'[t].state = "failed"
      BY <3>1, ServeType
    <3>3. PatchEarned(patch[t])'
      BY <2>1, <2>2, <3>1, <3>2 DEF PatchEarned, Known, Placed
    <3>4. Asked
      BY <1>8, <3>1, <3>3
    <3> QED
      BY <1>3, <1>4, <1>6, <2>11, <3>4 DEF PatchLost
  <2>12. CASE Reload(t)
    <3>1. Turned
      <4>1. PageEarned(FirstPage)' /\ PageEarned(NoWizard)'
        BY DEF PageEarned, FirstPage
      <4>2. wizard'[t] \in {FirstPage, NoWizard}
        BY <2>12 DEF Reload, SetupType
      <4>3. PageEarned(wizard[t])'
        BY <4>1, <4>2 DEF PageEarned
      <4> QED
        BY <2>12, <4>3 DEF Reload, Turned
    <3>2. Asked /\ Clicked
      BY <2>12 DEF Reload, Asked, Clicked, PatchEarned, ClickEarned
    <3> QED
      BY <1>3, <3>1, <3>2
  <2> QED
    BY <1>10, <2>4, <2>5, <2>7, <2>8, <2>9, <2>10, <2>11, <2>12 DEF PageStep
<1>11. ASSUME NEW t \in WizardTabs, ServerStep(t) PROVE Earned'
  <2>1. CASE VerifyAuth(t)
    <3>1. wizard[t] \in Pages /\ PageEarned(wizard[t])
      BY <2>1 DEF VerifyAuth, At, SetupType, Earned
    <3>2. wizard' = [wizard EXCEPT ![t].verified = TRUE] /\ wizard[t].step = 1
      BY <2>1 DEF VerifyAuth, At
    <3>3. wizard'[t].step = 1 /\ \A u \in WizardTabs : u # t => wizard'[u] = wizard[u]
      BY <3>1, <3>2 DEF Pages, SetupType
    <3>4. hub'.verified
      BY <2>1 DEF VerifyAuth, SetupType
    <3>5. Turned
      BY <3>3, <3>4 DEF Turned, PageEarned, Known
    <3> QED
      BY <1>3, <1>5, <1>6, <2>1, <3>5 DEF VerifyAuth
  <2>2. CASE PatchSetup(t)
    <3>1. patch[t] # NoPatch /\ PatchEarned(patch[t]) /\ patch[t] \in Patches
      BY <2>2 DEF PatchSetup, Earned, SetupType
    <3>2. PICK s \in {"ensuring", "done"} : patch' = [patch EXCEPT ![t].state = s]
      BY <2>2 DEF PatchSetup, Serve
    <3>3. patch'[t].what = patch[t].what /\ patch'[t].folder = patch[t].folder
      BY <3>1, <3>2, ServeType
    <3>4. Placed'
      <4>1. CASE patch[t].what = "folder"
        <5>1. hub'.folder = patch[t].folder
          BY <2>2, <4>1 DEF PatchSetup, SetupType
        <5> QED
          BY <3>1, <4>1, <5>1, SetupAssumption DEF PatchEarned, Placed
      <4>2. CASE patch[t].what = "finish"
        BY <1>1, <3>1, <4>2 DEF PatchEarned, Firm
      <4> QED
        BY <3>1, <4>1, <4>2 DEF Patches
    <3>5. PatchEarned(patch[t])'
      BY <1>1, <3>1, <3>3, <3>4 DEF PatchEarned, Firm, Known, Placed
    <3>6. Asked
      BY <1>8, <3>1, <3>2, <3>5
    <3> QED
      BY <1>3, <1>4, <1>6, <2>2, <3>6 DEF PatchSetup
  <2>3. CASE \E ok \in BOOLEAN : CloseOld(t, ok)
    BY <1>3, <1>4, <1>5, <1>6, <2>3 DEF CloseOld
  <2>4. ASSUME NEW ok \in BOOLEAN, StartNew(t, ok) PROVE Earned'
    <3>1. CASE UNCHANGED patch
      BY <1>3, <1>4, <1>5, <1>6, <2>4, <3>1 DEF StartNew
    <3>2. CASE /\ patch[t] # NoPatch /\ patch[t].state = "ensuring"
               /\ patch' = [patch EXCEPT ![t].state = "done"]
      <4>1. PatchEarned(patch[t])
        BY DEF Earned
      <4>2. /\ patch'[t].what = patch[t].what /\ patch'[t].folder = patch[t].folder
            /\ patch'[t].state = "done"
        BY <3>2, ServeType
      <4>3. PatchEarned(patch[t])'
        BY <1>1, <3>2, <4>1, <4>2 DEF PatchEarned, Firm, Known, Placed
      <4>4. Asked
        BY <1>8, <3>2, <4>3
      <4> QED
        BY <1>3, <1>4, <1>6, <2>4, <4>4 DEF StartNew
    <3> QED
      BY <2>4, <3>1, <3>2 DEF StartNew
  <2> QED
    BY <1>11, <2>1, <2>2, <2>3, <2>4 DEF ServerStep
<1>12. ASSUME NEW t \in WizardTabs, NEW k \in Clicks, ClickStep(t, k) PROVE Earned'
  <2>1. PageEarned(wizard[t]) /\ ClickEarned(click[t][k])
    BY DEF Earned
  <2>2. CASE SavePartner(t, k)
    <3>1. ClickEarned("ours")'
      BY <1>1, <2>1, <2>2 DEF SavePartner, At, PageEarned, ClickEarned, Firm
    <3>2. Clicked
      BY <1>9, <2>2, <3>1 DEF SavePartner, Phases
    <3> QED
      BY <1>3, <1>4, <1>5, <2>2, <3>2 DEF SavePartner
  <2>3. CASE OursSaved(t, k)
    <3>1. ClickEarned("create")'
      BY <1>1, <2>1, <2>3 DEF OursSaved, ClickEarned, Firm
    <3>2. Clicked
      BY <1>9, <2>3, <3>1 DEF OursSaved, Phases
    <3> QED
      BY <1>3, <1>4, <1>5, <2>3, <3>2 DEF OursSaved
  <2>4. CASE WizardCreated(t, k)
    <3>1. ClickEarned("none")'
      BY DEF ClickEarned
    <3>2. Clicked
      BY <1>9, <2>4, <3>1 DEF WizardCreated, Phases
    <3>3. Known' /\ Placed' /\ ours' /\ made'
      BY <1>1, <2>1, <2>4 DEF WizardCreated, ClickEarned, Firm
    <3>4. Turned
      BY <1>7, <2>4, <3>3 DEF WizardCreated, PageEarned
    <3> QED
      BY <1>3, <1>5, <2>4, <3>2, <3>4 DEF WizardCreated
  <2>5. ASSUME NEW p \in Phases, Phase(t, k, p), ClickEarned(p)' PROVE Earned'
    <3>1. Clicked
      BY <1>9, <2>5 DEF Phase
    <3> QED
      BY <1>3, <1>4, <1>5, <2>5, <3>1 DEF Phase
  <2>6. CASE click[t][k] = "create" /\ Phase(t, k, "checked")
    <3>1. ClickEarned("checked")'
      BY <1>1, <2>1, <2>6 DEF ClickEarned, Firm
    <3> QED
      BY <2>5, <2>6, <3>1 DEF Phases
  <2>7. CASE click[t][k] = "checked" /\ WizardWritten(t, k)
    <3>1. ClickEarned("created")'
      BY <1>1, <2>1, <2>7 DEF WizardWritten, ClickEarned, Firm
    <3> QED
      BY <2>5, <2>7, <3>1 DEF WizardWritten, Phases
  <2>8. CASE Phase(t, k, "none")
    <3>1. ClickEarned("none")'
      BY DEF ClickEarned
    <3> QED
      BY <2>5, <2>8, <3>1 DEF Phases
  <2> QED
    BY <1>12, <2>2, <2>3, <2>4, <2>6, <2>7, <2>8 DEF ClickStep
<1>13. CASE Restart \/ TornWrite
  <2>1. /\ UNCHANGED wizard
        /\ patch' = [t \in WizardTabs |-> IF patch[t] = NoPatch THEN NoPatch
                                          ELSE [patch[t] EXCEPT !.state = "failed"]]
        /\ click' = [t \in WizardTabs |-> [k \in Clicks |-> "none"]]
    BY <1>13 DEF Restart, TornWrite, Boot
  <2>2. ASSUME NEW t \in WizardTabs PROVE PatchEarned(patch[t])'
    <3>1. CASE patch[t] = NoPatch
      BY <2>1, <3>1 DEF PatchEarned
    <3>2. CASE patch[t] # NoPatch
      <4>1. patch[t] \in Patches /\ PatchEarned(patch[t])
        BY <3>2 DEF SetupType, Earned
      <4>2. patch'[t] = [patch[t] EXCEPT !.state = "failed"]
        BY <2>1, <3>2
      <4>3. /\ patch'[t].what = patch[t].what /\ patch'[t].folder = patch[t].folder
            /\ patch'[t].state = "failed"
        BY <4>1, <4>2 DEF Patches
      <4> QED
        BY <1>1, <3>2, <4>1, <4>3 DEF PatchEarned, Firm, Known, Placed
    <3> QED
      BY <3>1, <3>2
  <2>3. ASSUME NEW t \in WizardTabs, NEW k \in Clicks PROVE ClickEarned(click[t][k])'
    BY <2>1 DEF ClickEarned
  <2> QED
    BY <1>3, <1>4, <2>1, <2>2, <2>3 DEF Asked, Clicked
<1>14. CASE UNCHANGED setupVars
  BY <1>3, <1>4, <1>5, <1>6, <1>14 DEF setupVars
<1> QED
  BY <1>10, <1>11, <1>12, <1>13, <1>14 DEF SetupStep
LEMMA CompleteStep ==
  ASSUME SetupType, SetupType', Earned, CompleteMeansSetUp, SetupStep
  PROVE  CompleteMeansSetUp'
<1>1. Firm
  BY SafeIsFirm
<1> DEFINE Done == ours /\ made /\ Known /\ Placed
<1>2. (hub.complete => Done) /\ (Done => Done')
  BY <1>1 DEF CompleteMeansSetUp, Firm, Known, Placed
<1>3. (hub'.complete => Done') => CompleteMeansSetUp'
  BY DEF CompleteMeansSetUp, Known, Placed
<1> HIDE DEF Done
<1>4. ASSUME hub'.complete => hub.complete PROVE CompleteMeansSetUp'
  BY <1>2, <1>3, <1>4
<1>5. ASSUME UNCHANGED hub PROVE CompleteMeansSetUp'
  BY <1>4, <1>5
<1>6. ASSUME NEW t \in WizardTabs, PageStep(t) PROVE UNCHANGED hub
  BY <1>6 DEF PageStep, Forward, Back, FinishWizard, SaveDropFolder, Ask, PatchAnswered,
              SetupRefetched, PatchLost, Reload, configVars
<1>7. ASSUME NEW t \in WizardTabs, NEW k \in Clicks, ClickStep(t, k) PROVE UNCHANGED hub
  BY <1>7 DEF ClickStep, SavePartner, OursSaved, WizardCreated, WizardWritten, Phase, configVars
<1>8. ASSUME NEW t \in WizardTabs, ServerStep(t) PROVE CompleteMeansSetUp'
  <2>1. CASE VerifyAuth(t)
    BY <1>4, <2>1 DEF VerifyAuth, SetupType
  <2>2. CASE PatchSetup(t)
    <3>1. CASE patch[t].what = "folder"
      BY <1>4, <2>2, <3>1 DEF PatchSetup, SetupType
    <3>2. CASE patch[t].what = "finish"
      <4>1. PatchEarned(patch[t]) /\ patch[t] # NoPatch
        BY <2>2 DEF PatchSetup, Earned
      <4>2. Done
        BY <3>2, <4>1 DEF PatchEarned, Done
      <4> QED
        BY <1>2, <1>3, <4>2
    <3> QED
      BY <2>2, <3>1, <3>2 DEF PatchSetup, SetupType, Patches
  <2>3. CASE \E ok \in BOOLEAN : CloseOld(t, ok) \/ StartNew(t, ok)
    BY <1>5, <2>3 DEF CloseOld, StartNew, configVars
  <2> QED
    BY <1>8, <2>1, <2>2, <2>3 DEF ServerStep
<1>9. CASE Restart
  BY <1>5, <1>9 DEF Restart, Boot
<1>10. CASE TornWrite
  BY <1>3, <1>10 DEF TornWrite, Boot, BlankHub
<1>11. CASE UNCHANGED setupVars
  BY <1>5, <1>11 DEF setupVars
<1> QED
  BY <1>5, <1>6, <1>7, <1>8, <1>9, <1>10, <1>11 DEF SetupStep
-----------------------------------------------------------------------------
(* The channel of the registry.                                            *)

\* The registry's channel watches, and beside it only one whose closing failed.
OneWatches ==
  /\ live \ unclosed \subseteq {channel}
  /\ channel # NoChannel => channel \in live

\* A replacement that no other overlaps knows the channel it replaces, and goes
\* for the folder of the configuration.
Replacing(t) ==
  ensure[t] # NoEnsure =>
    /\ \A u \in WizardTabs : ensure[u] # NoEnsure => u = t
    /\ ensure[t].old = channel
    /\ IF ensure[t].closed THEN live \subseteq unclosed ELSE OneWatches
    /\ hub.complete /\ ensure[t].folder = hub.folder

Watching == /\ ~overlapped => \A t \in WizardTabs : Replacing(t)
            /\ WatchesTheFolder

LEMMA UntouchedWatching ==
  ASSUME Watching, UNCHANGED channelVars, hub'.folder = hub.folder, hub.complete => hub'.complete
  PROVE  Watching'
BY DEF Watching, Replacing, WatchesTheFolder, OneWatches, channelVars

LEMMA PatchWatching ==
  ASSUME SetupType, Earned, CompleteMeansSetUp, Watching, NEW t \in WizardTabs, PatchSetup(t)
  PROVE  Watching'
<1>1. PICK h : h = IF patch[t].what = "folder" THEN [hub EXCEPT !.folder = patch[t].folder]
                   ELSE [hub EXCEPT !.complete = TRUE]
  OBVIOUS
<1>2. /\ hub' = h
      /\ IF h.complete /\ h.folder # NoFolder THEN BeginEnsure(t, h.folder) ELSE UNCHANGED channelVars
      /\ ensure[t] = NoEnsure
  BY <1>1 DEF PatchSetup
<1>3. CASE h.complete /\ h.folder # NoFolder
  <2>1. PICK e : e = [folder |-> h.folder, old |-> channel, closed |-> FALSE]
    OBVIOUS
  <2>2. /\ ensure' = [ensure EXCEPT ![t] = e] /\ UNCHANGED <<channel, live, unclosed>>
        /\ overlapped' = (overlapped \/ \E u \in WizardTabs : ensure[u] # NoEnsure)
    BY <1>2, <1>3, <2>1 DEF BeginEnsure
  <2>3. h.folder \in Folders
    BY <1>1, <1>3 DEF PatchSetup, SetupType, Patches
  <2>4. e \in Ensures /\ e.folder = h.folder /\ e.old = channel /\ e.closed = FALSE
    BY <2>1, <2>3 DEF SetupType, Ensures
  <2>5. e # NoEnsure /\ ensure'[t] = e
    BY <2>2, <2>4, SetupAssumption DEF SetupType
  <2>6. WatchesTheFolder'
    BY <2>5 DEF WatchesTheFolder
  <2>7. ASSUME ~overlapped', NEW u \in WizardTabs PROVE Replacing(u)'
    <3>1. ~overlapped /\ \A v \in WizardTabs : ensure[v] = NoEnsure
      BY <2>2, <2>7
    <3>2. \A v \in WizardTabs : v # t => ensure'[v] = NoEnsure
      BY <2>2, <3>1 DEF SetupType
    <3>3. OneWatches
      BY <3>1 DEF Watching, WatchesTheFolder, OneWatches
    <3>4. OneWatches'
      BY <2>2, <3>3 DEF OneWatches
    <3> QED
      BY <1>2, <1>3, <2>2, <2>4, <2>5, <3>2, <3>4 DEF Replacing
  <2> QED
    BY <2>6, <2>7 DEF Watching
<1>4. CASE ~(h.complete /\ h.folder # NoFolder)
  <2>1. UNCHANGED channelVars
    BY <1>2, <1>4
  <2>2. ASSUME ~overlapped, NEW u \in WizardTabs, ensure[u] # NoEnsure PROVE FALSE
    <3>1. ensure[u] \in Ensures /\ hub.complete /\ ensure[u].folder = hub.folder
      BY <2>2 DEF SetupType, Watching, Replacing
    <3>2. hub.folder # NoFolder
      BY <3>1, SetupAssumption DEF Ensures
    <3> QED
      BY <1>1, <1>4, <3>1, <3>2, SetupAssumption DEF SetupType, PatchSetup, Earned, PatchEarned
  <2>3. ASSUME ~overlapped, \A u \in WizardTabs : ensure[u] = NoEnsure, channel # NoChannel PROVE FALSE
    <3>1. channel \in Channels /\ hub.complete /\ channel.folder = hub.folder
      BY <2>3 DEF SetupType, Watching, WatchesTheFolder
    <3>2. hub.folder # NoFolder
      BY <3>1, SetupAssumption DEF Channels
    <3> QED
      BY <1>1, <1>4, <3>1, <3>2, SetupAssumption DEF SetupType, PatchSetup, Earned, PatchEarned
  <2> QED
    BY <2>1, <2>2, <2>3 DEF Watching, Replacing, WatchesTheFolder, channelVars
<1> QED
  BY <1>3, <1>4

LEMMA ReplaceWatching ==
  ASSUME SetupType, Watching, NEW t \in WizardTabs,
         \E ok \in BOOLEAN : CloseOld(t, ok) \/ StartNew(t, ok)
  PROVE  Watching'
<1>1. ensure[t] \in Ensures /\ ensure[t] # NoEnsure
  BY DEF CloseOld, StartNew, SetupType
<1>2. ~overlapped => /\ \A u \in WizardTabs : u # t => ensure[u] = NoEnsure
                     /\ ensure[t].old = channel
                     /\ IF ensure[t].closed THEN live \subseteq unclosed ELSE OneWatches
                     /\ hub.complete /\ ensure[t].folder = hub.folder
  BY <1>1 DEF Watching, Replacing
<1>3. ASSUME NEW ok \in BOOLEAN, CloseOld(t, ok) PROVE Watching'
  <2>1. PICK e : e = [ensure[t] EXCEPT !.closed = TRUE]
    OBVIOUS
  <2>2. e \in Ensures /\ e.folder = ensure[t].folder /\ e.old = ensure[t].old /\ e.closed
    BY <1>1, <2>1 DEF Ensures
  <2>3. /\ ensure' = [ensure EXCEPT ![t] = e]
        /\ \/ live' = live \ {ensure[t].old} /\ UNCHANGED unclosed
           \/ unclosed' = unclosed \cup {ensure[t].old} /\ UNCHANGED live
        /\ UNCHANGED <<hub, channel, overlapped>> /\ ~ensure[t].closed
    BY <1>3, <2>1 DEF CloseOld, configVars
  <2>4. ensure'[t] = e /\ e # NoEnsure /\ \A u \in WizardTabs : u # t => ensure'[u] = ensure[u]
    BY <2>2, <2>3, SetupAssumption DEF SetupType
  <2>5. WatchesTheFolder'
    BY <2>4 DEF WatchesTheFolder
  <2>6. ~overlapped => live' \subseteq unclosed'
    BY <1>2, <2>3 DEF OneWatches
  <2>7. ASSUME ~overlapped', NEW u \in WizardTabs PROVE Replacing(u)'
    BY <1>2, <2>2, <2>3, <2>4, <2>6, <2>7 DEF Replacing
  <2> QED
    BY <2>5, <2>7 DEF Watching
<1>4. ASSUME NEW ok \in BOOLEAN, StartNew(t, ok) PROVE Watching'
  <2>1. PICK c : c = IF ok THEN [by |-> t, nth |-> patches, folder |-> ensure[t].folder] ELSE NoChannel
    OBVIOUS
  <2>2. /\ channel' = c /\ live' = IF ok THEN live \cup {c} ELSE live
        /\ ensure' = [ensure EXCEPT ![t] = NoEnsure]
        /\ UNCHANGED <<hub, unclosed, overlapped>> /\ ensure[t].closed
    BY <1>4, <2>1 DEF StartNew, configVars
  <2>3. ok => c \in Channels /\ c.folder = ensure[t].folder
    BY <1>1, <2>1 DEF Channels, Ensures, SetupType
  <2>4. ok => c # NoChannel
    BY <2>3, SetupAssumption
  <2>5. ~overlapped => live' \ unclosed \subseteq {c} /\ (c # NoChannel => c \in live')
    BY <1>2, <2>1, <2>2, <2>4
  <2>6. ~overlapped => (c # NoChannel => hub.complete /\ c.folder = hub.folder)
    BY <1>2, <2>1, <2>3
  <2>7. WatchesTheFolder'
    BY <2>2, <2>5, <2>6 DEF WatchesTheFolder
  <2>8. ASSUME ~overlapped', NEW u \in WizardTabs PROVE ensure'[u] = NoEnsure
    BY <1>2, <2>2, <2>8 DEF SetupType
  <2> QED
    BY <2>7, <2>8 DEF Watching, Replacing
<1> QED
  BY <1>3, <1>4

LEMMA BootWatching ==
  ASSUME NEW h, Boot(h), NoChannel \notin Channels,
         h \in [folder : Folders \cup {NoFolder}, verified : BOOLEAN, complete : BOOLEAN]
  PROVE  Watching'
<1>1. PICK c : c = [by |-> "boot", nth |-> 0, folder |-> h.folder]
  OBVIOUS
<1>2. /\ hub' = h
      /\ channel' = IF h.complete /\ h.folder # NoFolder THEN c ELSE NoChannel
      /\ live' = IF h.complete /\ h.folder # NoFolder THEN {c} ELSE {}
      /\ unclosed' = {}
      /\ ensure' = [t \in WizardTabs |-> NoEnsure]
  BY <1>1 DEF Boot
<1>3. h.complete /\ h.folder # NoFolder => c \in Channels /\ c.folder = h.folder
  BY <1>1 DEF Channels
<1>4. WatchesTheFolder'
  BY <1>2, <1>3 DEF WatchesTheFolder
<1> QED
  BY <1>2, <1>4 DEF Watching, Replacing

LEMMA WatchingStep ==
  ASSUME SetupType, Earned, CompleteMeansSetUp, Watching, SetupStep
  PROVE  Watching'
<1>1. ASSUME NEW t \in WizardTabs, PageStep(t) PROVE Watching'
  BY <1>1, UntouchedWatching
     DEF PageStep, Forward, Back, FinishWizard, SaveDropFolder, Ask, PatchAnswered,
         SetupRefetched, PatchLost, Reload, configVars
<1>2. ASSUME NEW t \in WizardTabs, NEW k \in Clicks, ClickStep(t, k) PROVE Watching'
  BY <1>2, UntouchedWatching
     DEF ClickStep, SavePartner, OursSaved, WizardCreated, WizardWritten, Phase, configVars
<1>3. ASSUME NEW t \in WizardTabs, VerifyAuth(t) PROVE Watching'
  BY <1>3, UntouchedWatching DEF VerifyAuth, SetupType
<1>4. CASE Restart
  BY <1>4, BootWatching, SetupAssumption DEF Restart, SetupType
<1>5. CASE TornWrite
  BY <1>5, BootWatching, SetupAssumption DEF TornWrite, BlankHub
<1>6. CASE UNCHANGED setupVars
  BY <1>6, UntouchedWatching DEF setupVars, channelVars
<1> QED
  BY <1>1, <1>2, <1>3, <1>4, <1>5, <1>6, PatchWatching, ReplaceWatching DEF SetupStep, ServerStep
-----------------------------------------------------------------------------
(* The theorems about setup.                                               *)

SetupInv == SetupType /\ Earned /\ CompleteMeansSetUp /\ Watching

LEMMA SetupInitially == Init => SetupInv
<1> SUFFICES ASSUME Init PROVE SetupInv
  OBVIOUS
<1>1. SetupType
  <2>1. BlankHub \in [folder : Folders \cup {NoFolder}, verified : BOOLEAN, complete : BOOLEAN]
    BY DEF BlankHub
  <2>2. FirstPage \in Pages /\ [k \in Clicks |-> "none"] \in [Clicks -> Phases]
    BY DEF FirstPage, Pages, Phases
  <2>3. wizard \in [WizardTabs -> Pages \cup {NoWizard}] /\ click \in [WizardTabs -> [Clicks -> Phases]]
    BY <2>2 DEF Init, SetupInit
  <2>4. {ours, made, torn, overlapped} \subseteq BOOLEAN
    BY DEF Init, SetupInit
  <2> QED
    BY <2>1, <2>3, <2>4 DEF Init, SetupInit, SetupType
<1>2. Earned
  BY DEF Init, SetupInit, Earned, PageEarned, PatchEarned, ClickEarned, FirstPage
<1>3. hub.complete = FALSE /\ live = {} /\ channel = NoChannel
      /\ \A t \in WizardTabs : ensure[t] = NoEnsure
  BY DEF Init, SetupInit, BlankHub
<1>4. CompleteMeansSetUp /\ Watching
  BY <1>3 DEF CompleteMeansSetUp, Watching, Replacing, WatchesTheFolder
<1> QED
  BY <1>1, <1>2, <1>4 DEF SetupInv

LEMMA SetupKept == SetupInv /\ [Next]_vars => SetupInv'
<1> SUFFICES ASSUME SetupInv, [Next]_vars PROVE SetupInv'
  OBVIOUS
<1>1. SetupStep
  BY NextActsOnSetup
<1>2. SetupType'
  BY <1>1, SetupTyped DEF SetupInv
<1> QED
  BY <1>1, <1>2, EarnedStep, CompleteStep, WatchingStep DEF SetupInv

\* Setup counts as complete only once sign-in was verified, a folder chosen,
\* the tenant's own ids stored and a partner created, or config.json was cut
\* short (FirstRunWizardPage.tsx, routes/setup.ts).
THEOREM SetupIsEarned == Spec => []CompleteMeansSetUp
<1>1. SetupInv => CompleteMeansSetUp
  BY DEF SetupInv
<1> QED
  BY <1>1, SetupInitially, SetupKept, PTL DEF Spec

\* While no replacement is under way and none has overlapped another since the
\* server started, the registry's channel watches the folder of the configuration,
\* and beside it only channels whose closing failed (registry.ts,
\* ensureDesktopDropFolder).
THEOREM OneChannelWatches == Spec => []WatchesTheFolder
<1>1. SetupInv => WatchesTheFolder
  BY DEF SetupInv, Watching
<1> QED
  BY <1>1, SetupInitially, SetupKept, PTL DEF Spec
=============================================================================
