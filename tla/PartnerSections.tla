--------------------------- MODULE PartnerSections ---------------------------
(***************************************************************************)
(* The sections of one partner's editor                                    *)
(* (apps/web/src/pages/PartnersConfigPage.tsx), and the conversions they   *)
(* go through: the draft becomes the body of a PATCH (toInput), the route  *)
(* reads and validates it (routes/partners-config.ts), the row is written, *)
(* read defensively (services/partners.ts: toRecord) and becomes a draft   *)
(* again.  PartnerEditor has the draft's life; here a save is one step.    *)
(***************************************************************************)
EXTENDS Naturals, SequencesExt, Functions

CONSTANTS
  Admins,     \* tabs in which the partner may be edited
  Texts,      \* what may stand in a code, a key or a label, other than Blank
  Ids,        \* ISA sender ids
  AlertTypes,
  Stored,     \* rows that may be there from the start
  Closed,     \* no sheet; also connectivity that is not there
  Every,      \* no restriction of the alert types
  MaxChanges, \* bound: changes of the sheets
  MaxSavings  \* bound: saves

ASSUME SectionsAssumption == /\ {MaxChanges, MaxSavings} \subseteq Nat
                             /\ IsFiniteSet(AlertTypes)

VARIABLES
  columns,  \* the row of the partner, as stored
  listed,   \* per tab: the record its list shows
  sheet,    \* per tab: the draft, or Closed
  opened,   \* per tab: history: the record the sheet was opened from
  changes, savings

sectionVars == <<columns, listed, sheet, opened, changes, savings>>

Blank == ""
Without(map, c) == Restrict(map, DOMAIN map \ {c})
Put(map, c, v) == [x \in DOMAIN map \cup {c} |-> IF x = c THEN v ELSE map[x]]
-----------------------------------------------------------------------------
\* What one control of an editor makes of the value it is given.  The editors
\* of rows share three: change a row, remove it, add a blank one.
RowEdits(rows, variants, blank) ==
  (UNION {{ReplaceAt(rows, i, r) : r \in variants[i]} : i \in DOMAIN rows})
    \cup {RemoveAt(rows, i) : i \in DOMAIN rows}
    \cup {Append(rows, blank)}

\* The ids are typed as one text and split at commas.
IdentityFields == {<<>>} \cup {<<i>> : i \in Ids} \cup {<<i, i>> : i \in Ids}

\* A step has a set id or not; name and entry set are one, for a flow needs both.
FlowStepsEditor(steps) == RowEdits(steps, [i \in DOMAIN steps |-> {~steps[i]}], FALSE)

LifecycleFlowEditor(flows) ==
  LET variants(f) == {[f EXCEPT !.named = ~@]}
                       \cup {[f EXCEPT !.steps = s] : s \in FlowStepsEditor(f.steps)}
  IN RowEdits(flows, [i \in DOMAIN flows |-> variants(flows[i])], [named |-> FALSE, steps |-> <<>>])
       \cup {Append(flows, [named |-> TRUE, steps |-> <<TRUE>>])}

\* Of one field.  The rows are the entries of a map: a code that is typed, on
\* the way to a longer one too, takes the place of an entry that has it.
AckOverridesEditor(map) ==
  (UNION {{Put(Without(map, c), n, map[c]) : n \in Texts \cup {Blank}} : c \in DOMAIN map})
    \cup {Put(map, c, m) : c \in DOMAIN map, m \in {"wording", Blank}}
    \cup {Without(map, c) : c \in DOMAIN map}
    \cup {Put(map, Blank, Blank)}

\* The key is the set id with the segment id, Blank if either is.
SegmentLabelOverridesEditor(rows) ==
  LET variants(r) == {[r EXCEPT !.key = k] : k \in Texts \cup {Blank}}
                       \cup {[r EXCEPT !.label = l] : l \in Texts \cup {Blank}}
  IN RowEdits(rows, [i \in DOMAIN rows |-> variants(rows[i])], [key |-> Blank, label |-> Blank])

\* minutes: whether they are a positive integer; a new row has 60.
SlaWindowsEditor(rows) ==
  LET variants(w) == {[w EXCEPT !.set = ~@], [w EXCEPT !.minutes = ~@]}
  IN RowEdits(rows, [i \in DOMAIN rows |-> variants(rows[i])], [set |-> FALSE, minutes |-> TRUE])

Ticked(c) == IF c.types = Every THEN AlertTypes ELSE c.types

\* A tick box; all ticked is stored as no restriction.
Toggled(c, t) ==
  LET next == IF t \in Ticked(c) THEN Ticked(c) \ {t} ELSE Ticked(c) \cup {t}
  IN [c EXCEPT !.types = IF next = AlertTypes THEN Every ELSE next]

ContactsEditor(contacts) ==
  LET variants(c) == {[c EXCEPT !.email = ~@]}
                       \cup {[c EXCEPT !.hook = h] : h \in {"none", "slack", "other"}}
                       \cup {Toggled(c, t) : t \in AlertTypes}
  IN RowEdits(contacts, [i \in DOMAIN contacts |-> variants(contacts[i])],
              [email |-> FALSE, hook |-> "none", types |-> Every])

NoConnectivity == [channel |-> FALSE, endpoint |-> FALSE, tech |-> "none", notes |-> FALSE]

ConnectivityEditor(v) ==
  {[v EXCEPT !.channel = ~@], [v EXCEPT !.endpoint = ~@], [v EXCEPT !.notes = ~@]}
    \cup {[v EXCEPT !.tech = x] : x \in {"none", "email", "other"}}

Sections == {"ids", "flows", "acks", "segments", "slas", "contacts", "connectivity"}

Edited(s, v) == CASE s = "ids"          -> IdentityFields
                  [] s = "flows"        -> LifecycleFlowEditor(v)
                  [] s = "acks"         -> AckOverridesEditor(v)
                  [] s = "segments"     -> SegmentLabelOverridesEditor(v)
                  [] s = "slas"         -> SlaWindowsEditor(v)
                  [] s = "contacts"     -> ContactsEditor(v)
                  [] s = "connectivity" -> ConnectivityEditor(v)
-----------------------------------------------------------------------------
\* Slip: the first of two rows with one key is taken.
OverridesFromFirst(rows) ==
  FoldLeft(LAMBDA out, r : IF Blank \in {r.key, r.label} \/ r.key \in DOMAIN out
                           THEN out ELSE Put(out, r.key, r.label), <<>>, rows)

\* overridesFromRows: incomplete rows are left out, and of two rows with one
\* key the later one is taken.
OverridesFromRows(rows) ==
  FoldLeft(LAMBDA out, r : IF Blank \in {r.key, r.label} THEN out ELSE Put(out, r.key, r.label),
           <<>>, rows)

SegmentRows(map) ==
  LET keys == SetToSeq(DOMAIN map)
  IN [i \in DOMAIN keys |-> [key |-> keys[i], label |-> map[keys[i]]]]

WithEmail(contacts) == SelectSeq(contacts, LAMBDA c : c.email)

\* toInput: connectivity of which nothing is filled in is left out (Closed).
Body(d) ==
  [d EXCEPT !.contacts = WithEmail(@),
            !.segments = OverridesFromRows(@),
            !.connectivity = IF @ = NoConnectivity THEN Closed ELSE @]

\* validateDraft, by which the page refuses.
DraftValid(d) ==
  /\ IsInjective(d.ids)
  /\ \A i \in DOMAIN d.slas : d.slas[i].set /\ d.slas[i].minutes
  /\ d.connectivity.channel => d.connectivity.endpoint /\ d.connectivity.tech = "email"

\* readInput, before it validates.
ReadInput(body) == [body EXCEPT !.contacts = WithEmail(@)]

\* validatePartnerInput, of these sections.
InputValid(input) ==
  /\ IsInjective(input.ids)
  /\ \A i \in DOMAIN input.flows : input.flows[i].named
  /\ \A i \in DOMAIN input.slas : input.slas[i].set /\ input.slas[i].minutes
  /\ \A i \in DOMAIN input.contacts : input.contacts[i].hook # "other"
  /\ LET c == input.connectivity
     IN c # Closed => c.channel /\ c.endpoint /\ c.tech = "email"

\* The update leaves out connectivity that is not in the input.
Columns(old, input) ==
  [input EXCEPT !.connectivity = IF @ = Closed THEN old.connectivity ELSE @]

ReadFlows(flows) == SelectSeq(flows, LAMBDA f : f.named)
ReadStringMap(map) == Restrict(map, {c \in DOMAIN map : map[c] # Blank})
ReadSlas(slas) == SelectSeq(slas, LAMBDA w : w.set /\ w.minutes)
ReadConnectivity(c) ==
  IF c # Closed /\ c.channel /\ c.endpoint /\ c.tech # "none" THEN c ELSE Closed

\* toRecord.
ToRecord(row) ==
  [row EXCEPT !.flows = ReadFlows(@), !.acks = ReadStringMap(@), !.segments = ReadStringMap(@),
              !.slas = ReadSlas(@), !.contacts = WithEmail(@), !.connectivity = ReadConnectivity(@)]

\* fromRecord.
Sheet(record) ==
  [record EXCEPT !.segments = SegmentRows(@),
                 !.connectivity = IF @ = Closed THEN NoConnectivity ELSE @]

\* partnerSetupStatus: what the banner over the sheet and the partner's cell in
\* the list call gaps.
SetupGaps(p) == {g \in {"ids", "slas", "contacts"} : p[g] = <<>>}

\* The alert types of which the contact is notified (detection.ts: readContacts,
\* notifier.ts: eligibleContacts).
NotifiedOf(c) == {t \in AlertTypes : c.types = Every \/ c.types = {} \/ t \in c.types}
-----------------------------------------------------------------------------
SectionsInit ==
  /\ columns \in Stored
  /\ listed = [t \in Admins |-> ToRecord(columns)]
  /\ sheet = [t \in Admins |-> Closed]
  /\ opened = listed
  /\ changes = 0 /\ savings = 0

\* Edit, from the list as the tab has it.
Open(t) == /\ sheet[t] = Closed
           /\ sheet' = [sheet EXCEPT ![t] = Sheet(listed[t])]
           /\ opened' = [opened EXCEPT ![t] = listed[t]]
           /\ UNCHANGED <<columns, listed, changes, savings>>

\* A control of section s.
Change(t, s) ==
  /\ sheet[t] # Closed /\ changes < MaxChanges
  /\ \E v \in Edited(s, sheet[t][s]) :
       /\ v # sheet[t][s]
       /\ sheet' = [sheet EXCEPT ![t][s] = v]
  /\ changes' = changes + 1
  /\ UNCHANGED <<columns, listed, opened, savings>>

\* Save: what the page or the route refuses changes nothing.
SaveSheet(t) ==
  /\ sheet[t] # Closed /\ savings < MaxSavings
  /\ DraftValid(sheet[t])
  /\ LET input == ReadInput(Body(sheet[t]))
     IN InputValid(input) /\ columns' = Columns(columns, input)
  /\ sheet' = [sheet EXCEPT ![t] = Closed]
  /\ savings' = savings + 1
  /\ UNCHANGED <<listed, opened, changes>>

\* The list is fetched again.
Relist(t) == /\ listed' = [listed EXCEPT ![t] = ToRecord(columns)]
             /\ UNCHANGED <<columns, sheet, opened, changes, savings>>

SectionsNext == \E t \in Admins : \/ Open(t) \/ SaveSheet(t) \/ Relist(t)
                                  \/ \E s \in Sections : Change(t, s)
-----------------------------------------------------------------------------
\* What stays of a sheet, row by row: wordings that are not empty, complete
\* labels of which no later row has the key, contacts with an email address; all
\* else as it stands.
Stays(d, s) ==
  LET rows == d.segments
      complete(i) == Blank \notin {rows[i].key, rows[i].label}
  IN CASE s = "acks"     -> {<<c, d.acks[c]>> : c \in {x \in DOMAIN d.acks : d.acks[x] # Blank}}
       [] s = "segments" -> {<<rows[i].key, rows[i].label>> : i \in {j \in DOMAIN rows :
                              /\ complete(j)
                              /\ \A k \in DOMAIN rows : k > j /\ complete(k) => rows[k].key # rows[j].key}}
       [] s = "contacts" -> WithEmail(d.contacts)
       [] OTHER          -> d[s]

\* After a save the editor, opened again, shows what it showed when the save
\* was sent, but for what is incomplete, and for connectivity that was emptied,
\* which comes back (PartnersConfigPage.tsx:185-194, 224-268;
\* services/partners.ts: toRecord).  A section left as it was opened is changed
\* only when another save came after the list was fetched, for every save sends
\* all sections.  The setup banner told what the list tells then, and the ticked
\* types are those the contact is notified of, unless none is ticked: then it is
\* notified of all (notifier.ts:70-72).
SavedAsShown ==
  [][\A t \in Admins : (sheet[t] # Closed /\ savings' # savings /\ sheet'[t] = Closed) =>
       LET before == sheet[t]
           record == ToRecord(columns')
           after  == Sheet(record)
       IN /\ \A s \in Sections :
               \/ Stays(after, s) = Stays(before, s)
               \/ s = "connectivity" /\ before[s] = NoConnectivity
                    /\ record[s] = ToRecord(columns)[s]
          /\ opened[t] = ToRecord(columns) =>
               \A s \in Sections :
                 before[s] = Sheet(opened[t])[s] => record[s] = opened[t][s]
          /\ SetupGaps(record) = SetupGaps(Body(before))
          /\ \A i \in DOMAIN after.contacts :
               LET c == after.contacts[i]
               IN NotifiedOf(columns'.contacts[i]) = Ticked(c) \/ Ticked(c) = {}]_sectionVars
=============================================================================
