---------------------------- MODULE PartnerEditor ----------------------------
(***************************************************************************)
(* The partners page of the web application, in several browser tabs       *)
(* (apps/web/src/pages/PartnersConfigPage.tsx), over the routes of         *)
(* Partners.                                                               *)
(*                                                                         *)
(* A tab shows a cached list, edits one draft at a time, and remembers     *)
(* the draft its editor opened with to tell unsaved changes.  Only the     *)
(* submit button is disabled while a save is under way: the fields, the    *)
(* other rows and the links are not.                                       *)
(***************************************************************************)
EXTENDS Partners

CONSTANTS
  Tabs,
  Drafts,    \* what an operator may type
  EmptyDraft,
  NewId,     \* the id of a partner that is not yet created
  None,
  MaxTyped   \* bound: changes of a draft

\* The fields of the form, and an editor that shows them.
Forms == [send : SUBSET IsaIds, recv : SUBSET IsaIds, active : BOOLEAN,
          conn : {"unset", "set", "partial"}, named : BOOLEAN]
Editors == [id : PartnerIds \cup {NewId}, draft : Forms, opened : Forms]

ASSUME EditorAssumption ==
  /\ Requests = Tabs \X {"save", "again", "delete"}
  /\ Drafts \cup {EmptyDraft} \subseteq Forms
  /\ NewId \notin PartnerIds /\ MaxTyped \in Nat
  /\ None \notin Tabs /\ None \notin Forms /\ None \notin Editors

VARIABLES
  list,      \* per tab: the cached rows
  editing,   \* per tab: the editor, or None
  baseline,  \* per tab: the draft when the editing id last changed, or None
  flight,    \* per tab: the save under way, or None
  agreed,    \* the tab whose operator has just agreed to discard, or None
  left,      \* the tab that has just left the page, or None
  typed

editorVars == <<list, editing, baseline, flight, agreed, left, typed>>
pageVars == <<list, editing, baseline, flight>>

EditorInit == /\ list = [t \in Tabs |-> [i \in PartnerIds |-> NoRow]]
              /\ editing = [t \in Tabs |-> None]
              /\ baseline = [t \in Tabs |-> None]
              /\ flight = [t \in Tabs |-> None]
              /\ agreed = None /\ left = None
              /\ typed = 0

Quiet == agreed' = None /\ left' = None
-----------------------------------------------------------------------------
\* fromRecord, and EMPTY_DRAFT for a new partner.
FromRecord(row) == [send |-> row.send, recv |-> row.recv, active |-> row.active,
                    conn |-> row.conn, named |-> TRUE]

\* toInput: connectivity that was emptied is left out, not sent as null.
ToInput(d) == [d EXCEPT !.conn = IF @ = "unset" THEN "omit" ELSE @]

\* validateDraft: a channel without its endpoint is caught here, other
\* incomplete connectivity only by the server.
DraftOk(d) == d.named

Dirty(t) == editing[t] # None /\ baseline[t] # None /\ editing[t].draft # baseline[t]

\* The editor of t shows e from now on.  The effect that keeps the baseline
\* runs when the editing id changes, not when the draft does.
Show(t, e) ==
  /\ editing' = [editing EXCEPT ![t] = e]
  /\ baseline' = [baseline EXCEPT ![t] =
       IF e = None THEN None
       ELSE IF editing[t] = None \/ editing[t].id # e.id THEN e.draft ELSE @]

Discarding(t) == /\ agreed' = IF Dirty(t) THEN t ELSE None
                 /\ left' = None

\* Slip: Edit without the question.
EditUnasked(t, i) ==
  LET d == FromRecord(list[t][i])
  IN /\ list[t][i] # NoRow
     /\ Show(t, [id |-> i, draft |-> d, opened |-> d])
     /\ Quiet
     /\ UNCHANGED <<partnerVars, list, flight, typed>>

\* New, Edit and Cancel ask before a dirty draft goes (confirmDiscard); an
\* operator who declines changes nothing.
New(t) == /\ Show(t, [id |-> NewId, draft |-> EmptyDraft, opened |-> EmptyDraft])
          /\ Discarding(t)
          /\ UNCHANGED <<partnerVars, list, flight, typed>>

Edit(t, i) ==
  LET d == FromRecord(list[t][i])
  IN /\ list[t][i] # NoRow
     /\ Show(t, [id |-> i, draft |-> d, opened |-> d])
     /\ Discarding(t)
     /\ UNCHANGED <<partnerVars, list, flight, typed>>

Cancel(t) == /\ editing[t] # None
             /\ Show(t, None)
             /\ Discarding(t)
             /\ UNCHANGED <<partnerVars, list, flight, typed>>

\* updateDraft.
Type(t, d) == /\ editing[t] # None /\ typed < MaxTyped /\ d # editing[t].draft
              /\ Show(t, [editing[t] EXCEPT !.draft = d])
              /\ typed' = typed + 1
              /\ Quiet
              /\ UNCHANGED <<partnerVars, list, flight>>

\* A link of the application unmounts the page and its draft; what was sent
\* stays with the server.  On the way back the list is fetched anew.
Leave(t) == /\ editing' = [editing EXCEPT ![t] = None]
            /\ baseline' = [baseline EXCEPT ![t] = None]
            /\ flight' = [flight EXCEPT ![t] = None]
            /\ list' = [list EXCEPT ![t] = partner]
            /\ agreed' = None /\ left' = t
            /\ UNCHANGED <<partnerVars, typed>>

\* The list is fetched again: after a save, and every 30 seconds for the
\* setup indicator, which shares its cache entry.
Refetch(t) == /\ list[t] # partner
              /\ list' = [list EXCEPT ![t] = partner]
              /\ Quiet
              /\ UNCHANGED <<partnerVars, editing, baseline, flight, typed>>
-----------------------------------------------------------------------------
\* handleSubmit: what the page itself refuses is not sent.
Submit(t) ==
  /\ editing[t] # None /\ flight[t] = None /\ DraftOk(editing[t].draft)
  /\ save[<<t, "save">>] = Idle
  /\ flight' = [flight EXCEPT ![t] = [id |-> editing[t].id, state |-> "sent",
                                      input |-> ToInput(editing[t].draft)]]
  /\ Quiet
  /\ UNCHANGED <<partnerVars, list, editing, baseline, typed>>

Advance(t, s) == flight' = [flight EXCEPT ![t].state = s]

Sent(t) == flight[t] # None /\ flight[t].state = "sent"

\* The server's checks of the save that t has sent.
Checked(t) ==
  /\ Sent(t)
  /\ IF flight[t].id = NewId
     THEN \E i \in PartnerIds : CheckCreate(<<t, "save">>, i, flight[t].input)
     ELSE CheckUpdate(<<t, "save">>, flight[t].id, flight[t].input)
  /\ Advance(t, "checked")
  /\ Quiet /\ UNCHANGED <<list, editing, baseline, typed>>

Refused(t) ==
  /\ Sent(t)
  /\ IF flight[t].id = NewId
     THEN \E i \in PartnerIds : Free(i) /\ Refuses("create", i, flight[t].input)
     ELSE Refuses("update", flight[t].id, flight[t].input)
  /\ Advance(t, "failed")
  /\ Quiet /\ UNCHANGED <<partnerVars, list, editing, baseline, typed>>

\* A tab that has left the page no longer waits for its save.
Written(t) ==
  /\ Write(<<t, "save">>)
  /\ IF flight[t] # None /\ flight[t].state = "checked"
     THEN Advance(t, IF Gone(<<t, "save">>) THEN "failed" ELSE "done")
     ELSE UNCHANGED flight
  /\ Quiet /\ UNCHANGED <<list, editing, baseline, typed>>

\* The connection fails: the page sees an error, whatever the server did or
\* will do.
Lost(t) == /\ flight[t] # None /\ flight[t].state # "failed"
           /\ Mishap
           /\ Advance(t, "failed")
           /\ Quiet
           /\ UNCHANGED <<partner, save, crossed, saves, list, editing, baseline, typed>>

\* onSuccess closes whatever editor is open; onError leaves it.
Saved(t) == /\ flight[t] # None /\ flight[t].state = "done"
            /\ Show(t, None)
            /\ flight' = [flight EXCEPT ![t] = None]
            /\ Quiet /\ UNCHANGED <<partnerVars, list, typed>>

Failed(t) == /\ flight[t] # None /\ flight[t].state = "failed"
             /\ flight' = [flight EXCEPT ![t] = None]
             /\ Quiet /\ UNCHANGED <<partnerVars, list, editing, baseline, typed>>

\* Delete asks, and asks first about the draft when the row is the one being
\* edited; it closes no editor.
Delete(t, i) ==
  /\ list[t][i] # NoRow
  /\ CheckDelete(<<t, "delete">>, i)
  /\ agreed' = IF Dirty(t) /\ editing[t].id = i THEN t ELSE None
  /\ left' = None
  /\ UNCHANGED <<pageVars, typed>>

Deleted(t) == /\ Write(<<t, "delete">>)
              /\ Quiet /\ UNCHANGED <<pageVars, typed>>

\* What the tab does, and what happens to its requests.
Page(t) ==
  \/ New(t) \/ Cancel(t) \/ Leave(t) \/ Refetch(t) \/ Submit(t) \/ Saved(t) \/ Failed(t)
  \/ \E d \in Drafts : Type(t, d)
  \/ \E i \in PartnerIds : Edit(t, i) \/ Delete(t, i)

Served(t) == Checked(t) \/ Refused(t) \/ Lost(t) \/ Deleted(t)

EditorNext == \E t \in Tabs : Page(t) \/ Served(t) \/ Written(t)

EditorVars == <<partnerVars, editorVars>>
-----------------------------------------------------------------------------
\* What was typed and not saved goes unasked only when the operator follows a
\* link, when a save that this tab sent earlier succeeds, or when it equals
\* the draft remembered from an earlier opening of the same row
\* (PartnersConfigPage.tsx: confirmDiscard, the baseline effect, onSuccess).
LostOnlyToSave ==
  [][\A t \in Tabs :
       (/\ editing[t] # None /\ editing[t].draft # editing[t].opened
        /\ \/ editing'[t] = None
           \/ editing'[t].opened # editing[t].opened
           \/ editing'[t].id # editing[t].id)
       => \/ agreed' = t \/ left' = t
          \/ flight[t] # None /\ flight[t].state = "done"
          \/ editing[t].draft = baseline[t]]_EditorVars
=============================================================================
