------------------------------- MODULE Console -------------------------------
(***************************************************************************)
(* The administrators' tabs: AppRoutes.tsx shows the first-run wizard      *)
(* until the setup is complete and the application afterwards, of which    *)
(* the partners page is modelled.  Wizard and page send their saves to the *)
(* same routes, and a restart of the server ends the requests of both.     *)
(***************************************************************************)
EXTENDS PartnerEditor, Setup

ASSUME ConsoleAssumption == WizardTabs = Tabs

vars == <<partnerVars, editorVars, setupVars>>

Init == PartnersInit /\ EditorInit /\ SetupInit

InWizard(t) == wizard[t] # NoWizard

\* The transaction of a request: of a click of the wizard that still waits for
\* it, or of the page, or of one whose sender no longer waits.
Transaction(t) ==
  \/ \E k \in Clicks : /\ click[t][k] = "checked"
                       /\ Write(<<t, k>>) /\ WizardWritten(t, k)
                       /\ UNCHANGED editorVars
  \/ /\ click[t]["save"] # "checked"
     /\ Written(t)
     /\ UNCHANGED setupVars
  \/ /\ click[t]["again"] # "checked"
     /\ Write(<<t, "again">>)
     /\ UNCHANGED <<editorVars, setupVars>>

\* Requests under way die with the server; the pages see errors.
Stop ==
  /\ Mishap
  /\ Restart \/ TornWrite
  /\ save' = [a \in Requests |-> Idle]
  /\ flight' = [t \in Tabs |-> IF flight[t] = None THEN None
                               ELSE [flight[t] EXCEPT !.state = "failed"]]
  /\ Quiet
  /\ UNCHANGED <<partner, crossed, saves, list, editing, baseline, typed>>

Next ==
  \/ \E t \in Tabs : ~InWizard(t) /\ Page(t) /\ UNCHANGED setupVars
  \/ \E t \in Tabs : Served(t) /\ UNCHANGED setupVars
  \/ \E t \in Tabs : Transaction(t)
  \/ \E t \in Tabs, k \in Clicks : WizardChecked(t, k) /\ UNCHANGED editorVars
  \/ WizardStep /\ UNCHANGED <<partnerVars, editorVars>>
  \/ /\ WizardMishap \/ \E t \in Tabs, ok \in BOOLEAN : CloseOld(t, ok) \/ StartNew(t, ok)
     /\ UNCHANGED <<partner, save, crossed, saves, editorVars>>
  \/ Stop

Spec == Init /\ [][Next]_vars
=============================================================================
