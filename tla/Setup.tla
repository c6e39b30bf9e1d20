-------------------------------- MODULE Setup --------------------------------
(***************************************************************************)
(* First-run setup of the desktop hub: the wizard in one or more browser   *)
(* tabs (apps/web/src/pages/FirstRunWizardPage.tsx), the setup routes      *)
(* (apps/api/src/routes/setup.ts), the configuration file they write       *)
(* (services/hub-config.ts) and the drop-folder channel that the registry  *)
(* starts and replaces (channels/registry.ts).                             *)
(*                                                                         *)
(* The wizard creates the first partner with the routes of Partners.  A    *)
(* click of Continue on that page runs a function of its own; only the     *)
(* create disables the button, so a second click can start another.        *)
(***************************************************************************)
EXTENDS Partners

CONSTANTS
  WizardTabs,
  Folders,
  FirstPartner,  \* what the wizard's partner page sends
  NoFolder, NoWizard, NoPatch, NoChannel, NoEnsure,
  MaxPatches     \* bound: patches with a folder or a completion

\* A channel that watches a folder, and a replacement of one.
Channels == [by : WizardTabs \cup {"boot"}, nth : Nat, folder : Folders]
Ensures  == [folder : Folders, old : Channels \cup {NoChannel}, closed : BOOLEAN]

ASSUME SetupAssumption ==
  /\ WizardTabs \X {"save", "again"} \subseteq Requests
  /\ FirstPartner \in Inputs
  /\ NoFolder \notin Folders /\ MaxPatches \in Nat
  /\ NoChannel \notin Channels /\ NoEnsure \notin Ensures

VARIABLES
  hub,       \* config.json: folder, verified, complete
  ours,      \* whether the tenant has ids of its own
  wizard,    \* per tab: step and verified, or NoWizard
  patch,     \* per tab: the folder or finish patch under way, or NoPatch
  click,     \* per tab and click: the phase of its savePartner
  channel,   \* the registry's entry: a channel, or NoChannel
  live,      \* channels that watch a folder
  unclosed,  \* history, since the start: channels whose closing failed
  ensure,    \* per tab: the replacement under way for its patch, or NoEnsure
  made,      \* history: a partner was created by a wizard
  torn,      \* history: config.json was cut short by a crash
  overlapped,\* history, since the start: two replacements at once
  patches

setupVars == <<hub, ours, wizard, patch, click, channel, live, unclosed, ensure,
               made, torn, overlapped, patches>>
configVars == <<hub, ours, made, torn>>
channelVars == <<channel, live, unclosed, ensure, overlapped>>

Clicks == {"save", "again"}
BlankHub == [folder |-> NoFolder, verified |-> FALSE, complete |-> FALSE]
FirstPage == [step |-> 0, verified |-> FALSE]

SetupInit == /\ hub = BlankHub /\ ours = FALSE
             \* hosted, or on the desktop, where setup is not complete
             /\ \/ wizard = [t \in WizardTabs |-> NoWizard]
                \/ /\ wizard = [t \in WizardTabs |-> FirstPage]
                   /\ \A i \in PartnerIds : partner[i] = NoRow
             /\ patch = [t \in WizardTabs |-> NoPatch]
             /\ click = [t \in WizardTabs |-> [k \in Clicks |-> "none"]]
             /\ channel = NoChannel /\ live = {} /\ unclosed = {}
             /\ ensure = [t \in WizardTabs |-> NoEnsure]
             /\ made = FALSE /\ torn = FALSE /\ overlapped = FALSE
             /\ patches = 0
-----------------------------------------------------------------------------
\* The wizard's pages.  An answer that arrives when the wizard is gone sets
\* the state of an unmounted page.
At(t, n) == wizard[t] # NoWizard /\ wizard[t].step = n
Goto(t, n) == wizard' = IF wizard[t] = NoWizard THEN wizard
                        ELSE [wizard EXCEPT ![t].step = n]

\* Get started, and Continue once this page or the configuration says that
\* sign-in was verified.
Forward(t) ==
  /\ \/ At(t, 0) /\ Goto(t, 1)
     \/ At(t, 1) /\ (wizard[t].verified \/ hub.verified) /\ Goto(t, 2)
  /\ UNCHANGED <<configVars, channelVars, patch, click, patches>>

Back(t) == /\ \/ At(t, 2) /\ Goto(t, 1)
              \/ At(t, 3) /\ Goto(t, 2)
           /\ UNCHANGED <<configVars, channelVars, patch, click, patches>>

\* POST /setup/verify-auth and its answer.
VerifyAuth(t) ==
  /\ At(t, 1) /\ ~wizard[t].verified
  /\ hub' = [hub EXCEPT !.verified = TRUE]
  /\ wizard' = [wizard EXCEPT ![t].verified = TRUE]
  /\ UNCHANGED <<channelVars, ours, made, torn, patch, click, patches>>

\* Continue of the folder page, and both buttons of the last page: disabled
\* while a patch of the tab is under way.
Ask(t, what, f) ==
  /\ patch[t] = NoPatch /\ patches < MaxPatches
  /\ \A k \in Clicks : click[t][k] # "ours"
  /\ patch' = [patch EXCEPT ![t] = [what |-> what, folder |-> f, state |-> "sent"]]
  /\ patches' = patches + 1
  /\ UNCHANGED <<configVars, channelVars, wizard, click>>

SaveDropFolder(t, f) == At(t, 2) /\ Ask(t, "folder", f)
FinishWizard(t) == At(t, 4) /\ Ask(t, "finish", NoFolder)

\* The page hears of its patch: done goes on, an error stays.  Finishing
\* leaves for the application.
PatchAnswered(t) ==
  /\ patch[t] # NoPatch /\ patch[t].state \in {"done", "failed"}
  /\ patch' = [patch EXCEPT ![t] = NoPatch]
  /\ IF patch[t].state = "failed" THEN UNCHANGED wizard
     ELSE IF patch[t].what = "folder" THEN Goto(t, 3)
     ELSE wizard' = [wizard EXCEPT ![t] = NoWizard]
  /\ UNCHANGED <<configVars, channelVars, click, patches>>

\* Another administrator has completed the setup: the routes show the
\* application.  What the wizard started goes on.
SetupRefetched(t) ==
  /\ wizard[t] # NoWizard /\ hub.complete
  /\ wizard' = [wizard EXCEPT ![t] = NoWizard]
  /\ UNCHANGED <<configVars, channelVars, patch, click, patches>>

\* The tab is loaded again; its functions are gone.
Reload(t) ==
  /\ wizard' = [wizard EXCEPT ![t] = IF hub.complete THEN NoWizard ELSE FirstPage]
  /\ wizard[t] # NoWizard /\ Mishap
  /\ patch' = [patch EXCEPT ![t] = NoPatch]
  /\ click' = [click EXCEPT ![t] = [k \in Clicks |-> "none"]]
  /\ ensure[t] = NoEnsure
  /\ UNCHANGED <<configVars, channelVars, patches>>
-----------------------------------------------------------------------------
\* ensureDesktopDropFolder begins: it reads the entry before it waits for the
\* old channel to close.
BeginEnsure(t, f) ==
  /\ ensure' = [ensure EXCEPT ![t] = [folder |-> f, old |-> channel, closed |-> FALSE]]
  /\ overlapped' = (overlapped \/ \E u \in WizardTabs : ensure[u] # NoEnsure)
  /\ UNCHANGED <<channel, live, unclosed>>

Serve(t, s) == patch' = [patch EXCEPT ![t].state = s]

\* Slip: the file is replaced by the patch, not merged.
PatchSetupUnmerged(t) ==
  LET p == patch[t]
      h == IF p.what = "folder" THEN [BlankHub EXCEPT !.folder = p.folder]
           ELSE [BlankHub EXCEPT !.complete = TRUE]
  IN /\ p # NoPatch /\ p.state = "sent" /\ ensure[t] = NoEnsure
     /\ hub' = h
     /\ UNCHANGED channelVars /\ Serve(t, "done")
     /\ UNCHANGED <<ours, made, torn, wizard, click, patches>>

\* PATCH /setup: the file is merged and written at once; the channel is
\* replaced if setup completes now with a folder, or the folder changes later.
PatchSetup(t) ==
  LET p == patch[t]
      h == IF p.what = "folder" THEN [hub EXCEPT !.folder = p.folder]
           ELSE [hub EXCEPT !.complete = TRUE]
  IN /\ p # NoPatch /\ p.state = "sent" /\ ensure[t] = NoEnsure
     /\ hub' = h
     /\ IF h.complete /\ h.folder # NoFolder
        THEN BeginEnsure(t, h.folder) /\ Serve(t, "ensuring")
        ELSE UNCHANGED channelVars /\ Serve(t, "done")
     /\ UNCHANGED <<ours, made, torn, wizard, click, patches>>

\* Slip: the old channel is dropped without closing it.
CloseNothing(t, ok) ==
  /\ ensure[t] # NoEnsure /\ ~ensure[t].closed /\ ok
  /\ ensure' = [ensure EXCEPT ![t].closed = TRUE]
  /\ UNCHANGED <<configVars, channel, live, unclosed, overlapped, wizard, patch, click, patches, mishaps>>

\* The old channel closes, or closing it fails: that is logged, the replacement
\* goes on, and the old one watches on.
CloseOld(t, ok) ==
  /\ ensure[t] # NoEnsure /\ ~ensure[t].closed
  /\ IF ok THEN live' = live \ {ensure[t].old} /\ UNCHANGED <<unclosed, mishaps>>
     ELSE /\ ensure[t].old # NoChannel /\ Mishap
          /\ unclosed' = unclosed \cup {ensure[t].old} /\ UNCHANGED live
  /\ ensure' = [ensure EXCEPT ![t].closed = TRUE]
  /\ UNCHANGED <<configVars, channel, overlapped, wizard, patch, click, patches>>

\* The new channel starts, or its folder cannot be made: the entry is replaced
\* either way and the patch is answered.
StartNew(t, ok) ==
  LET c == IF ok THEN [by |-> t, nth |-> patches, folder |-> ensure[t].folder]
           ELSE NoChannel
  IN /\ ensure[t] # NoEnsure /\ ensure[t].closed
     /\ IF ok THEN UNCHANGED mishaps ELSE Mishap
     /\ channel' = c
     /\ live' = IF ok THEN live \cup {c} ELSE live
     /\ ensure' = [ensure EXCEPT ![t] = NoEnsure]
     /\ patch' = IF patch[t] # NoPatch /\ patch[t].state = "ensuring"
                 THEN [patch EXCEPT ![t].state = "done"] ELSE patch
     /\ UNCHANGED <<configVars, unclosed, overlapped, wizard, click, patches>>
-----------------------------------------------------------------------------
\* savePartner: the tenant's own ids first, then the partner.  The button is
\* disabled while a create is under way, not while the ids are.
SavePartner(t, k) ==
  /\ At(t, 3) /\ click[t][k] = "none" /\ save[<<t, k>>] = Idle
  /\ \A j \in Clicks : click[t][j] \in {"none", "ours"}
  /\ (k = "again" => click[t]["save"] # "none")
  /\ click' = [click EXCEPT ![t][k] = "ours"]
  /\ UNCHANGED <<configVars, channelVars, wizard, patch, patches>>

OursSaved(t, k) ==
  /\ click[t][k] = "ours"
  /\ ours' = TRUE
  /\ click' = [click EXCEPT ![t][k] = "create"]
  /\ UNCHANGED <<hub, made, torn, channelVars, wizard, patch, patches>>

Phase(t, k, p) == /\ click' = [click EXCEPT ![t][k] = p]
                  /\ UNCHANGED <<hub, ours, torn, channelVars, wizard, patch,
                                 patches>>

WizardChecked(t, k) ==
  /\ click[t][k] = "create"
  /\ \E i \in PartnerIds : CheckCreate(<<t, k>>, i, FirstPartner)
  /\ Phase(t, k, "checked") /\ UNCHANGED made

WizardRefused(t, k) ==
  /\ click[t][k] = "create"
  /\ \E i \in PartnerIds : Free(i) /\ Refuses("create", i, FirstPartner)
  /\ Phase(t, k, "none") /\ UNCHANGED made

\* Called with the transaction of Partners.
WizardWritten(t, k) ==
  /\ made' = TRUE
  /\ Phase(t, k, IF click[t][k] = "checked" THEN "created" ELSE click[t][k])

WizardCreated(t, k) ==
  /\ click[t][k] = "created"
  /\ click' = [click EXCEPT ![t][k] = "none"]
  /\ Goto(t, 4)
  /\ UNCHANGED <<configVars, channelVars, patch, patches>>

\* A connection fails: the page sees an error, whatever the server does.
PatchLost(t) == /\ patch[t] # NoPatch /\ patch[t].state # "failed"
                /\ Mishap /\ Serve(t, "failed")
                /\ UNCHANGED <<configVars, channelVars, wizard, click, patches>>

ClickLost(t, k) == click[t][k] # "none" /\ Mishap /\ Phase(t, k, "none") /\ UNCHANGED made
-----------------------------------------------------------------------------
\* The server stops and starts: it watches the folder of a completed setup.
\* A crash in the middle of writeFileSync leaves a file that reads as {}.
Boot(h) ==
  LET c == [by |-> "boot", nth |-> 0, folder |-> h.folder]
      watching == h.complete /\ h.folder # NoFolder
  IN /\ hub' = h
     /\ channel' = IF watching THEN c ELSE NoChannel
     /\ live' = IF watching THEN {c} ELSE {}
     /\ unclosed' = {}
     /\ ensure' = [t \in WizardTabs |-> NoEnsure]
     /\ overlapped' = FALSE
     /\ patch' = [t \in WizardTabs |-> IF patch[t] = NoPatch THEN NoPatch
                                       ELSE [patch[t] EXCEPT !.state = "failed"]]
     /\ click' = [t \in WizardTabs |-> [k \in Clicks |-> "none"]]
     /\ UNCHANGED <<ours, made, wizard, patches>>

Restart == Boot(hub) /\ UNCHANGED torn

TornWrite == /\ \E t \in WizardTabs : patch[t] # NoPatch /\ patch[t].state = "sent"
             /\ Boot(BlankHub) /\ torn' = TRUE

\* Steps that concern no partner; some are mishaps.
WizardStep ==
  \E t \in WizardTabs :
    \/ Forward(t) \/ Back(t) \/ VerifyAuth(t) \/ FinishWizard(t)
    \/ PatchAnswered(t) \/ SetupRefetched(t)
    \/ PatchSetup(t)
    \/ \E f \in Folders : SaveDropFolder(t, f)
    \/ \E k \in Clicks : \/ SavePartner(t, k) \/ OursSaved(t, k)
                         \/ WizardRefused(t, k) \/ WizardCreated(t, k)

WizardMishap == \E t \in WizardTabs : PatchLost(t) \/ Reload(t) \/ \E k \in Clicks : ClickLost(t, k)
-----------------------------------------------------------------------------
\* Setup counts as complete only once sign-in was verified, a folder chosen,
\* the tenant's own ids stored and a partner created, in whatever tabs and
\* order that happened, unless a crash cut config.json short: then a wizard
\* that is still open can complete a setup whose folder is gone, and no page
\* offers to choose it again (FirstRunWizardPage.tsx, routes/setup.ts).
CompleteMeansSetUp ==
  hub.complete => /\ ours /\ made
                  /\ torn \/ (hub.verified /\ hub.folder # NoFolder)

\* While no replacement is under way and none has overlapped another since the
\* server started, the registry's channel watches, and it watches the folder of
\* the configuration; beside it only a channel whose closing failed, which is
\* logged and passed over, may still watch (registry.ts, ensureDesktopDropFolder;
\* setup.ts, PATCH).
WatchesTheFolder ==
  (~overlapped /\ \A t \in WizardTabs : ensure[t] = NoEnsure)
  => /\ live \ unclosed \subseteq {channel}
     /\ channel # NoChannel =>
          channel \in live /\ hub.complete /\ channel.folder = hub.folder
=============================================================================
